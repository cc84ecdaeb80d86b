--------------------------- MODULE PrinterRecords ---------------------------
(***************************************************************************)
(* The printer table, PrinterService over its two databases, and the two   *)
(* in-memory stores its events feed: PrinterCache and the keys and         *)
(* credentials of PrinterSocketStore.                                      *)
(*                                                                         *)
(* An HTTP request is cut at its awaits.  A database operation takes       *)
(* effect in one action, and its answer reaches the handler in the next.   *)
(***************************************************************************)
EXTENDS Naturals

CONSTANTS
  MaxId,        \* ids are given out from 1 on, and none of them twice
  Requests,     \* HTTP requests in progress at the same time
  Logins,       \* values of the connection fields: URL, API key, type
  None

Printers == 1..MaxId

VARIABLES
  backend,      \* the database of this installation
  row,          \* the printer table
  cache,        \* PrinterCache
  socket,       \* printerSocketAdaptersById: the credentials of each adapter
  request,
  lastId,       \* the last id given out
  contested,    \* history: printers two requests worked on at once, since boot
  unannounced,  \* history: printers of imports that failed halfway, since boot
  maintained    \* history: printers whose last reason update gave a reason

vars == <<backend, row, cache, socket, request, lastId, contested, unannounced, maintained>>

\* Name, feed rate and flow rate are copied along with the login.
Printer == [login : Logins, enabled : BOOLEAN, reason : BOOLEAN]

ASSUME PrinterRecordsAssumption ==
  /\ MaxId \in Nat \ {0}
  /\ None \notin Logins \cup Printer \cup [login : Logins, enabled : BOOLEAN]

\* { ...g, ...f }
Over(f, g) == [x \in DOMAIN f \cup DOMAIN g |-> IF x \in DOMAIN f THEN f[x] ELSE g[x]]

\* A partial update is a record of the fields it has.
ConnectionPatches == [login : Logins]
EnabledPatch_KeepsReason(enabled) == [enabled |-> enabled]
EnabledPatch(enabled) ==
  IF backend = "mongo" /\ enabled
  THEN [enabled |-> TRUE, reason |-> FALSE] ELSE [enabled |-> enabled]
ReasonPatch(reason) ==
  IF backend = "mongo" THEN [reason |-> reason, enabled |-> ~reason] ELSE [reason |-> reason]
FlowRatePatch == <<>>
\* PATCH /:id: the mongoose rules require the connection fields.
BodyPatches ==
  [login : Logins, enabled : BOOLEAN] \cup [login : Logins]
  \cup (IF backend = "mongo" THEN {} ELSE [enabled : BOOLEAN])

Idle == [op |-> "none", ids |-> {}, patch |-> <<>>, step |-> "idle", mine |-> <<>>]

\* The mongoose service patches a row in place except in PATCH /:id.
Merging(op) == backend = "sqlite" \/ op = "body"

TypeOK ==
  /\ backend \in {"sqlite", "mongo"}
  /\ row \in [Printers -> Printer \cup {None}]
  /\ cache \in [Printers -> Printer \cup {None}]
  /\ socket \in [Printers -> Logins \cup {None}]
  /\ \A c \in Requests :
       /\ request[c].ids \in SUBSET Printers
       /\ request[c].step \in {"idle", "toggle", "get", "write", "confirm",
                                "insert", "delete", "emit"}
       /\ \A p \in DOMAIN request[c].mine : request[c].mine[p] \in Printer
  /\ lastId \in 0..MaxId
  /\ contested \cup unannounced \cup maintained \subseteq Printers

SocketOf(r) == IF r # None /\ r.enabled THEN r.login ELSE None
LoadCache_EnabledOnly == [p \in Printers |-> IF row[p] # None /\ row[p].enabled THEN row[p] ELSE None]
LoadCache == row
LoadSockets == [p \in Printers |-> SocketOf(row[p])]

Init ==
  /\ backend \in {"sqlite", "mongo"}
  /\ row = [p \in Printers |-> None]
  /\ cache = LoadCache /\ socket = LoadSockets
  /\ request = [c \in Requests |-> Idle]
  /\ lastId = 0 /\ contested = {} /\ unannounced = {} /\ maintained = {}

WorksOn(p) == {c \in Requests : p \in request[c].ids}
Busy(p) == WorksOn(p) # {}

-----------------------------------------------------------------------------
(* Requests come in.  The printer of a route with :id is taken from the cache. *)

Begin(c, r) ==
  /\ request[c] = Idle
  /\ request' = [request EXCEPT ![c] = r]
  /\ contested' = contested \cup {p \in r.ids : Busy(p)}
  /\ UNCHANGED <<backend, row, cache, socket, lastId, unannounced, maintained>>

BeginUpdate(c, p, op, patch) ==
  /\ cache[p] # None
  /\ Begin(c, [Idle EXCEPT !.op = op, !.ids = {p}, !.patch = patch, !.step = "get"])

Update(c, p) ==
  \/ \E patch \in BodyPatches : BeginUpdate(c, p, "body", patch)
  \/ \E patch \in ConnectionPatches : BeginUpdate(c, p, "connection", patch)
  \/ \E enabled \in BOOLEAN : BeginUpdate(c, p, "enabled", EnabledPatch(enabled))
  \/ \E reason \in BOOLEAN : BeginUpdate(c, p, "reason", ReasonPatch(reason))
  \/ BeginUpdate(c, p, "flowRate", FlowRatePatch)

\* batchTogglePrintersEnabled handles its printers one after the other, and
\* without waiting for their updates: each is a request of its own here.
Toggle(c, p, enabled) ==
  /\ cache[p] # None
  /\ Begin(c, [Idle EXCEPT !.op = "toggle", !.ids = {p}, !.step = "toggle",
                           !.patch = EnabledPatch(enabled), !.mine = [q \in {p} |-> cache[q]]])

Create(c) == Begin(c, [Idle EXCEPT !.op = "create", !.step = "insert"])
BatchImport(c) == Begin(c, [Idle EXCEPT !.op = "import", !.step = "insert"])

Delete(c, p) ==
  cache[p] # None /\ Begin(c, [Idle EXCEPT !.op = "delete", !.ids = {p}, !.step = "delete"])

\* The ids of a deleteMany are in the body of the request.
DeleteMany(c, ids) ==
  Begin(c, [Idle EXCEPT !.op = "delete", !.ids = ids, !.step = "delete"])

RequestArrives(c) ==
  \/ Create(c) \/ BatchImport(c)
  \/ \E p \in 1..lastId : Update(c, p) \/ Delete(c, p)
  \/ \E p \in 1..lastId, enabled \in BOOLEAN : Toggle(c, p, enabled)
  \/ \E ids \in SUBSET (1..lastId) : ids # {} /\ DeleteMany(c, ids)

-----------------------------------------------------------------------------
(* Requests go on. *)

Continue(c, r) ==
  /\ request' = [request EXCEPT ![c] = r]
  /\ UNCHANGED <<backend, cache, socket, contested>>

At(c, step) == request[c].step = step
GoTo(c, step) == [request[c] EXCEPT !.step = step]
Id(c) == CHOOSE p \in request[c].ids : TRUE
Gone(c) == row[Id(c)] = None

Mine(c) == request[c].mine[Id(c)]

\* "If disabled, but not in maintenance, enable the printer"; "If enabled, disable".
ToggleWanted(c) ==
  IF request[c].patch.enabled THEN ~Mine(c).enabled /\ ~Mine(c).reason ELSE Mine(c).enabled

ToggleDecides(c) ==
  /\ At(c, "toggle")
  /\ Continue(c, IF ToggleWanted(c) THEN GoTo(c, "get") ELSE Idle)
  /\ UNCHANGED <<row, lastId, unannounced, maintained>>

GetForUpdate(c) ==
  /\ At(c, "get")
  /\ Continue(c, IF Gone(c) THEN Idle
                 ELSE [GoTo(c, "write") EXCEPT !.mine = [p \in request[c].ids |-> row[p]]])
  /\ UNCHANGED <<row, lastId, unannounced, maintained>>

\* What the update writes: typeorm the fields it names of the merged entity, save()
\* of mongoose those that differ from the document read, findByIdAndUpdate the patch.
\* With a slip, fields the request did not have are written as undefined.
Merged(c) == Over(request[c].patch, Mine(c))
Written_Undefined(c) ==
  [f \in {"login", "enabled"} |-> IF f \in DOMAIN request[c].patch THEN request[c].patch[f] ELSE None]
Written(c) ==
  CASE backend = "sqlite" -> [f \in {"login", "enabled"} |-> Merged(c)[f]]
    [] backend = "mongo" /\ request[c].op = "body" ->
         [f \in {g \in {"login", "enabled"} : Merged(c)[g] # Mine(c)[g]} |-> Merged(c)[f]]
    [] OTHER -> request[c].patch

\* What the event will carry, and with a slip: findByIdAndUpdate without new: true.
Told_Old(c, new) == IF Merging(request[c].op) THEN Merged(c) ELSE row[Id(c)]
Told(c, new) == IF Merging(request[c].op) THEN Merged(c) ELSE new

WriteUpdate(c) ==
  LET new == Over(Written(c), row[Id(c)])
      next == IF backend = "sqlite" THEN "confirm" ELSE "emit"
  IN  /\ At(c, "write")
      /\ row' = IF Gone(c) THEN row ELSE [row EXCEPT ![Id(c)] = new]
      /\ Continue(c, IF Gone(c) THEN Idle ELSE [GoTo(c, next) EXCEPT !.mine = [p \in request[c].ids |-> Told(c, new)]])
      /\ maintained' =
           IF Gone(c) \/ "reason" \notin DOMAIN request[c].patch THEN maintained
           ELSE IF request[c].patch.reason THEN maintained \cup {Id(c)} ELSE maintained \ {Id(c)}
      /\ UNCHANGED <<lastId, unannounced>>

\* BaseService.update reads the row again, and throws when it is gone.
ConfirmUpdate(c) ==
  /\ At(c, "confirm")
  /\ Continue(c, IF Gone(c) THEN Idle ELSE GoTo(c, "emit"))
  /\ UNCHANGED <<row, lastId, unannounced, maintained>>

\* create saves one printer, batchImport one after the other.
InsertRow(c) ==
  /\ At(c, "insert")
  /\ lastId < MaxId
  /\ lastId' = lastId + 1
  /\ \E r \in {q \in Printer : ~q.reason}, more \in BOOLEAN :
       /\ more => request[c].op = "import"
       /\ row' = [row EXCEPT ![lastId'] = r]
       /\ Continue(c, [GoTo(c, IF more THEN "insert" ELSE "emit")
                         EXCEPT !.ids = @ \cup {lastId'}, !.mine = Over([p \in {lastId'} |-> r], @)])
  /\ UNCHANGED <<unannounced, maintained>>

\* The API key rule of the entity is stricter than the one of the request.
InsertFails(c) ==
  /\ At(c, "insert")
  /\ Continue(c, Idle)
  /\ unannounced' = unannounced \cup request[c].ids
  /\ UNCHANGED <<row, lastId, maintained>>

DeleteRows(c) ==
  /\ At(c, "delete")
  /\ row' = [p \in Printers |-> IF p \in request[c].ids THEN None ELSE row[p]]
  /\ Continue(c, GoTo(c, "emit"))
  /\ UNCHANGED <<lastId, unannounced, maintained>>

\* printerCreated, batchPrinterCreated, printerUpdated, printersDeleted: both
\* listeners run before emit returns.
Carried(c) == [p \in request[c].ids |-> IF request[c].op = "delete" THEN None ELSE request[c].mine[p]]

\* createOrUpdateSocket with a slip: a socket there already keeps its credentials.
SocketAfter_Kept(r, old) == IF r # None /\ r.enabled /\ old # None THEN old ELSE SocketOf(r)
SocketAfter(r, old) == SocketOf(r)

Emit(c) ==
  /\ At(c, "emit")
  /\ cache' = Over(Carried(c), cache)
  /\ socket' = Over([p \in request[c].ids |-> SocketAfter(Carried(c)[p], socket[p])], socket)
  /\ request' = [request EXCEPT ![c] = Idle]
  /\ UNCHANGED <<backend, row, lastId, contested, unannounced, maintained>>

RequestStep(c) ==
  \/ ToggleDecides(c) \/ GetForUpdate(c) \/ WriteUpdate(c) \/ ConfirmUpdate(c)
  \/ InsertRow(c) \/ InsertFails(c) \/ DeleteRows(c) \/ Emit(c)

\* The process stops and boots: loadPrinterSockets loads both stores from the table.
Restart ==
  /\ cache' = LoadCache /\ socket' = LoadSockets
  /\ request' = [c \in Requests |-> Idle]
  /\ contested' = {} /\ unannounced' = {}
  /\ UNCHANGED <<backend, row, lastId, maintained>>

Next ==
  \/ Restart
  \/ \E c \in Requests : RequestArrives(c) \/ RequestStep(c)

Spec == Init /\ [][Next]_vars

\* The database answers every query, with a result or an error.
FairSpec == Spec /\ \A c \in Requests : WF_vars(RequestStep(c))

-----------------------------------------------------------------------------
(* Properties. *)

\* Requests that do not overlap leave the cache as the table is, whatever became
\* of them: only an import that failed halfway leaves printers the cache has not.
\* (The typeorm service does not store the disabled reason, see the README.)
Stored(r) ==
  IF r = None \/ backend = "mongo" THEN r ELSE [login |-> r.login, enabled |-> r.enabled]
CacheFollowsTable ==
  \A p \in Printers :
    ~Busy(p) /\ p \notin contested =>
      \/ Stored(cache[p]) = Stored(row[p])
      \/ cache[p] = None /\ p \in unannounced

\* Races may leave the cache behind the table, but never the sockets behind the
\* cache: there is a socket for exactly the enabled cached printers, and it logs
\* in with the credentials the cache shows.
SocketsFollowCache == \A p \in Printers : socket[p] = SocketOf(cache[p])

\* From the table to the cache to the sockets, each follows the one before it.
CopiesFollow == CacheFollowsTable /\ SocketsFollowCache

\* In the mongoose service enabling a printer ends its maintenance and maintenance
\* disables it, in whatever order updates of the two fields overlap: only a
\* PATCH /:id can leave a printer enabled and in maintenance.
EnabledInMaintenance(r) == r # None /\ r.enabled /\ r.reason
MaintenanceDisables ==
  [][\A p \in Printers :
       EnabledInMaintenance(row'[p]) /\ ~EnabledInMaintenance(row[p]) =>
         \E c \in WorksOn(p) : At(c, "write") /\ request[c].op = "body"]_vars

\* Every stored printer gets to the cache (or is deleted again), unless its import failed.
RowsAreAnnounced ==
  \A p \in Printers :
    row[p] # None ~> row[p] = None \/ cache[p] # None \/ p \in unannounced

\* "If disabled, but not in maintenance, enable the printer": a batch toggle that
\* nothing overlaps enables no printer whose last reason update gave it a reason.
ToggleSparesMaintained ==
  [][\A c \in Requests :
       request[c].op = "toggle" /\ request[c].patch.enabled /\ At(c, "write") /\ row' # row =>
         Id(c) \notin maintained \ contested]_vars

=============================================================================
