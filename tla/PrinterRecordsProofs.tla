------------------------ MODULE PrinterRecordsProofs ------------------------
(***************************************************************************)
(* What holds of PrinterRecords for any number of printers and requests,   *)
(* on either database.  The invariant says of every printer that no two    *)
(* requests met on how far the one request on it, if any, has come with    *)
(* the row, and what it will tell the cache.                               *)
(***************************************************************************)
EXTENDS PrinterRecords, TLAPS

-----------------------------------------------------------------------------
(* The inductive invariant. *)

Fields == {"login", "enabled", "reason"}
Patches == UNION {[D -> Logins \cup BOOLEAN] : D \in SUBSET Fields}
Copies == UNION {[D -> Printer] : D \in SUBSET Printers}
Updates == {"body", "connection", "enabled", "reason", "flowRate", "toggle"}
Steps == {"idle", "toggle", "get", "write", "confirm", "insert", "delete", "emit"}

RequestRecord ==
  [op : Updates \cup {"none", "create", "import", "delete"}, ids : SUBSET Printers,
   patch : Patches, step : Steps, mine : Copies]

\* A partial update has the types of its fields; one of the mongoose service that is
\* not a PATCH /:id keeps a printer from being both enabled and in maintenance.
PatchOK(b, op, q) ==
  /\ "login" \in DOMAIN q => q["login"] \in Logins
  /\ "enabled" \in DOMAIN q => q["enabled"] \in BOOLEAN
  /\ "reason" \in DOMAIN q => q["reason"] \in BOOLEAN /\ op # "body"
  /\ b = "mongo" /\ op # "body" =>
       /\ "enabled" \in DOMAIN q /\ q["enabled"] => "reason" \in DOMAIN q /\ ~q["reason"]
       /\ "reason" \in DOMAIN q /\ q["reason"] => "enabled" \in DOMAIN q /\ ~q["enabled"]

\* A request has the operation of its step, the printers given out so far, and from the
\* step that reads them on a copy of each.
RequestOK(b, n, r) ==
  /\ \A p \in r.ids : p <= n
  /\ PatchOK(b, r.op, r.patch)
  /\ r.step = "idle" => r = Idle
  /\ r.step \in {"toggle", "get", "write", "confirm"} => r.op \in Updates /\ \E p \in Printers : r.ids = {p}
  /\ r.step = "insert" => r.op \in {"create", "import"}
  /\ r.step = "delete" => r.op = "delete"
  /\ r.step \in {"toggle", "write", "confirm", "insert"} \/ (r.step = "emit" /\ r.op # "delete") =>
       DOMAIN r.mine = r.ids

\* x and y are the same to database b.
Same(b, x, y) ==
  IF b = "mongo" \/ x = None \/ y = None THEN x = y
  ELSE x.login = y.login /\ x.enabled = y.enabled

\* Copy y of a printer is like its row x, or lacks it (u: its import failed).
Follows(b, x, y, u) == Same(b, y, x) \/ (y = None /\ u)

\* How far request r, the only one on printer p, has come with its row x and copy y.
Agrees(b, r, p, x, y, u) ==
  /\ r.step \in {"toggle", "get", "write", "delete"} => Follows(b, x, y, u)
  /\ r.step = "write" => x # None /\ r.mine[p] = x
  /\ r.step = "confirm" \/ (r.step = "emit" /\ r.op # "delete") => x # None /\ Same(b, r.mine[p], x)
  /\ r.step = "insert" => y = None /\ x = r.mine[p]
  /\ r.step = "emit" /\ r.op = "delete" => x = None

Uncontested(p) ==
  p \notin contested =>
    /\ \A c, d \in Requests : p \in request[c].ids /\ p \in request[d].ids => c = d
    /\ \A c \in Requests : p \in request[c].ids =>
         Agrees(backend, request[c], p, row[p], cache[p], p \in unannounced)
    /\ ~Busy(p) => Follows(backend, row[p], cache[p], p \in unannounced)

RowsTyped ==
  /\ backend \in {"sqlite", "mongo"}
  /\ row \in [Printers -> Printer \cup {None}]
  /\ cache \in [Printers -> Printer \cup {None}]
  /\ lastId \in 0..MaxId
  /\ contested \cup unannounced \cup maintained \subseteq Printers
  /\ \A p \in Printers : p > lastId => row[p] = None /\ cache[p] = None
  /\ backend = "sqlite" => \A p \in Printers : row[p] # None => ~row[p].reason

RequestsTyped ==
  /\ request \in [Requests -> RequestRecord]
  /\ \A c \in Requests : RequestOK(backend, lastId, request[c])

IInv ==
  /\ RowsTyped /\ RequestsTyped
  /\ SocketsFollowCache /\ socket \in [Printers -> Logins \cup {None}]
  /\ \A p \in Printers : Uncontested(p)

-----------------------------------------------------------------------------
(* Rows and patches. *)

\* What the property calls stored alike is what the invariant calls the same.
LEMMA StoredAlike ==
  ASSUME RowsTyped, NEW x \in Printer \cup {None}, NEW y \in Printer \cup {None}
  PROVE  Stored(x) = Stored(y) <=> Same(backend, x, y)
<1>1. \A z \in Printer : [login |-> z.login, enabled |-> z.enabled] \in [login : Logins, enabled : BOOLEAN]
  BY DEF Printer
<1> QED BY <1>1, PrinterRecordsAssumption DEF RowsTyped, Stored, Same, Printer

LEMMA SameIsReflexive ==
  ASSUME NEW b, NEW x
  PROVE  Same(b, x, x)
BY DEF Same

\* Merging a partial update into a row gives a row, with the fields of the update.
LEMMA MergeTyped ==
  ASSUME NEW b, NEW op, NEW q \in Patches, PatchOK(b, op, q), NEW x \in Printer
  PROVE  LET m == Over(q, x)
         IN  /\ m \in Printer
             /\ m.login = IF "login" \in DOMAIN q THEN q["login"] ELSE x.login
             /\ m.enabled = IF "enabled" \in DOMAIN q THEN q["enabled"] ELSE x.enabled
             /\ m.reason = IF "reason" \in DOMAIN q THEN q["reason"] ELSE x.reason
<1>1. DOMAIN q \subseteq Fields /\ DOMAIN x = Fields
  BY DEF Patches, Printer, Fields
<1>2. Over(q, x) = [f \in Fields |-> IF f \in DOMAIN q THEN q[f] ELSE x[f]]
  BY <1>1 DEF Over
<1> QED BY <1>2 DEF PatchOK, Printer, Fields

\* So does what an update writes; it is what typeorm and save() tell the cache of, and
\* what findByIdAndUpdate returns, but for a reason that typeorm does not store.
LEMMA WriteEffect ==
  ASSUME RowsTyped, NEW op, NEW q \in Patches, PatchOK(backend, op, q),
         NEW x \in Printer, NEW y \in Printer, backend = "sqlite" => ~y.reason,
         NEW w,
         w = CASE backend = "sqlite" -> [f \in {"login", "enabled"} |-> Over(q, x)[f]]
               [] backend = "mongo" /\ op = "body" ->
                    [f \in {g \in {"login", "enabled"} : Over(q, x)[g] # x[g]} |-> Over(q, x)[f]]
               [] OTHER -> q
  PROVE  LET new == Over(w, y)
         IN  /\ new \in Printer /\ (backend = "sqlite" => ~new.reason)
             /\ x = y /\ Merging(op) => Same(backend, Over(q, x), new)
             /\ op # "body" /\ EnabledInMaintenance(new) => EnabledInMaintenance(y)
<1> DEFINE m == Over(q, x)
<1>1. /\ m \in Printer
      /\ m.reason = IF "reason" \in DOMAIN q THEN q["reason"] ELSE x.reason
  BY MergeTyped
<1>2. DOMAIN m = Fields /\ DOMAIN y = Fields /\ DOMAIN x = Fields
  BY <1>1 DEF Printer, Fields
<1> HIDE DEF m
<1>3. CASE backend = "sqlite"
  <2>1. w = [f \in {"login", "enabled"} |-> m[f]]
    BY <1>3 DEF m
  <2>2. Over(w, y) = [f \in Fields |-> IF f \in {"login", "enabled"} THEN m[f] ELSE y[f]]
    BY <1>2, <2>1 DEF Over, Fields
  <2>3. /\ Over(w, y) \in Printer /\ ~Over(w, y).reason
        /\ Over(w, y).login = m.login /\ Over(w, y).enabled = m.enabled
    BY <1>1, <1>3, <2>2 DEF Printer, Fields
  <2> QED BY <1>1, <1>3, <2>3, PrinterRecordsAssumption DEF m, Same, EnabledInMaintenance
<1>4. CASE backend = "mongo" /\ op = "body"
  <2> DEFINE D == {g \in {"login", "enabled"} : m[g] # x[g]}
  <2>1. w = [f \in D |-> m[f]]
    BY <1>4 DEF m
  <2>2. Over(w, y) = [f \in Fields |-> IF f \in D THEN m[f] ELSE y[f]]
    BY <1>2, <2>1 DEF Over, Fields
  <2>3. Over(w, y) \in Printer
    BY <1>1, <2>2 DEF Printer, Fields
  <2>4. m.reason = x.reason
    BY <1>1, <1>4 DEF PatchOK
  <2>5. x = y => Over(w, y) = m
    <3>1. m = [f \in Fields |-> m[f]]
      BY <1>1 DEF Printer, Fields
    <3>2. x = y => \A f \in Fields : (IF f \in D THEN m[f] ELSE y[f]) = m[f]
      BY <2>4 DEF Fields
    <3> HIDE DEF D
    <3> QED BY <2>2, <3>1, <3>2
  <2> QED BY <1>4, <2>3, <2>5 DEF m, Same
<1>5. CASE backend = "mongo" /\ op # "body"
  <2>1. w = q
    BY <1>5
  <2>2. /\ Over(q, y) \in Printer
        /\ Over(q, y).enabled = IF "enabled" \in DOMAIN q THEN q["enabled"] ELSE y.enabled
        /\ Over(q, y).reason = IF "reason" \in DOMAIN q THEN q["reason"] ELSE y.reason
    BY MergeTyped
  <2>3. EnabledInMaintenance(Over(q, y)) => EnabledInMaintenance(y)
    BY <1>5, <2>2, PrinterRecordsAssumption DEF EnabledInMaintenance, PatchOK
  <2> QED BY <1>5, <2>1, <2>2, <2>3 DEF Merging
<1> QED BY <1>3, <1>4, <1>5 DEF RowsTyped

-----------------------------------------------------------------------------
(* Requests. *)

LEMMA IdleTyped ==
  /\ Idle \in RequestRecord /\ Idle.ids = {} /\ Idle.step = "idle"
  /\ \A b, n : RequestOK(b, n, Idle)
<1>1. <<>> \in Patches /\ <<>> \in Copies /\ DOMAIN <<>> = {}
  <2>1. <<>> = [f \in {} |-> TRUE]
    OBVIOUS
  <2>2. <<>> \in [{} -> Logins \cup BOOLEAN] /\ <<>> \in [{} -> Printer]
    BY <2>1
  <2> QED BY <2>2 DEF Patches, Copies
<1> QED BY <1>1 DEF Idle, RequestRecord, RequestOK, PatchOK, Steps

\* One request goes on to r.  The invariant is kept if r is a request, and if every
\* printer it is on, or was on, agrees with what it has come to.
LEMMA AdvanceKeeps ==
  ASSUME IInv, NEW c \in Requests, NEW r \in RequestRecord, request' = [request EXCEPT ![c] = r],
         lastId' \in 0..MaxId, lastId <= lastId', RequestOK(backend, lastId', r),
         RowsTyped', SocketsFollowCache', socket' \in [Printers -> Logins \cup {None}],
         backend' = backend, contested' = contested,
         \A p \in Printers : p \notin request[c].ids /\ p \notin r.ids =>
            row'[p] = row[p] /\ cache'[p] = cache[p] /\ (p \in unannounced => p \in unannounced'),
         \A p \in Printers : (p \in request[c].ids \/ p \in r.ids) /\ p \notin contested =>
            /\ \A d \in Requests : p \in request[d].ids => d = c
            /\ p \in r.ids => Agrees(backend, r, p, row'[p], cache'[p], p \in unannounced')
            /\ p \notin r.ids => Follows(backend, row'[p], cache'[p], p \in unannounced')
  PROVE  IInv'
<1>1. RequestsTyped'
  <2>1. \A d \in Requests : RequestOK(backend, lastId', request'[d])
    <3> TAKE d \in Requests
    <3>1. CASE d = c
      BY <3>1 DEF IInv, RequestsTyped
    <3>2. CASE d # c
      <4>1. request'[d] = request[d] /\ RequestOK(backend, lastId, request[d])
        BY <3>2 DEF IInv, RequestsTyped
      <4>2. request[d].ids \subseteq 1..MaxId /\ lastId \in 0..MaxId
        BY DEF IInv, RequestsTyped, RequestRecord, Printers, RowsTyped
      <4>3. \A p \in request[d].ids : p <= lastId'
        BY <4>1, <4>2, PrinterRecordsAssumption DEF RequestOK
      <4> QED BY <4>1, <4>3 DEF RequestOK
    <3> QED BY <3>1, <3>2
  <2> QED BY <2>1 DEF IInv, RequestsTyped
<1>2. ASSUME NEW p \in Printers PROVE Uncontested(p)'
  <2>1. CASE p \in request[c].ids \cup r.ids
    BY <2>1 DEF IInv, RequestsTyped, Uncontested, Busy, WorksOn
  <2>2. CASE p \notin request[c].ids \cup r.ids
    <3>1. /\ row'[p] = row[p] /\ cache'[p] = cache[p] /\ (p \in unannounced => p \in unannounced')
          /\ \A d \in Requests : p \in request'[d].ids <=> p \in request[d].ids
          /\ \A d \in Requests : p \in request[d].ids => request'[d] = request[d]
      BY <2>2 DEF IInv, RequestsTyped
    <3>2. Busy(p)' <=> Busy(p)
      BY <3>1 DEF Busy, WorksOn
    <3>3. Uncontested(p)
      BY DEF IInv
    <3> QED BY <3>1, <3>2, <3>3 DEF Uncontested, Agrees, Follows
  <2> QED BY <2>1, <2>2
<1> QED BY <1>1, <1>2 DEF IInv

\* The facts about a request that every step of it starts from.
LEMMA Before ==
  ASSUME IInv, NEW c \in Requests
  PROVE  /\ request[c] \in RequestRecord /\ request \in [Requests -> RequestRecord]
         /\ RequestOK(backend, lastId, request[c]) /\ RowsTyped
         /\ lastId \in 0..MaxId /\ lastId <= lastId
         /\ SocketsFollowCache /\ socket \in [Printers -> Logins \cup {None}]
         /\ \A p \in Printers : p \in request[c].ids /\ p \notin contested =>
              /\ \A d \in Requests : p \in request[d].ids => d = c
              /\ Agrees(backend, request[c], p, row[p], cache[p], p \in unannounced)
BY PrinterRecordsAssumption DEF IInv, RequestsTyped, RowsTyped, Uncontested

\* A request goes on with the printers it is on, or ends.
LEMMA GoesOnKeeps ==
  ASSUME IInv, NEW c \in Requests, NEW r \in RequestRecord, request' = [request EXCEPT ![c] = r],
         RequestOK(backend, lastId, r), r.ids = request[c].ids,
         RowsTyped', SocketsFollowCache', socket' \in [Printers -> Logins \cup {None}],
         UNCHANGED <<backend, lastId, contested>>,
         \A p \in Printers : p \notin request[c].ids =>
            row'[p] = row[p] /\ cache'[p] = cache[p] /\ (p \in unannounced => p \in unannounced'),
         \A p \in Printers : p \in request[c].ids /\ p \notin contested =>
            Agrees(backend, r, p, row'[p], cache'[p], p \in unannounced')
  PROVE  IInv'
<1>1. /\ \A p \in Printers : p \notin request[c].ids /\ p \notin r.ids =>
           row'[p] = row[p] /\ cache'[p] = cache[p] /\ (p \in unannounced => p \in unannounced')
      /\ \A p \in Printers : (p \in request[c].ids \/ p \in r.ids) /\ p \notin contested =>
           (\A d \in Requests : p \in request[d].ids => d = c) /\ p \in r.ids
  BY Before
<1>2. /\ lastId' \in 0..MaxId /\ lastId <= lastId' /\ RequestOK(backend, lastId', r)
      /\ backend' = backend /\ contested' = contested
  BY Before
<1> QED BY <1>1, <1>2, AdvanceKeeps

LEMMA EndsKeeps ==
  ASSUME IInv, NEW c \in Requests, request' = [request EXCEPT ![c] = Idle],
         RowsTyped', SocketsFollowCache', socket' \in [Printers -> Logins \cup {None}],
         UNCHANGED <<backend, lastId, contested>>,
         \A p \in Printers : p \notin request[c].ids =>
            row'[p] = row[p] /\ cache'[p] = cache[p] /\ (p \in unannounced => p \in unannounced'),
         \A p \in Printers : p \in request[c].ids /\ p \notin contested =>
            Follows(backend, row'[p], cache'[p], p \in unannounced')
  PROVE  IInv'
<1>1. /\ \A p \in Printers : p \notin request[c].ids /\ p \notin Idle.ids =>
           row'[p] = row[p] /\ cache'[p] = cache[p] /\ (p \in unannounced => p \in unannounced')
      /\ \A p \in Printers : (p \in request[c].ids \/ p \in Idle.ids) /\ p \notin contested =>
           \A d \in Requests : p \in request[d].ids => d = c
      /\ \A p \in Printers : (p \in request[c].ids \/ p \in Idle.ids) /\ p \notin contested =>
           p \notin Idle.ids /\ p \in request[c].ids
  BY Before, IdleTyped
<1>2. /\ lastId' \in 0..MaxId /\ lastId <= lastId' /\ RequestOK(backend, lastId', Idle) /\ Idle \in RequestRecord
      /\ backend' = backend /\ contested' = contested
  BY Before, IdleTyped
<1> QED BY <1>1, <1>2, AdvanceKeeps

LEMMA GivenOut ==
  ASSUME IInv, NEW p \in 1..lastId
  PROVE  p \in Printers /\ p <= lastId
<1>1. lastId \in 0..MaxId /\ MaxId \in Nat
  BY PrinterRecordsAssumption DEF IInv, RowsTyped
<1> QED BY <1>1 DEF Printers

-----------------------------------------------------------------------------
(* Requests come in. *)

\* A request begins on printers that are as the table says, or already contested.
LEMMA BeginKeeps ==
  ASSUME IInv, NEW c \in Requests, NEW r \in RequestRecord, RequestOK(backend, lastId, r), Begin(c, r),
         r.step \in {"toggle", "get", "delete"} \/ r.ids = {}
  PROVE  IInv'
<1>1. /\ request' = [request EXCEPT ![c] = r] /\ request[c] = Idle
      /\ contested' = contested \cup {p \in r.ids : Busy(p)}
      /\ UNCHANGED <<backend, row, cache, socket, lastId, unannounced, maintained>>
  BY DEF Begin
<1>2. RowsTyped' /\ RequestsTyped' /\ SocketsFollowCache' /\ (socket \in [Printers -> Logins \cup {None}])'
  <2>1. contested' \subseteq Printers
    BY <1>1 DEF IInv, RowsTyped, RequestRecord
  <2> QED BY <1>1, <2>1 DEF IInv, RowsTyped, RequestsTyped, SocketsFollowCache
<1>3. ASSUME NEW p \in Printers PROVE Uncontested(p)'
  <2>1. Uncontested(p)
    BY DEF IInv
  <2>2. \A d \in Requests : request'[d] = IF d = c THEN r ELSE request[d]
    BY <1>1 DEF IInv, RequestsTyped
  <2>3. p \notin request[c].ids
    BY <1>1, IdleTyped
  <2>4. CASE p \notin r.ids
    <3>1. Busy(p)' <=> Busy(p)
      BY <2>2, <2>3, <2>4 DEF Busy, WorksOn
    <3> QED BY <1>1, <2>1, <2>2, <2>4, <3>1 DEF Uncontested
  <2>5. CASE p \in r.ids
    <3>1. Busy(p) => p \in contested'
      BY <1>1, <2>5
    <3>2. ~Busy(p) /\ p \notin contested =>
            /\ \A d \in Requests : p \notin request[d].ids
            /\ Agrees(backend, r, p, row[p], cache[p], p \in unannounced)
      BY <2>1, <2>5 DEF Uncontested, Agrees, Busy, WorksOn
    <3>3. Busy(p)'
      BY <2>2, <2>5 DEF Busy, WorksOn
    <3> QED BY <1>1, <2>2, <3>1, <3>2, <3>3 DEF Uncontested
  <2> QED BY <2>4, <2>5
<1> QED BY <1>2, <1>3 DEF IInv

\* The updates the routes begin are patches of their kind.
LEMMA PatchesTyped ==
  /\ \A q \in BodyPatches : q \in Patches /\ PatchOK(backend, "body", q)
  /\ \A q \in ConnectionPatches : q \in Patches /\ PatchOK(backend, "connection", q)
  /\ \A e \in BOOLEAN, op \in {"enabled", "toggle"} :
       EnabledPatch(e) \in Patches /\ PatchOK(backend, op, EnabledPatch(e))
  /\ \A e \in BOOLEAN : ReasonPatch(e) \in Patches /\ PatchOK(backend, "reason", ReasonPatch(e))
  /\ FlowRatePatch \in Patches /\ PatchOK(backend, "flowRate", FlowRatePatch)
<1>1. \A D \in SUBSET Fields : [D -> Logins \cup BOOLEAN] \subseteq Patches
  BY DEF Patches
<1>2. \A q \in [login : Logins] : q \in [{"login"} -> Logins \cup BOOLEAN] /\ q["login"] \in Logins
  OBVIOUS
<1>3. \A q \in [login : Logins, enabled : BOOLEAN] :
        q \in [{"login", "enabled"} -> Logins \cup BOOLEAN] /\ q["login"] \in Logins /\ q["enabled"] \in BOOLEAN
  OBVIOUS
<1>4. \A q \in [enabled : BOOLEAN] : q \in [{"enabled"} -> Logins \cup BOOLEAN] /\ q["enabled"] \in BOOLEAN
  OBVIOUS
<1>5. \A q \in [reason : BOOLEAN] : q \in [{"reason"} -> Logins \cup BOOLEAN] /\ q["reason"] \in BOOLEAN
  OBVIOUS
<1>6. \A q \in [enabled : BOOLEAN, reason : BOOLEAN] :
        q \in [{"enabled", "reason"} -> Logins \cup BOOLEAN] /\ q["enabled"] \in BOOLEAN /\ q["reason"] \in BOOLEAN
  OBVIOUS
<1>7. \A q \in BodyPatches : q \in Patches /\ PatchOK(backend, "body", q)
  <2> TAKE q \in BodyPatches
  <2>1. CASE q \in [login : Logins]
    BY <1>1, <1>2, <2>1 DEF PatchOK, Fields
  <2>2. CASE q \in [login : Logins, enabled : BOOLEAN]
    BY <1>1, <1>3, <2>2 DEF PatchOK, Fields
  <2>3. CASE q \in [enabled : BOOLEAN]
    BY <1>1, <1>4, <2>3 DEF PatchOK, Fields
  <2> QED BY <2>1, <2>2, <2>3 DEF BodyPatches
<1>8. \A q \in ConnectionPatches : q \in Patches /\ PatchOK(backend, "connection", q)
  BY <1>1, <1>2 DEF PatchOK, Fields, ConnectionPatches
<1>9. ASSUME NEW e \in BOOLEAN, NEW op \in {"enabled", "toggle"}
      PROVE  EnabledPatch(e) \in Patches /\ PatchOK(backend, op, EnabledPatch(e))
  <2>1. CASE backend = "mongo" /\ e
    <3>1. EnabledPatch(e) = [enabled |-> TRUE, reason |-> FALSE]
      BY <2>1 DEF EnabledPatch
    <3> QED BY <1>1, <1>6, <3>1 DEF PatchOK, Fields
  <2>2. CASE ~(backend = "mongo" /\ e)
    <3>1. EnabledPatch(e) = [enabled |-> e]
      BY <2>2 DEF EnabledPatch
    <3> QED BY <1>1, <1>4, <2>2, <3>1 DEF PatchOK, Fields
  <2> QED BY <2>1, <2>2
<1>10. ASSUME NEW e \in BOOLEAN
       PROVE  ReasonPatch(e) \in Patches /\ PatchOK(backend, "reason", ReasonPatch(e))
  <2>1. CASE backend = "mongo"
    <3>1. ReasonPatch(e) = [reason |-> e, enabled |-> ~e]
      BY <2>1 DEF ReasonPatch
    <3> QED BY <1>1, <1>6, <3>1 DEF PatchOK, Fields
  <2>2. CASE backend # "mongo"
    <3>1. ReasonPatch(e) = [reason |-> e]
      BY <2>2 DEF ReasonPatch
    <3> QED BY <1>1, <1>5, <2>2, <3>1 DEF PatchOK, Fields
  <2> QED BY <2>1, <2>2
<1>11. FlowRatePatch \in Patches /\ PatchOK(backend, "flowRate", FlowRatePatch)
  BY IdleTyped DEF FlowRatePatch, Idle, RequestRecord, RequestOK, PatchOK
<1> QED BY <1>7, <1>8, <1>9, <1>10, <1>11

LEMMA UpdateKeeps ==
  ASSUME IInv, NEW c \in Requests, NEW p \in 1..lastId, NEW op \in Updates \ {"toggle"},
         NEW q \in Patches, PatchOK(backend, op, q), BeginUpdate(c, p, op, q)
  PROVE  IInv'
<1> DEFINE r == [Idle EXCEPT !.op = op, !.ids = {p}, !.patch = q, !.step = "get"]
<1>1. p \in Printers /\ p <= lastId
  BY GivenOut
<1>2. r \in RequestRecord /\ r.step = "get" /\ RequestOK(backend, lastId, r)
  BY <1>1, IdleTyped DEF RequestRecord, RequestOK, Steps, Updates
<1> QED BY <1>2, BeginKeeps DEF BeginUpdate

LEMMA ToggleKeeps ==
  ASSUME IInv, NEW c \in Requests, NEW p \in 1..lastId, NEW e \in BOOLEAN, Toggle(c, p, e)
  PROVE  IInv'
<1> DEFINE m == [q \in {p} |-> cache[q]]
           r == [Idle EXCEPT !.op = "toggle", !.ids = {p}, !.step = "toggle",
                             !.patch = EnabledPatch(e), !.mine = m]
<1>1. p \in Printers /\ p <= lastId /\ cache[p] \in Printer
  BY GivenOut DEF IInv, RowsTyped, Toggle
<1>2. m \in Copies /\ DOMAIN m = {p}
  <2>1. m \in [{p} -> Printer] /\ {p} \in SUBSET Printers
    BY <1>1
  <2> QED BY <2>1 DEF Copies
<1> HIDE DEF m
<1>3. r \in RequestRecord /\ r.step = "toggle" /\ RequestOK(backend, lastId, r)
  BY <1>1, <1>2, IdleTyped, PatchesTyped DEF RequestRecord, RequestOK, Steps, Updates
<1> QED BY <1>3, BeginKeeps DEF Toggle, m

LEMMA CreateKeeps ==
  ASSUME IInv, NEW c \in Requests, Create(c) \/ BatchImport(c)
  PROVE  IInv'
<1>1. PICK op \in {"create", "import"} : Begin(c, [Idle EXCEPT !.op = op, !.step = "insert"])
  BY DEF Create, BatchImport
<1> DEFINE r == [Idle EXCEPT !.op = op, !.step = "insert"]
<1>2. r \in RequestRecord /\ r.op = op /\ r.ids = {} /\ r.step = "insert"
  BY IdleTyped DEF RequestRecord, Steps
<1>3. DOMAIN r.mine = {} /\ DOMAIN r.patch = {}
  BY DEF Idle
<1>4. RequestOK(backend, lastId, r)
  BY <1>2, <1>3 DEF RequestOK, PatchOK
<1> QED BY <1>1, <1>2, <1>4, BeginKeeps

LEMMA DeleteKeeps ==
  ASSUME IInv, NEW c \in Requests, NEW ids \in SUBSET (1..lastId),
         Begin(c, [Idle EXCEPT !.op = "delete", !.ids = ids, !.step = "delete"])
  PROVE  IInv'
<1> DEFINE r == [Idle EXCEPT !.op = "delete", !.ids = ids, !.step = "delete"]
<1>1. ids \in SUBSET Printers /\ \A p \in ids : p <= lastId
  BY GivenOut
<1>2. r \in RequestRecord /\ r.step = "delete" /\ RequestOK(backend, lastId, r)
  BY <1>1, IdleTyped DEF RequestRecord, RequestOK, PatchOK, Steps, Idle
<1> QED BY <1>2, BeginKeeps

LEMMA ArrivalKeeps ==
  ASSUME IInv, NEW c \in Requests, RequestArrives(c)
  PROVE  IInv'
<1>1. ASSUME NEW p \in 1..lastId, Update(c, p) PROVE IInv'
  BY <1>1, PatchesTyped, UpdateKeeps DEF Update, Updates
<1>2. ASSUME NEW p \in 1..lastId, Delete(c, p) PROVE IInv'
  BY <1>2, DeleteKeeps DEF Delete
<1>3. ASSUME NEW ids \in SUBSET (1..lastId), DeleteMany(c, ids) PROVE IInv'
  BY <1>3, DeleteKeeps DEF DeleteMany
<1> QED BY <1>1, <1>2, <1>3, CreateKeeps, ToggleKeeps DEF RequestArrives

-----------------------------------------------------------------------------
(* Requests go on. *)

\* A request on one printer.
LEMMA OnePrinter ==
  ASSUME IInv, NEW c \in Requests, request[c].step \in {"toggle", "get", "write", "confirm"}
  PROVE  Id(c) \in Printers /\ request[c].ids = {Id(c)}
BY Before DEF RequestOK, Id

LEMMA ToggleDecidesKeeps ==
  ASSUME IInv, NEW c \in Requests, ToggleDecides(c)
  PROVE  IInv'
<1> DEFINE r == GoTo(c, "get")
<1>1. /\ request[c].step = "toggle" /\ request' = [request EXCEPT ![c] = IF ToggleWanted(c) THEN r ELSE Idle]
      /\ UNCHANGED <<backend, row, cache, socket, lastId, contested, unannounced, maintained>>
  BY DEF ToggleDecides, At, Continue
<1>2. /\ r \in RequestRecord /\ RequestOK(backend, lastId, r)
      /\ r.ids = request[c].ids /\ r.step = "get"
  BY <1>1, Before DEF GoTo, RequestRecord, RequestOK, Steps
<1>3. \A p \in Printers : p \in request[c].ids /\ p \notin contested =>
        Follows(backend, row[p], cache[p], p \in unannounced)
  BY <1>1, Before DEF Agrees
<1>4. RowsTyped' /\ SocketsFollowCache' /\ socket' \in [Printers -> Logins \cup {None}]
  BY <1>1 DEF IInv, RowsTyped, SocketsFollowCache
<1> HIDE DEF r
<1>5. \A p \in Printers : p \in request[c].ids /\ p \notin contested =>
        /\ Follows(backend, row'[p], cache'[p], p \in unannounced')
        /\ Agrees(backend, r, p, row'[p], cache'[p], p \in unannounced')
  BY <1>1, <1>2, <1>3 DEF Agrees
<1> QED BY <1>1, <1>2, <1>4, <1>5, GoesOnKeeps, EndsKeeps

LEMMA GetForUpdateKeeps ==
  ASSUME IInv, NEW c \in Requests, GetForUpdate(c)
  PROVE  IInv'
<1> DEFINE m == [p \in request[c].ids |-> row[p]]
           r == IF Gone(c) THEN Idle ELSE [GoTo(c, "write") EXCEPT !.mine = m]
<1>1. /\ request[c].step = "get" /\ request' = [request EXCEPT ![c] = r]
      /\ UNCHANGED <<backend, row, cache, socket, lastId, contested, unannounced, maintained>>
  BY DEF GetForUpdate, At, Continue
<1>2. Id(c) \in Printers /\ request[c].ids = {Id(c)}
  BY <1>1, OnePrinter
<1>3. ~Gone(c) => row[Id(c)] \in Printer /\ m \in Copies /\ DOMAIN m = request[c].ids
  <2>1. ~Gone(c) => row[Id(c)] \in Printer
    BY <1>2 DEF IInv, RowsTyped, Gone
  <2>2. ~Gone(c) => m \in [{Id(c)} -> Printer] /\ {Id(c)} \in SUBSET Printers
    BY <1>2, <2>1
  <2> QED BY <1>2, <2>1, <2>2 DEF Copies
<1>4. \A p \in Printers : p \in request[c].ids /\ p \notin contested =>
        Follows(backend, row'[p], cache'[p], p \in unannounced')
  BY <1>1, Before DEF Agrees
<1>5. RowsTyped' /\ SocketsFollowCache' /\ socket' \in [Printers -> Logins \cup {None}]
  BY <1>1 DEF IInv, RowsTyped, SocketsFollowCache
<1>6. CASE Gone(c)
  BY <1>1, <1>4, <1>5, <1>6, EndsKeeps
<1>7. CASE ~Gone(c)
  <2> HIDE DEF m
  <2>1. r = [GoTo(c, "write") EXCEPT !.mine = m]
    BY <1>7
  <2>2. /\ r \in RequestRecord /\ RequestOK(backend, lastId, r)
        /\ r.ids = request[c].ids /\ r.step = "write" /\ r.mine = m
    <3>1. /\ r \in RequestRecord /\ r.op = request[c].op /\ r.patch = request[c].patch
          /\ r.ids = request[c].ids /\ r.step = "write" /\ r.mine = m
      BY <1>3, <1>7, <2>1, Before DEF GoTo, RequestRecord, Steps
    <3> HIDE DEF r
    <3> QED BY <1>1, <1>3, <1>7, <3>1, Before DEF RequestOK
  <2>3. \A p \in Printers : p \in request[c].ids =>
          row[p] # None /\ m[p] = row[p]
    BY <1>2, <1>3, <1>7 DEF m, Gone
  <2>4. \A p \in Printers : p \in r.ids /\ p \notin contested =>
          Agrees(backend, r, p, row'[p], cache'[p], p \in unannounced')
    BY <1>1, <1>4, <2>2, <2>3 DEF Agrees
  <2> HIDE DEF r
  <2> QED BY <1>1, <1>5, <2>2, <2>4, GoesOnKeeps
<1> QED BY <1>6, <1>7

\* What a write leaves in the row, and what it will tell the cache.
LEMMA WriteGives ==
  ASSUME IInv, NEW c \in Requests, request[c].step = "write", ~Gone(c)
  PROVE  LET new == Over(Written(c), row[Id(c)])
         IN  /\ new \in Printer /\ (backend = "sqlite" => ~new.reason)
             /\ Told(c, new) \in Printer
             /\ Id(c) \notin contested => Same(backend, Told(c, new), new)
             /\ request[c].op # "body" /\ EnabledInMaintenance(new) => EnabledInMaintenance(row[Id(c)])
<1>1. /\ Id(c) \in Printers /\ request[c].ids = {Id(c)}
      /\ DOMAIN request[c].mine = request[c].ids /\ request[c].mine \in Copies
      /\ request[c].patch \in Patches /\ PatchOK(backend, request[c].op, request[c].patch)
  BY OnePrinter, Before DEF RequestOK, RequestRecord
<1>2. Mine(c) \in Printer
  BY <1>1 DEF Mine, Copies
<1>3. row[Id(c)] \in Printer /\ (backend = "sqlite" => ~row[Id(c)].reason)
  BY <1>1 DEF IInv, RowsTyped, Gone
<1>4. Merged(c) \in Printer
  BY <1>1, <1>2, MergeTyped DEF Merged
<1>5. LET new == Over(Written(c), row[Id(c)])
      IN  /\ new \in Printer /\ (backend = "sqlite" => ~new.reason)
          /\ Mine(c) = row[Id(c)] /\ Merging(request[c].op) => Same(backend, Merged(c), new)
          /\ request[c].op # "body" /\ EnabledInMaintenance(new) => EnabledInMaintenance(row[Id(c)])
  <2>1. Written(c) = CASE backend = "sqlite" -> [f \in {"login", "enabled"} |-> Over(request[c].patch, Mine(c))[f]]
          [] backend = "mongo" /\ request[c].op = "body" ->
               [f \in {g \in {"login", "enabled"} : Over(request[c].patch, Mine(c))[g] # Mine(c)[g]} |->
                  Over(request[c].patch, Mine(c))[f]]
          [] OTHER -> request[c].patch
    BY DEF Written, Merged
  <2>2. RowsTyped
    BY DEF IInv
  <2> QED BY <1>1, <1>2, <1>3, <2>1, <2>2, WriteEffect DEF Merged
<1>6. Id(c) \notin contested => Mine(c) = row[Id(c)]
  BY <1>1, Before DEF Agrees, Mine
<1> QED BY <1>4, <1>5, <1>6, SameIsReflexive DEF Told

LEMMA WriteUpdateKeeps ==
  ASSUME IInv, NEW c \in Requests, WriteUpdate(c)
  PROVE  IInv'
<1> DEFINE new == Over(Written(c), row[Id(c)])
           m == [p \in request[c].ids |-> Told(c, new)]
           next == IF backend = "sqlite" THEN "confirm" ELSE "emit"
           r == IF Gone(c) THEN Idle ELSE [GoTo(c, next) EXCEPT !.mine = m]
<1>1. /\ request[c].step = "write" /\ request' = [request EXCEPT ![c] = r]
      /\ row' = IF Gone(c) THEN row ELSE [row EXCEPT ![Id(c)] = new]
      /\ UNCHANGED <<backend, cache, socket, lastId, contested, unannounced>>
      /\ maintained' \subseteq maintained \cup {Id(c)}
  BY DEF WriteUpdate, At, Continue
<1>2. Id(c) \in Printers /\ request[c].ids = {Id(c)}
  BY <1>1, OnePrinter
<1>3. \A p \in Printers : p \in request[c].ids /\ p \notin contested => row[p] # None
  BY <1>1, Before DEF Agrees
<1>4. CASE Gone(c)
  <2>1. RowsTyped' /\ SocketsFollowCache' /\ socket' \in [Printers -> Logins \cup {None}]
    BY <1>1, <1>2, <1>4 DEF IInv, RowsTyped, SocketsFollowCache
  <2>2. Id(c) \in contested
    BY <1>2, <1>3, <1>4 DEF Gone
  <2> QED BY <1>1, <1>2, <1>4, <2>1, <2>2, EndsKeeps
<1>5. CASE ~Gone(c)
  <2>1. /\ new \in Printer /\ (backend = "sqlite" => ~new.reason) /\ Told(c, new) \in Printer
        /\ Id(c) \notin contested => Same(backend, Told(c, new), new)
    BY <1>1, <1>5, WriteGives
  <2> HIDE DEF new
  <2>2. m \in Copies /\ DOMAIN m = request[c].ids
    <3>1. m \in [{Id(c)} -> Printer] /\ {Id(c)} \in SUBSET Printers
      BY <1>2, <2>1
    <3> QED BY <1>2, <3>1 DEF Copies
  <2>3. Id(c) <= lastId
    BY <1>2, Before DEF RequestOK
  <2>4. RowsTyped' /\ SocketsFollowCache' /\ socket' \in [Printers -> Logins \cup {None}]
    <3>1. lastId \in Nat /\ Id(c) \in Nat
      BY <1>2, PrinterRecordsAssumption DEF IInv, RowsTyped, Printers
    <3> QED BY <1>1, <1>2, <1>5, <2>1, <2>3, <3>1 DEF IInv, RowsTyped, SocketsFollowCache
  <2>5. \A p \in request[c].ids : m[p] = Told(c, new) /\ p = Id(c) /\ row'[p] = new /\ new # None
    BY <1>1, <1>2, <1>5, <2>1, PrinterRecordsAssumption DEF IInv, RowsTyped
  <2> HIDE DEF m
  <2>6. /\ r \in RequestRecord /\ RequestOK(backend, lastId, r)
        /\ r.ids = request[c].ids /\ r.step = next /\ r.mine = m /\ r.op # "delete"
    <3>1. r = [GoTo(c, next) EXCEPT !.mine = m] /\ next \in Steps
      BY <1>5 DEF Steps
    <3>2. /\ r \in RequestRecord /\ r.op = request[c].op /\ r.patch = request[c].patch
          /\ r.ids = request[c].ids /\ r.step = next /\ r.mine = m
      BY <2>2, <3>1, Before DEF GoTo, RequestRecord
    <3>3. request[c].op \in Updates
      BY <1>1, Before DEF RequestOK
    <3> HIDE DEF r
    <3> QED BY <1>1, <2>2, <3>2, <3>3, Before DEF RequestOK, Updates
  <2>7. \A p \in Printers : p \in r.ids /\ p \notin contested =>
          Agrees(backend, r, p, row'[p], cache'[p], p \in unannounced')
    BY <1>1, <2>1, <2>5, <2>6 DEF Agrees
  <2>8. \A p \in Printers : p \notin request[c].ids => row'[p] = row[p]
    BY <1>1, <1>2, <1>5 DEF IInv, RowsTyped
  <2> HIDE DEF r
  <2> QED BY <1>1, <2>4, <2>6, <2>7, <2>8, GoesOnKeeps
<1> QED BY <1>4, <1>5

LEMMA ConfirmUpdateKeeps ==
  ASSUME IInv, NEW c \in Requests, ConfirmUpdate(c)
  PROVE  IInv'
<1> DEFINE r == IF Gone(c) THEN Idle ELSE GoTo(c, "emit")
<1>1. /\ request[c].step = "confirm" /\ request' = [request EXCEPT ![c] = r]
      /\ UNCHANGED <<backend, row, cache, socket, lastId, contested, unannounced, maintained>>
  BY DEF ConfirmUpdate, At, Continue
<1>2. Id(c) \in Printers /\ request[c].ids = {Id(c)}
  BY <1>1, OnePrinter
<1>3. \A p \in Printers : p \in request[c].ids /\ p \notin contested =>
        row[p] # None /\ Same(backend, request[c].mine[p], row[p])
  BY <1>1, Before DEF Agrees
<1>4. RowsTyped' /\ SocketsFollowCache' /\ socket' \in [Printers -> Logins \cup {None}]
  BY <1>1 DEF IInv, RowsTyped, SocketsFollowCache
<1>5. CASE Gone(c)
  BY <1>1, <1>2, <1>3, <1>4, <1>5, EndsKeeps DEF Gone
<1>6. CASE ~Gone(c)
  <2>1. /\ r \in RequestRecord /\ RequestOK(backend, lastId, r)
        /\ r.ids = request[c].ids /\ r.step = "emit" /\ r.mine = request[c].mine /\ r.op # "delete"
    BY <1>1, <1>6, Before DEF GoTo, RequestRecord, RequestOK, Steps, Updates
  <2>2. \A p \in Printers : p \in r.ids /\ p \notin contested =>
          Agrees(backend, r, p, row'[p], cache'[p], p \in unannounced')
    BY <1>1, <1>3, <2>1 DEF Agrees
  <2> HIDE DEF r
  <2> QED BY <1>1, <1>4, <2>1, <2>2, GoesOnKeeps
<1> QED BY <1>5, <1>6

LEMMA InsertRowKeeps ==
  ASSUME IInv, NEW c \in Requests, InsertRow(c)
  PROVE  IInv'
<1>1. PICK x \in {q \in Printer : ~q.reason}, step \in {"insert", "emit"} :
        /\ row' = [row EXCEPT ![lastId'] = x]
        /\ request' = [request EXCEPT ![c] =
             [GoTo(c, step) EXCEPT !.ids = @ \cup {lastId'}, !.mine = Over([p \in {lastId'} |-> x], @)]]
  BY DEF InsertRow, Continue
<1> DEFINE n == lastId'
           m == Over([p \in {n} |-> x], request[c].mine)
           r == [GoTo(c, step) EXCEPT !.ids = @ \cup {n}, !.mine = m]
<1>2. /\ request[c].step = "insert" /\ request' = [request EXCEPT ![c] = r]
      /\ n = lastId + 1 /\ lastId < MaxId
      /\ UNCHANGED <<backend, cache, socket, contested, unannounced, maintained>>
  <2>1. GoTo(c, step).mine = request[c].mine
    BY Before DEF GoTo, RequestRecord
  <2>2. request' = [request EXCEPT ![c] = r]
    BY <1>1, <2>1
  <2> QED BY <2>2 DEF InsertRow, At, Continue
<1>3. /\ request[c].ids \subseteq Printers /\ request[c].mine \in Copies /\ DOMAIN request[c].mine = request[c].ids
      /\ \A p \in request[c].ids : p <= lastId
      /\ request[c].op \in {"create", "import"} /\ lastId \in 0..MaxId /\ MaxId \in Nat
  BY <1>2, Before, PrinterRecordsAssumption DEF RequestRecord, RequestOK
<1>4. n \in Printers /\ n \in 0..MaxId /\ lastId <= n /\ n > lastId
  BY <1>2, <1>3 DEF Printers
<1> HIDE DEF n
<1>5. /\ m \in Copies /\ DOMAIN m = request[c].ids \cup {n}
      /\ m[n] = x /\ \A p \in request[c].ids : p # n => m[p] = request[c].mine[p]
  <2>1. /\ DOMAIN m = request[c].ids \cup {n} /\ m[n] = x
        /\ \A p \in request[c].ids : p # n => m[p] = request[c].mine[p]
    BY <1>3 DEF Over
  <2>2. \A p \in request[c].ids : request[c].mine[p] \in Printer
    BY <1>3 DEF Copies
  <2>3. m = [p \in DOMAIN m |-> m[p]]
    BY DEF Over
  <2> HIDE DEF m
  <2>4. m \in [request[c].ids \cup {n} -> Printer]
    BY <1>1, <2>1, <2>2, <2>3
  <2> QED BY <1>3, <1>4, <2>1, <2>4 DEF Copies
<1> HIDE DEF m
<1>6. /\ r \in RequestRecord /\ r.op = request[c].op /\ r.patch = request[c].patch
      /\ r.ids = request[c].ids \cup {n} /\ r.step = step /\ r.mine = m
  BY <1>3, <1>4, <1>5, Before DEF GoTo, RequestRecord, Steps
<1> HIDE DEF r
<1>7. \A p \in r.ids : p <= n
  <2>1. \A p \in request[c].ids : p \in Nat
    BY <1>3 DEF Printers
  <2> QED BY <1>2, <1>3, <1>4, <1>6, <2>1 DEF n
<1>8. RequestOK(backend, n, r)
  BY <1>3, <1>5, <1>6, <1>7, Before DEF RequestOK
<1>9. row[n] = None /\ cache[n] = None /\ \A d \in Requests : n \notin request[d].ids
  <2>1. row[n] = None /\ cache[n] = None
    BY <1>4 DEF IInv, RowsTyped
  <2>2. \A d \in Requests : \A p \in request[d].ids : p <= lastId
    BY Before DEF RequestOK
  <2> QED BY <1>3, <1>4, <2>1, <2>2
<1>10. RowsTyped' /\ SocketsFollowCache' /\ socket' \in [Printers -> Logins \cup {None}]
  <2>1. \A p \in Printers : p > n => p > lastId
    BY <1>2, <1>3 DEF n, Printers
  <2>2. lastId' = n
    BY DEF n
  <2> QED BY <1>1, <1>2, <1>4, <2>1, <2>2 DEF IInv, RowsTyped, SocketsFollowCache, n
<1>11. /\ row' \in [Printers -> Printer \cup {None}] /\ row'[n] = x /\ x # None
       /\ \A p \in Printers : p # n => row'[p] = row[p]
  BY <1>1, <1>4, <1>10, PrinterRecordsAssumption DEF IInv, RowsTyped, n
<1>12. \A p \in Printers : p \in r.ids /\ p \notin contested =>
         /\ \A d \in Requests : p \in request[d].ids => d = c
         /\ Agrees(backend, r, p, row'[p], cache'[p], p \in unannounced')
  <2> TAKE p \in Printers
  <2> HAVE p \in r.ids /\ p \notin contested
  <2>1. CASE p = n
    BY <1>2, <1>3, <1>5, <1>6, <1>9, <1>11, <2>1 DEF Agrees, Same
  <2>2. CASE p # n
    <3>1. /\ p \in request[c].ids /\ \A d \in Requests : p \in request[d].ids => d = c
          /\ cache[p] = None /\ row[p] = request[c].mine[p] /\ request[c].mine[p] \in Printer
      BY <1>2, <1>3, <1>6, <2>2, Before DEF Agrees, Copies
    <3>2. row'[p] = m[p] /\ m[p] # None
      BY <1>5, <1>11, <2>2, <3>1, PrinterRecordsAssumption
    <3>3. cache'[p] = None /\ r.mine[p] = row'[p] /\ row'[p] # None /\ r.step \in {"insert", "emit"} /\ r.op # "delete"
      BY <1>2, <1>3, <1>6, <3>1, <3>2
    <3>4. Agrees(backend, r, p, row'[p], cache'[p], p \in unannounced')
      BY <3>3 DEF Agrees, Same
    <3> QED BY <3>1, <3>4
  <2> QED BY <2>1, <2>2
<1>13. /\ \A p \in Printers : p \notin request[c].ids /\ p \notin r.ids =>
            row'[p] = row[p] /\ cache'[p] = cache[p] /\ (p \in unannounced => p \in unannounced')
       /\ \A p \in Printers : (p \in request[c].ids \/ p \in r.ids) /\ p \notin contested => p \in r.ids
  BY <1>2, <1>6, <1>11
<1>14. /\ lastId' \in 0..MaxId /\ lastId <= lastId' /\ RequestOK(backend, lastId', r)
       /\ backend' = backend /\ contested' = contested
  BY <1>2, <1>4, <1>8 DEF n
<1>15. /\ r \in RequestRecord /\ request' = [request EXCEPT ![c] = r]
       /\ \A p \in Printers : (p \in request[c].ids \/ p \in r.ids) /\ p \notin contested =>
            /\ \A d \in Requests : p \in request[d].ids => d = c
            /\ p \in r.ids => Agrees(backend, r, p, row'[p], cache'[p], p \in unannounced')
            /\ p \notin r.ids => Follows(backend, row'[p], cache'[p], p \in unannounced')
  BY <1>2, <1>6, <1>12, <1>13
<1> QED BY <1>10, <1>13, <1>14, <1>15, AdvanceKeeps

LEMMA InsertFailsKeeps ==
  ASSUME IInv, NEW c \in Requests, InsertFails(c)
  PROVE  IInv'
<1>1. /\ request[c].step = "insert" /\ request' = [request EXCEPT ![c] = Idle]
      /\ unannounced' = unannounced \cup request[c].ids
      /\ UNCHANGED <<backend, row, cache, socket, lastId, contested, maintained>>
  BY DEF InsertFails, At, Continue
<1>2. RowsTyped' /\ SocketsFollowCache' /\ socket' \in [Printers -> Logins \cup {None}]
  <2>1. request[c].ids \subseteq Printers
    BY Before DEF RequestRecord
  <2> QED BY <1>1, <2>1 DEF IInv, RowsTyped, SocketsFollowCache
<1>3. \A p \in Printers : p \in request[c].ids /\ p \notin contested =>
        Follows(backend, row'[p], cache'[p], p \in unannounced')
  BY <1>1, Before DEF Agrees, Follows
<1> QED BY <1>1, <1>2, <1>3, EndsKeeps

LEMMA DeleteRowsKeeps ==
  ASSUME IInv, NEW c \in Requests, DeleteRows(c)
  PROVE  IInv'
<1> DEFINE r == GoTo(c, "emit")
<1>1. /\ request[c].step = "delete" /\ request' = [request EXCEPT ![c] = r]
      /\ row' = [p \in Printers |-> IF p \in request[c].ids THEN None ELSE row[p]]
      /\ UNCHANGED <<backend, cache, socket, lastId, contested, unannounced, maintained>>
  BY DEF DeleteRows, At, Continue
<1>2. /\ r \in RequestRecord /\ RequestOK(backend, lastId, r)
      /\ r.ids = request[c].ids /\ r.step = "emit" /\ r.op = "delete"
  BY <1>1, Before DEF GoTo, RequestRecord, RequestOK, Steps
<1>3. RowsTyped' /\ SocketsFollowCache' /\ socket' \in [Printers -> Logins \cup {None}]
  BY <1>1 DEF IInv, RowsTyped, SocketsFollowCache
<1> HIDE DEF r
<1>4. \A p \in Printers : p \in request[c].ids /\ p \notin contested =>
        Agrees(backend, r, p, row'[p], cache'[p], p \in unannounced')
  BY <1>1, <1>2 DEF Agrees
<1>5. \A p \in Printers : p \notin request[c].ids => row'[p] = row[p]
  BY <1>1
<1> QED BY <1>1, <1>2, <1>3, <1>4, <1>5, GoesOnKeeps

LEMMA EmitKeeps ==
  ASSUME IInv, NEW c \in Requests, Emit(c)
  PROVE  IInv'
<1> DEFINE ids == request[c].ids
           told(p) == IF request[c].op = "delete" THEN None ELSE request[c].mine[p]
<1>1. /\ request[c].step = "emit" /\ request' = [request EXCEPT ![c] = Idle]
      /\ cache' = Over(Carried(c), cache)
      /\ socket' = Over([p \in ids |-> SocketOf(Carried(c)[p])], socket)
      /\ UNCHANGED <<backend, row, lastId, contested, unannounced, maintained>>
  BY DEF Emit, At, SocketAfter
<1>2. ids \subseteq Printers /\ (\A p \in ids : p <= lastId) /\ \A p \in ids : told(p) \in Printer \cup {None}
  BY <1>1, Before DEF RequestRecord, RequestOK, Copies
<1>3. Carried(c) = [p \in ids |-> told(p)]
  BY DEF Carried
<1>4. cache' = [p \in Printers |-> IF p \in ids THEN told(p) ELSE cache[p]]
  BY <1>1, <1>2, <1>3 DEF Over, IInv, RowsTyped
<1>5. socket' = [p \in Printers |-> IF p \in ids THEN SocketOf(told(p)) ELSE socket[p]]
  BY <1>1, <1>2, <1>3 DEF Over, IInv
<1>6. \A p \in ids : SocketOf(told(p)) \in Logins \cup {None}
  BY <1>2 DEF SocketOf, Printer
<1> HIDE DEF told
<1>7. RowsTyped' /\ SocketsFollowCache' /\ socket' \in [Printers -> Logins \cup {None}]
  <2>1. \A p \in Printers : p > lastId => p \notin ids
    BY <1>2, PrinterRecordsAssumption DEF Printers, IInv, RowsTyped
  <2>2. RowsTyped'
    BY <1>1, <1>2, <1>4, <2>1 DEF IInv, RowsTyped
  <2>3. SocketsFollowCache'
    BY <1>2, <1>4, <1>5 DEF IInv, SocketsFollowCache, SocketOf
  <2> QED BY <1>2, <1>5, <1>6, <2>2, <2>3 DEF IInv
<1>8. \A p \in Printers : p \in ids /\ p \notin contested =>
        Follows(backend, row'[p], cache'[p], p \in unannounced')
  BY <1>1, <1>2, <1>4, Before DEF Agrees, Follows, Same, told
<1>9. \A p \in Printers : p \notin ids => cache'[p] = cache[p]
  BY <1>4
<1> QED BY <1>1, <1>7, <1>8, <1>9, EndsKeeps

LEMMA RestartKeeps ==
  ASSUME IInv, Restart
  PROVE  IInv'
<1>1. RowsTyped' /\ RequestsTyped' /\ SocketsFollowCache'
  BY IdleTyped DEF IInv, RowsTyped, RequestsTyped, SocketsFollowCache, Restart, LoadCache, LoadSockets
<1>2. socket' \in [Printers -> Logins \cup {None}]
  BY DEF IInv, RowsTyped, Restart, LoadSockets, SocketOf, Printer
<1>3. \A p \in Printers : Uncontested(p)'
  BY IdleTyped DEF Restart, LoadCache, Uncontested, Busy, WorksOn, Follows, Same
<1> QED BY <1>1, <1>2, <1>3 DEF IInv

-----------------------------------------------------------------------------
(* The theorems. *)

LEMMA IInvHolds == Spec => []IInv
<1>1. Init => IInv
  <2> SUFFICES ASSUME Init PROVE IInv
    OBVIOUS
  <2>1. RowsTyped /\ RequestsTyped /\ SocketsFollowCache
    BY IdleTyped, PrinterRecordsAssumption
    DEF Init, RowsTyped, RequestsTyped, SocketsFollowCache, LoadCache, LoadSockets
  <2>2. socket \in [Printers -> Logins \cup {None}]
    BY DEF Init, LoadSockets, SocketOf
  <2>3. \A p \in Printers : Uncontested(p)
    BY IdleTyped DEF Init, LoadCache, Uncontested, Busy, WorksOn, Follows, Same
  <2> QED BY <2>1, <2>2, <2>3 DEF IInv
<1>2. IInv /\ [Next]_vars => IInv'
  <2> SUFFICES ASSUME IInv, [Next]_vars PROVE IInv'
    OBVIOUS
  <2>1. CASE Restart
    BY <2>1, RestartKeeps
  <2>2. ASSUME NEW c \in Requests, RequestArrives(c) PROVE IInv'
    BY <2>2, ArrivalKeeps
  <2>3. ASSUME NEW c \in Requests, RequestStep(c) PROVE IInv'
    BY <2>3, ToggleDecidesKeeps, GetForUpdateKeeps, WriteUpdateKeeps, ConfirmUpdateKeeps,
       InsertRowKeeps, InsertFailsKeeps, DeleteRowsKeeps, EmitKeeps
    DEF RequestStep
  <2>4. CASE UNCHANGED vars
    BY <2>4 DEF vars, IInv, RowsTyped, RequestsTyped, SocketsFollowCache, Uncontested, Busy, WorksOn
  <2> QED BY <2>1, <2>2, <2>3, <2>4 DEF Next
<1> QED BY <1>1, <1>2, PTL DEF Spec

\* The table, its copies and the requests keep their types.
THEOREM TypeCorrect == Spec => []TypeOK
<1>1. IInv => TypeOK
  <2> SUFFICES ASSUME IInv PROVE TypeOK
    OBVIOUS
  <2>1. \A c \in Requests :
          /\ request[c].ids \in SUBSET Printers /\ request[c].step \in Steps
          /\ \A p \in DOMAIN request[c].mine : request[c].mine[p] \in Printer
    BY Before DEF RequestRecord, Copies
  <2> QED BY <2>1 DEF IInv, RowsTyped, TypeOK, Steps
<1> QED BY <1>1, IInvHolds, PTL

\* Every printer no two requests met on is in the cache as in the table, but for imports
\* that failed, and there is a socket for exactly the enabled cached printers: the services
\* of both databases, with any number of requests interleaved at their awaits.
THEOREM CopiesKeepUp == Spec => []CopiesFollow
<1>1. IInv => CopiesFollow
  <2> SUFFICES ASSUME IInv PROVE CopiesFollow
    OBVIOUS
  <2>1. ASSUME NEW p \in Printers, ~Busy(p), p \notin contested
        PROVE  Stored(cache[p]) = Stored(row[p]) \/ (cache[p] = None /\ p \in unannounced)
    <3>1. Follows(backend, row[p], cache[p], p \in unannounced)
      BY <2>1 DEF IInv, Uncontested
    <3>2. RowsTyped /\ row[p] \in Printer \cup {None} /\ cache[p] \in Printer \cup {None}
      BY DEF IInv, RowsTyped
    <3> QED BY <3>1, <3>2, StoredAlike DEF Follows
  <2> QED BY <2>1 DEF IInv, CopiesFollow, CacheFollowsTable
<1> QED BY <1>1, IInvHolds, PTL

\* Only a PATCH /:id leaves a printer enabled and in maintenance: the other updates of
\* the mongoose service write both fields, those of typeorm never store the reason.
THEOREM MaintenanceHeld == Spec => MaintenanceDisables
<1>1. IInv /\ [Next]_vars =>
        [\A p \in Printers :
           EnabledInMaintenance(row'[p]) /\ ~EnabledInMaintenance(row[p]) =>
             \E c \in WorksOn(p) : At(c, "write") /\ request[c].op = "body"]_vars
  <2> SUFFICES ASSUME IInv, [Next]_vars, NEW p \in Printers,
                      EnabledInMaintenance(row'[p]), ~EnabledInMaintenance(row[p])
               PROVE  \E c \in WorksOn(p) : At(c, "write") /\ request[c].op = "body"
    OBVIOUS
  <2>1. row'[p] # row[p]
    OBVIOUS
  <2>2. PICK c \in Requests : WriteUpdate(c) \/ InsertRow(c) \/ DeleteRows(c)
    BY <2>1 DEF Next, vars, Restart, RequestArrives, Create, BatchImport, Update, Delete, Toggle,
                DeleteMany, BeginUpdate, Begin, RequestStep, ToggleDecides, GetForUpdate,
                ConfirmUpdate, InsertFails, Emit
  <2>3. ~DeleteRows(c)
    BY <2>1 DEF DeleteRows, EnabledInMaintenance
  <2>4. ~InsertRow(c)
    BY <2>1 DEF InsertRow, EnabledInMaintenance, IInv, RowsTyped
  <2>5. CASE WriteUpdate(c)
    <3>1. /\ request[c].step = "write" /\ ~Gone(c)
          /\ row' = [row EXCEPT ![Id(c)] = Over(Written(c), row[Id(c)])]
      BY <2>1, <2>5 DEF WriteUpdate, At
    <3>2. p = Id(c) /\ p \in request[c].ids /\ row'[p] = Over(Written(c), row[Id(c)])
      BY <2>1, <3>1, OnePrinter DEF IInv, RowsTyped
    <3> QED BY <3>1, <3>2, WriteGives DEF WorksOn, At
  <2> QED BY <2>2, <2>3, <2>4, <2>5
<1> QED BY <1>1, IInvHolds, PTL DEF Spec, MaintenanceDisables

=============================================================================
