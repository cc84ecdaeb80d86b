------------------------------- MODULE Floors -------------------------------
(***************************************************************************)
(* Floors and the places of printers on them: the floor and floor_position *)
(* tables of the typeorm services, the requests of FloorController and the *)
(* delete of a printer over them, and FloorStore, the cache they keep.     *)
(*                                                                         *)
(* The services use no transaction: every query is an action of its own.   *)
(***************************************************************************)
EXTENDS Integers, Sequences, FiniteSets, SequencesExt

CONSTANTS
  Printers,     \* printer ids a request may name
  MaxFloor,     \* floor ids are given out from 1 on
  Levels,       \* values of Floor.floor; 0 is that of the default floor
  Cells,        \* coordinates <<x, y>>
  Requests,
  None

FloorIds == 1..MaxFloor

\* Printers come from a table; None is no level, no id of a floor, and nothing the store shows.
ASSUME FloorsAssumption ==
  /\ MaxFloor \in Nat \ {0} /\ IsFiniteSet(Printers)
  /\ 0 \in Levels
  /\ Cells \subseteq Nat \X Nat
  /\ None \notin Levels \cup FloorIds
  /\ None \notin [level : Levels, places : SUBSET [printer : Printers, at : Cells]]

VARIABLES
  stored,       \* the printer table
  level,        \* the floor table
  positions,    \* the floor_position table
  cache,        \* FloorStore
  request,
  last,         \* the last ids given out to floors and positions
  contested,    \* history: have two requests overlapped since boot
  torn,         \* history: has a request failed since boot that changed the tables
  moved         \* history: printers taken from one floor to another since boot

vars == <<stored, level, positions, cache, request, last, contested, torn, moved>>

Floors == {f \in FloorIds : level[f] # None}

\* FloorService.toDto
Dto(f) == [level |-> level[f],
           places |-> {[printer |-> q.printer, at |-> q.at] : q \in {r \in positions : r.floor = f}}]
Dtos == [f \in Floors |-> Dto(f)]
Places == {[printer |-> q.printer, floor |-> q.floor, at |-> q.at] : q \in positions}
Tables == [places |-> Places, level |-> level]

Idle == [op |-> "none", floor |-> None, level |-> None, todo |-> <<>>, printer |-> None, at |-> None,
         found |-> None, undesired |-> {}, dto |-> None, step |-> "idle", start |-> None]

TypeOK ==
  /\ stored \subseteq Printers
  /\ level \in [FloorIds -> Levels \cup {None}]
  /\ \A q \in positions : q.floor \in Floors /\ q.printer \in stored /\ q.at \in Cells
  /\ \A f \in FloorIds : cache[f] # None =>
       cache[f].level \in Levels /\ cache[f].places \subseteq [printer : Printers, at : Cells]
  /\ contested \in BOOLEAN /\ torn \in BOOLEAN /\ moved \subseteq Printers

\* Unique(["x", "y", "floorId"]), the unique column printerId, and the foreign keys;
\* with a slip, one of them is missing.
Allowed_NoForeignKeys(q) ==
  \A r \in positions : r.printer # q.printer /\ <<r.floor, r.at>> # <<q.floor, q.at>>
Allowed_NoUniqueXY(q) ==
  /\ q.floor \in Floors /\ q.printer \in stored
  /\ \A r \in positions : r.printer # q.printer
Allowed(q) ==
  /\ q.floor \in Floors /\ q.printer \in stored
  /\ \A r \in positions : r.printer # q.printer /\ <<r.floor, r.at>> # <<q.floor, q.at>>

\* After boot: any floors with any places, and the cache loaded from them.
Init ==
  /\ stored \in SUBSET Printers
  /\ level \in [FloorIds -> Levels \cup {None}]
  /\ Floors # {}
  /\ \A f, g \in Floors : level[f] = level[g] => f = g
  /\ \E p \in [stored -> (Floors \X Cells) \cup {None}] :
       /\ \A q, r \in stored : p[q] = p[r] => q = r \/ p[q] = None
       /\ positions = {[id |-> 0, printer |-> q, floor |-> p[q][1], at |-> p[q][2]] :
                         q \in {r \in stored : p[r] # None}}
  /\ cache = [f \in FloorIds |-> IF f \in Floors THEN Dto(f) ELSE None]
  /\ request = [c \in Requests |-> Idle]
  /\ last = [floor |-> Max(Floors), position |-> 0]
  /\ contested = FALSE /\ torn = FALSE /\ moved = {}

-----------------------------------------------------------------------------
(* Requests come in. *)

Begin(c, r) ==
  /\ request[c] = Idle
  /\ request' = [request EXCEPT ![c] = [r EXCEPT !.start = Tables]]
  /\ contested' = (contested \/ \E d \in Requests : request[d] # Idle)
  /\ UNCHANGED <<stored, level, positions, cache, last, torn, moved>>

AddOrUpdatePrinter(c, f, p, at) ==
  Begin(c, [Idle EXCEPT !.op = "place", !.floor = f, !.step = "check",
                        !.printer = p, !.at = at, !.todo = <<[printer |-> p, at |-> at]>>])

RemovePrinter(c, f, p) ==
  Begin(c, [Idle EXCEPT !.op = "remove", !.floor = f, !.printer = p, !.step = "findOnFloor"])

\* updateName and updateLevel both write the floor they have read back through update.
UpdateName(c, f) == Begin(c, [Idle EXCEPT !.op = "update", !.floor = f, !.step = "read"])
UpdateLevel(c, f, l) ==
  Begin(c, [Idle EXCEPT !.op = "update", !.floor = f, !.level = l, !.step = "read"])

CreateFloor(c, l, todo) ==
  Begin(c, [Idle EXCEPT !.op = "create", !.level = l, !.todo = todo, !.step = "insert",
                        !.printer = IF todo = <<>> THEN None ELSE Head(todo).printer])

DeleteFloor(c, f) ==
  Begin(c, [Idle EXCEPT !.op = "deleteFloor", !.floor = f, !.step = "deleteFloor"])

\* listCache and getFloor, by a request or the socket.io task, when they miss.
ListCache(c) ==
  /\ \A f \in FloorIds : cache[f] = None
  /\ Begin(c, [Idle EXCEPT !.op = "list", !.step = "load"])
GetFloor(c, f) ==
  cache[f] = None /\ Begin(c, [Idle EXCEPT !.op = "get", !.floor = f, !.step = "readBack"])

DeletePrinter(c, p) ==
  /\ p \in stored
  /\ Begin(c, [Idle EXCEPT !.op = "deletePrinter", !.printer = p, !.step = "deletePrinter"])

RequestArrives(c) ==
  \/ \E f \in 1..last.floor :
       \/ \E p \in Printers, at \in Cells : AddOrUpdatePrinter(c, f, p, at)
       \/ \E p \in Printers : RemovePrinter(c, f, p)
       \/ UpdateName(c, f) \/ \E l \in Levels : UpdateLevel(c, f, l)
       \/ DeleteFloor(c, f) \/ GetFloor(c, f)
  \/ \E l \in Levels : CreateFloor(c, l, <<>>)
  \/ \E l \in Levels, p \in Printers, at \in Cells :
       CreateFloor(c, l, <<[printer |-> p, at |-> at]>>)
  \/ ListCache(c)
  \/ \E p \in Printers : DeletePrinter(c, p)

-----------------------------------------------------------------------------
(* Requests go on: queries first. *)

At(c, step) == request[c].step = step
Floor(c) == request[c].floor
Target(c) == Head(request[c].todo)
NoFloor(c) == Floor(c) \notin Floors

Become(c, r) == request' = [request EXCEPT ![c] = r]
Set(c, step) == [request[c] EXCEPT !.step = step]

\* A rejected query ends the request where it is.
Fail(c) ==
  /\ Become(c, Idle)
  /\ torn' = (torn \/ Tables # request[c].start)
  /\ UNCHANGED <<stored, level, positions, cache, last, contested, moved>>

Query(c, r) == Become(c, r) /\ UNCHANGED <<stored, level, positions, cache, last, contested, torn, moved>>

\* get in updateName and updateLevel: the positions read are the desired ones.
\* With a slip, the relation is not loaded.
ReadDesired_NoRelation(c) ==
  /\ At(c, "read") /\ ~NoFloor(c)
  /\ Query(c, [Set(c, "readAgain") EXCEPT !.level = IF @ = None THEN level[Floor(c)] ELSE @])
ReadDesired(c) ==
  /\ At(c, "read") /\ ~NoFloor(c)
  /\ Query(c, [Set(c, "readAgain") EXCEPT
                 !.todo = SetToSeq(Dto(Floor(c)).places),
                 !.level = IF @ = None THEN level[Floor(c)] ELSE @])

\* get in update: what is there now and was not read before is not desired.
ReadCurrent(c) ==
  /\ At(c, "readAgain") /\ ~NoFloor(c)
  /\ LET desired == {d.printer : d \in ToSet(request[c].todo)}
     IN  Query(c, [Set(c, "check") EXCEPT
                     !.undesired = {q \in positions : q.floor = Floor(c) /\ q.printer \notin desired}])

\* get at the start and at the end of addOrUpdatePrinter.
CheckFloor(c) ==
  /\ At(c, "check") /\ ~NoFloor(c)
  /\ Query(c, Set(c, IF request[c].todo # <<>> THEN "find"
                     ELSE IF request[c].op = "update" THEN "dropUndesired" ELSE "readBack"))

\* "Optimization if position is in desired state already": x is compared with y.
InDesiredState(q, f, at) == q.floor = f /\ q.at[1] = at[1] /\ q.at[1] = at[2]

PositionOf(p) == {q \in positions : q.printer = p}
FindPrinterPosition(c) ==
  /\ At(c, "find")
  /\ \/ PositionOf(Target(c).printer) = {} /\ Query(c, Set(c, "look"))
     \/ \E q \in PositionOf(Target(c).printer) :
          IF InDesiredState(q, Floor(c), Target(c).at)
          THEN Query(c, [Set(c, "check") EXCEPT !.todo = Tail(@)])
          ELSE Query(c, [Set(c, "clear") EXCEPT !.found = q])

FindPosition(c) ==
  LET there == {q \in positions : q.floor = Floor(c) /\ q.at = Target(c).at}
  IN  /\ At(c, "look")
      /\ \/ there = {} /\ Query(c, Set(c, "put"))
         \/ \E q \in there : Query(c, [Set(c, "evict") EXCEPT !.found = q])

FindPrinterPositionOnFloor(c) ==
  /\ At(c, "findOnFloor")
  /\ \E q \in PositionOf(request[c].printer) :
       q.floor = Floor(c) /\ Query(c, [Set(c, "unplace") EXCEPT !.found = q])

ReadBack(c) ==
  /\ At(c, "readBack") /\ ~NoFloor(c)
  /\ Query(c, [Set(c, "publish") EXCEPT !.dto = Dto(Floor(c))])

ListFloors(c) ==
  /\ At(c, "load")
  /\ Query(c, IF Floors = {} THEN [Set(c, "insert") EXCEPT !.level = 0]
              ELSE [Set(c, "publishAll") EXCEPT !.dto = Dtos])

QueryFails(c) ==
  /\ \/ request[c].step \in {"read", "readAgain", "check", "readBack"} /\ NoFloor(c)
     \/ At(c, "findOnFloor") /\ \A q \in PositionOf(request[c].printer) : q.floor # Floor(c)
  /\ Fail(c)

-----------------------------------------------------------------------------
(* Writes. *)

Write(c, r, newPositions) ==
  /\ Become(c, r)
  /\ positions' = newPositions
  /\ UNCHANGED <<stored, level, cache, contested, torn>>

\* BaseService.delete reads the position and deletes it by id: when it is gone
\* before the first query the request fails, before the second it goes on.
DeletePosition(c) ==
  LET next == [clear |-> "look", evict |-> "put", unplace |-> "readBack"]
  IN  /\ request[c].step \in DOMAIN next
      /\ \/ /\ Write(c, [Set(c, next[request[c].step]) EXCEPT !.found = None],
                     positions \ {request[c].found})
            /\ moved' = IF At(c, "clear") /\ request[c].found.floor # Floor(c)
                        THEN moved \cup {Target(c).printer} ELSE moved
            /\ UNCHANGED last
         \/ request[c].found \notin positions /\ Fail(c)

CreatePosition(c) ==
  LET q == [id |-> last.position + 1, printer |-> Target(c).printer,
            floor |-> Floor(c), at |-> Target(c).at]
  IN  /\ At(c, "put")
      /\ IF Allowed(q)
         THEN /\ Write(c, [Set(c, "check") EXCEPT !.todo = Tail(@)], positions \cup {q})
              /\ last' = [last EXCEPT !.position = q.id]
              /\ UNCHANGED moved
         ELSE Fail(c)

DropUndesired(c) ==
  /\ At(c, "dropUndesired")
  /\ Write(c, [Set(c, "save") EXCEPT !.undesired = {}], positions \ request[c].undesired)
  /\ UNCHANGED <<last, moved>>

FreeLevel(l, f) == \A g \in Floors \ {f} : level[g] # l

SaveFloor(c) ==
  /\ At(c, "save")
  /\ IF NoFloor(c) \/ ~FreeLevel(request[c].level, Floor(c)) THEN Fail(c)
     ELSE /\ level' = [level EXCEPT ![Floor(c)] = request[c].level]
          /\ Become(c, Set(c, "readBack"))
          /\ UNCHANGED <<stored, positions, cache, last, contested, torn, moved>>

InsertFloor(c) ==
  /\ At(c, "insert") /\ last.floor < MaxFloor
  /\ IF ~FreeLevel(request[c].level, None) THEN Fail(c)
     ELSE /\ last' = [last EXCEPT !.floor = @ + 1]
          /\ level' = [level EXCEPT ![last'.floor] = request[c].level]
          /\ Become(c, [Set(c, "check") EXCEPT !.floor = last'.floor])
          /\ UNCHANGED <<stored, positions, cache, contested, torn, moved>>

\* Positions go with their floor and with their printer (onDelete: "CASCADE");
\* with a slip, the store is not loaded again after a printer is deleted.
DeleteFloorRow(c) ==
  /\ At(c, "deleteFloor")
  /\ \/ /\ level' = [level EXCEPT ![Floor(c)] = None]
        /\ positions' = {q \in positions : q.floor # Floor(c)}
        /\ Become(c, Set(c, "forget"))
        /\ UNCHANGED <<stored, cache, last, contested, torn, moved>>
     \/ NoFloor(c) /\ Fail(c)

DeletePrinterRow_NoReload(c) ==
  /\ At(c, "deletePrinter")
  /\ stored' = stored \ {request[c].printer}
  /\ positions' = positions \ PositionOf(request[c].printer)
  /\ Become(c, Idle)
  /\ UNCHANGED <<level, cache, last, contested, torn, moved>>
DeletePrinterRow(c) ==
  /\ At(c, "deletePrinter")
  /\ stored' = stored \ {request[c].printer}
  /\ positions' = positions \ PositionOf(request[c].printer)
  /\ Become(c, Set(c, "load"))
  /\ UNCHANGED <<level, cache, last, contested, torn, moved>>

\* setKeyValue, setKeyValuesBatch and deleteKeyValue of the store end a request.
StoreFloors(c) ==
  /\ request[c].step \in {"publish", "forget", "publishAll"}
  /\ cache' = CASE At(c, "publish") -> [cache EXCEPT ![Floor(c)] = request[c].dto]
                [] At(c, "forget") -> [cache EXCEPT ![Floor(c)] = None]
                [] At(c, "publishAll") -> [f \in FloorIds |->
                     IF f \in DOMAIN request[c].dto THEN request[c].dto[f] ELSE cache[f]]
  /\ Become(c, Idle)
  /\ UNCHANGED <<stored, level, positions, last, contested, torn, moved>>

RequestStep(c) ==
  \/ ReadDesired(c) \/ ReadCurrent(c) \/ CheckFloor(c) \/ FindPrinterPosition(c)
  \/ FindPosition(c) \/ FindPrinterPositionOnFloor(c) \/ ReadBack(c) \/ ListFloors(c)
  \/ QueryFails(c) \/ DeletePosition(c) \/ CreatePosition(c) \/ DropUndesired(c)
  \/ SaveFloor(c) \/ InsertFloor(c) \/ DeleteFloorRow(c) \/ DeletePrinterRow(c)
  \/ StoreFloors(c)

\* The process stops and boots: what the requests have done so far stays done.
Restart ==
  /\ Floors # {}
  /\ cache' = [f \in FloorIds |-> IF f \in Floors THEN Dto(f) ELSE None]
  /\ request' = [c \in Requests |-> Idle]
  /\ contested' = FALSE /\ torn' = FALSE /\ moved' = {}
  /\ UNCHANGED <<stored, level, positions, last>>

Next ==
  \/ Restart
  \/ \E c \in Requests : RequestArrives(c) \/ RequestStep(c)

Spec == Init /\ [][Next]_vars

-----------------------------------------------------------------------------
(* Properties. *)

\* As long as requests do not overlap, the store shows every floor at its level and
\* every printer at its place.  What it shows besides is a printer that has gone to
\* another floor: the floor a printer leaves is not read again.
CacheShowsPlaces ==
  ~contested /\ ~torn /\ (\A c \in Requests : request[c] = Idle) =>
    \A f \in FloorIds :
      /\ f \in Floors <=> cache[f] # None
      /\ f \in Floors =>
           /\ cache[f].level = level[f]
           /\ Dto(f).places \subseteq cache[f].places
           /\ \A s \in cache[f].places \ Dto(f).places : s.printer \in moved \cap stored

\* Whatever overlaps, a floor the store shows never has two printers in a place
\* nor a printer in two.
CachedFloorsAreConsistent ==
  \A f \in FloorIds : cache[f] # None =>
    \A s, t \in cache[f].places : s.printer = t.printer \/ s.at = t.at => s = t

\* The store shows floors as they are, and where it may not, as they could be.
FloorsAreAsShown == CacheShowsPlaces /\ CachedFloorsAreConsistent

\* A request that nothing overlaps, whether it succeeds or fails, moves no printer
\* but the one it names, the one at the place it names, and those of a floor it
\* deletes.  Renaming a floor, which takes its printers away and puts them back one
\* by one, moves none.
Concerns(c, s) ==
  \/ s.printer = request[c].printer
  \/ s.floor = Floor(c) /\ (s.at = request[c].at \/ request[c].op = "deleteFloor")
Ends(c) ==
  /\ request[c] # Idle /\ request'[c] = Idle
  /\ request[c].step \in {"publish", "publishAll", "forget"} \/ (torn' /\ ~torn)
OthersKeepTheirPlaces ==
  [][\A c \in Requests :
       Ends(c) /\ ~contested /\ ~contested' =>
         \A s \in request[c].start.places : Concerns(c, s) \/ s \in Places]_vars

\* "Optimization if position is in desired state already": a request to place a
\* printer that nothing overlaps and that succeeds leaves the printer at that place.
PlacedWhereAsked ==
  [][\A c \in Requests :
       Ends(c) /\ At(c, "publish") /\ request[c].op = "place" /\ ~contested /\ ~contested' =>
         [printer |-> request[c].printer, floor |-> Floor(c), at |-> request[c].at] \in Places]_vars

=============================================================================
