---------------------------- MODULE FloorsProofs ----------------------------
(***************************************************************************)
(* Proofs about floors and the places of printers on them: the store shows *)
(* the tables as long as requests do not overlap, and a request moves no   *)
(* printer it does not concern.                                            *)
(***************************************************************************)
EXTENDS Floors, FiniteSetTheorems, NaturalsInduction, WellFoundedInduction, TLAPS

-----------------------------------------------------------------------------
(* The inductive invariant. *)

Spots == [printer : Printers, at : Cells]
Consistent(S) == \A s, t \in S : s.printer = t.printer \/ s.at = t.at => s = t
FloorDtos == {d \in [level : Levels, places : SUBSET Spots] : Consistent(d.places)}
PlaceOf(s, f) == [printer |-> s.printer, floor |-> f, at |-> s.at]

Placing == {"find", "clear", "look", "evict", "put"}
OnFloor == Placing \cup {"read", "readAgain", "check", "dropUndesired", "save", "readBack",
  "publish", "findOnFloor", "unplace", "deleteFloor", "forget"}

\* A request, with what each of its steps needs it to know.
Asked(q) ==
  /\ DOMAIN q = {"op", "floor", "level", "todo", "printer", "at", "found", "undesired", "dto", "step", "start"}
  /\ q.step = "idle" => q = Idle
  /\ q.step \in OnFloor \cup {"idle", "insert", "load", "deletePrinter", "publishAll"}
  /\ q.todo \in Seq(Spots) /\ (q.step \in Placing => q.todo # <<>>)
  /\ q.floor \in FloorIds \cup {None} /\ (q.step \in OnFloor <=> q.floor # None)
  /\ q.level \in Levels \cup {None}
  /\ (q.op = "update" /\ q.step # "read") \/ q.step = "insert" => q.level \in Levels
  /\ q.step \in {"read", "readAgain", "dropUndesired", "save"} => q.op = "update"
  /\ q.step \in {"findOnFloor", "unplace"} => q.op = "remove"
  /\ q.step \in {"deleteFloor", "forget"} => q.op = "deleteFloor"
  /\ q.step = "deletePrinter" => q.op = "deletePrinter"
  /\ q.step \in {"load", "publishAll"} => q.op \in {"list", "deletePrinter"}
  /\ q.step = "insert" => q.op \in {"create", "list", "deletePrinter"}
  /\ q.step = "publish" => q.dto \in FloorDtos
  /\ q.step = "publishAll" => DOMAIN q.dto \subseteq FloorIds /\ \A f \in DOMAIN q.dto : q.dto[f] \in FloorDtos

\* The store shows floor f as it is, or was, at level lv[f] with places pl.
ShowsAs(f, lv, pl) ==
  /\ lv[f] # None <=> cache[f] # None
  /\ lv[f] # None =>
       /\ cache[f].level = lv[f]
       /\ \A s \in pl : s.floor = f => [printer |-> s.printer, at |-> s.at] \in cache[f].places
       /\ \A s \in cache[f].places : PlaceOf(s, f) \in pl \/ s.printer \in moved \cap stored

Concerned(q, s) ==
  \/ s.printer = q.printer
  \/ s.floor = q.floor /\ (s.at = q.at \/ q.op = "deleteFloor")

\* Of what a request that nothing overlaps found, others are where they were.  One that
\* renames a floor has at most the printer it is about to put back out of its place.
Others(q) ==
  /\ \A s \in q.start.places : s.floor \in FloorIds
  /\ \A s, t \in q.start.places : s.printer = t.printer \/ (s.floor = t.floor /\ s.at = t.at) => s = t
  /\ q.op # "update" =>
       /\ \A s \in q.start.places : Concerned(q, s) \/ s \in Places
       /\ q.todo # <<>> => /\ q.op \in {"place", "create"} /\ Tail(q.todo) = <<>>
                           /\ Head(q.todo).printer = q.printer /\ (q.op = "place" => Head(q.todo).at = q.at)
       /\ q.op = "create" /\ q.todo # <<>> /\ q.step # "insert" => \A p \in positions : p.floor # q.floor
  /\ q.op = "update" =>
       /\ q.step # "evict" /\ q.undesired = {} /\ \A s \in q.start.places : s.printer \in stored
       /\ Places = IF q.step \in {"look", "put"} THEN q.start.places \ {PlaceOf(Head(q.todo), q.floor)} ELSE q.start.places
       /\ q.step # "read" => \A i \in DOMAIN q.todo : PlaceOf(q.todo[i], q.floor) \in q.start.places
       /\ q.step = "readAgain" => \A p \in positions : p.floor = q.floor => \E i \in DOMAIN q.todo : q.todo[i].printer = p.printer

\* What it has read is so.
Reads(q) ==
  /\ q.step \in {"clear", "evict", "unplace"} => q.found \in positions
  /\ q.step = "clear" => q.found.printer = Head(q.todo).printer
  /\ q.step = "evict" => q.found.floor = q.floor /\ q.found.at = Head(q.todo).at
  /\ q.step = "unplace" => q.found.floor = q.floor /\ q.found.printer = q.printer
  /\ q.step \in Placing \cup {"readAgain", "dropUndesired", "save", "publish"} => q.floor \in Floors
  /\ q.op \in {"list", "deletePrinter"} /\ q.step \in {"check", "readBack"} => q.floor \in Floors
  /\ q.step = "publish" => q.dto = Dto(q.floor)
  /\ q.step = "publishAll" => q.dto = Dtos
  /\ q.step = "forget" => q.floor \notin Floors

\* The store shows what the request found, and of every other floor what is there now.
Behind(q) ==
  /\ q.op # "deletePrinter" \/ q.step = "deletePrinter" =>
       \A f \in FloorIds : ShowsAs(f, q.start.level, q.start.places)
  /\ q.step \notin {"load", "publishAll"} => \A f \in FloorIds \ {q.floor} : ShowsAs(f, level, Places)
  /\ q.step \in {"load", "publishAll"} => \A f \in FloorIds : f \in Floors <=> cache[f] # None
  /\ q.step = "insert" /\ q.op = "deletePrinter" => Floors = {}

Alone(q) == Others(q) /\ Reads(q) /\ (~torn => Behind(q))

TablesInv ==
  /\ stored \subseteq Printers
  /\ level \in [FloorIds -> Levels \cup {None}]
  /\ IsFiniteSet(positions)
  /\ \A q \in positions : q.floor \in Floors /\ q.printer \in stored /\ q.at \in Cells
  /\ \A q, r \in positions : q.printer = r.printer \/ (q.floor = r.floor /\ q.at = r.at) => q = r
  /\ DOMAIN last = {"floor", "position"} /\ last.floor \in 1..MaxFloor /\ Floors \subseteq 1..last.floor
CacheInv == cache \in [FloorIds -> FloorDtos \cup {None}]
Shown == \A f \in FloorIds : ShowsAs(f, level, Places)

FloorsInv ==
  /\ TablesInv /\ CacheInv
  /\ DOMAIN request = Requests /\ \A c \in Requests : Asked(request[c])
  /\ contested \in BOOLEAN /\ torn \in BOOLEAN /\ moved \subseteq Printers
  /\ ~contested =>
       /\ \A c \in Requests : request[c] # Idle =>
            Alone(request[c]) /\ \A d \in Requests \ {c} : request[d] = Idle
       /\ ~torn /\ (\A c \in Requests : request[c] = Idle) => Shown

-----------------------------------------------------------------------------
(* Facts about the data. *)

LEMMA NoneIsNothing == None \notin Levels \cup FloorIds /\ None \notin FloorDtos
BY FloorsAssumption DEF FloorDtos, Spots

LEMMA IdleIs ==
  /\ Asked(Idle) /\ Idle.step = "idle" /\ Idle.todo = <<>> /\ Idle.undesired = {} /\ Idle.printer = None
  /\ \A q : Asked(q) => (q.step = "idle" <=> q = Idle)
<1>1. <<>> \in Seq(Spots)
  OBVIOUS
<1> QED BY <1>1 DEF Asked, Idle, OnFloor, Placing

\* SetToSeq lists a finite set.
LEMMA SetToSeqIs ==
  ASSUME NEW S, IsFiniteSet(S)
  PROVE  SetToSeq(S) \in Seq(S) /\ \A x \in S : \E i \in DOMAIN SetToSeq(S) : SetToSeq(S)[i] = x
<1>1. PICK n \in Nat : n = Cardinality(S)
  BY FS_CardinalityType
<1>2. PICK g \in [1..n -> S] : IsInjective(g) /\ g \in Surjection(1..n, S)
  BY <1>1, FS_CardinalityType DEF ExistsBijection, Bijection, Injection
<1>3. SetToSeq(S) \in [1..n -> S] /\ IsInjective(SetToSeq(S))
  <2>1. \E h \in [1..Cardinality(S) -> S] : IsInjective(h)
    BY <1>1, <1>2
  <2>2. PICK f : f = CHOOSE h \in [1..Cardinality(S) -> S] : IsInjective(h)
    OBVIOUS
  <2>3. f \in [1..Cardinality(S) -> S] /\ IsInjective(f)
    BY <2>1, <2>2
  <2> QED BY <1>1, <2>2, <2>3 DEF SetToSeq
<1>4. PICK f \in [1..n -> S] : f = SetToSeq(S) /\ IsInjective(f)
  BY <1>3
<1>5. f \in Injection(1..n, S)
  BY <1>4 DEF Injection
<1>6. IsFiniteSet(1..n) /\ Cardinality(1..n) = n
  BY FS_Interval
<1>7. f \in Surjection(1..n, S)
  BY <1>1, <1>5, <1>6, FS_Injection
<1>8. f \in Seq(S)
  BY <1>4
<1> QED BY <1>4, <1>7, <1>8 DEF Surjection

\* What is at a place.
LEMMA PlacesAre ==
  /\ \A q \in positions : [printer |-> q.printer, floor |-> q.floor, at |-> q.at] \in Places
  /\ \A s \in Places : \E q \in positions : s = [printer |-> q.printer, floor |-> q.floor, at |-> q.at]
  /\ \A f : Dto(f) = [level |-> level[f], places |-> Dto(f).places]
  /\ \A f : \A s \in Dto(f).places : PlaceOf(s, f) \in Places /\ s = [printer |-> s.printer, at |-> s.at]
  /\ \A f : \A s \in Places : s.floor = f => [printer |-> s.printer, at |-> s.at] \in Dto(f).places
  /\ \A s \in Places : s = [printer |-> s.printer, floor |-> s.floor, at |-> s.at]
<1>1. /\ \A q \in positions : [printer |-> q.printer, floor |-> q.floor, at |-> q.at] \in Places
      /\ \A s \in Places : \E q \in positions : s = [printer |-> q.printer, floor |-> q.floor, at |-> q.at]
  BY DEF Places
<1>2. \A f : Dto(f).level = level[f] /\ Dto(f) = [level |-> level[f], places |-> Dto(f).places]
  BY DEF Dto
<1>3. \A f : Dto(f).places = {[printer |-> q.printer, at |-> q.at] : q \in {r \in positions : r.floor = f}}
  BY DEF Dto
<1>4. ASSUME NEW f, NEW s \in Dto(f).places
      PROVE  PlaceOf(s, f) \in Places /\ s = [printer |-> s.printer, at |-> s.at]
  <2>1. PICK q \in positions : q.floor = f /\ s = [printer |-> q.printer, at |-> q.at]
    BY <1>3, <1>4
  <2> QED BY <1>1, <2>1 DEF PlaceOf
<1>5. ASSUME NEW f, NEW s \in Places, s.floor = f
      PROVE  [printer |-> s.printer, at |-> s.at] \in Dto(f).places
  <2>1. PICK q \in positions : s = [printer |-> q.printer, floor |-> q.floor, at |-> q.at]
    BY <1>1
  <2>2. q.floor = f /\ s.printer = q.printer /\ s.at = q.at
    BY <1>5, <2>1
  <2> QED BY <1>3, <2>2
<1> QED BY <1>1, <1>2, <1>4, <1>5

\* Two places of one floor are not of one printer, nor one.
LEMMA PlacesApart ==
  ASSUME TablesInv
  PROVE  /\ \A s \in Places : s.floor \in Floors /\ s.printer \in stored /\ s.at \in Cells
         /\ \A s, t \in Places : s.printer = t.printer \/ (s.floor = t.floor /\ s.at = t.at) => s = t
         /\ \A f \in Floors : Dto(f) \in FloorDtos /\ IsFiniteSet(Dto(f).places)
<1>1. \A s \in Places : s.floor \in Floors /\ s.printer \in stored /\ s.at \in Cells
  BY PlacesAre DEF TablesInv
<1>2. ASSUME NEW s \in Places, NEW t \in Places, s.printer = t.printer \/ (s.floor = t.floor /\ s.at = t.at)
      PROVE  s = t
  <2>1. PICK q \in positions : s = [printer |-> q.printer, floor |-> q.floor, at |-> q.at]
    BY PlacesAre
  <2>2. PICK r \in positions : t = [printer |-> r.printer, floor |-> r.floor, at |-> r.at]
    BY PlacesAre
  <2>3. q = r
    BY <1>2, <2>1, <2>2 DEF TablesInv
  <2> QED BY <2>1, <2>2, <2>3
<1>3. ASSUME NEW f \in Floors PROVE Dto(f) \in FloorDtos /\ IsFiniteSet(Dto(f).places)
  <2>1. \A s \in Dto(f).places : s = [printer |-> s.printer, at |-> s.at] /\ PlaceOf(s, f) \in Places
    BY PlacesAre
  <2>2. \A s \in Dto(f).places : s \in Spots
    <3> SUFFICES ASSUME NEW s \in Dto(f).places PROVE s \in Spots
      OBVIOUS
    <3>1. PlaceOf(s, f).printer = s.printer /\ PlaceOf(s, f).at = s.at
      BY DEF PlaceOf
    <3>2. s.printer \in Printers /\ s.at \in Cells
      BY <1>1, <2>1, <3>1 DEF TablesInv
    <3> QED BY <2>1, <3>2 DEF Spots
  <2>3. Consistent(Dto(f).places)
    <3> SUFFICES ASSUME NEW s \in Dto(f).places, NEW t \in Dto(f).places, s.printer = t.printer \/ s.at = t.at PROVE s = t
      BY DEF Consistent
    <3>1. PlaceOf(s, f) = PlaceOf(t, f)
      BY <1>2, <2>1 DEF PlaceOf
    <3>2. s.printer = t.printer /\ s.at = t.at
      BY <3>1 DEF PlaceOf
    <3> QED BY <2>1, <3>2
  <2>4. level[f] \in Levels
    BY DEF TablesInv, Floors
  <2>5. Dto(f) = [level |-> level[f], places |-> Dto(f).places]
    BY PlacesAre
  <2>6. Dto(f) \in FloorDtos
    BY <2>2, <2>3, <2>4, <2>5 DEF FloorDtos
  <2>7. IsFiniteSet(Dto(f).places)
    <3>1. PICK S : S = {r \in positions : r.floor = f}
      OBVIOUS
    <3>2. IsFiniteSet(S)
      BY <3>1, FS_Subset DEF TablesInv
    <3>3. Dto(f).places = {[printer |-> q.printer, at |-> q.at] : q \in S}
      BY <3>1 DEF Dto
    <3>4. PICK g : g = [q \in S |-> [printer |-> q.printer, at |-> q.at]]
      OBVIOUS
    <3>5. g \in Surjection(S, Dto(f).places)
      BY <3>3, <3>4 DEF Surjection
    <3> QED BY <3>2, <3>5, FS_Surjection
  <2> QED BY <2>6, <2>7
<1> QED BY <1>1, <1>2, <1>3

-----------------------------------------------------------------------------
(* Steps of a request. *)

Records(q, req) == /\ q.op = req.op /\ q.floor = req.floor /\ q.printer = req.printer
                   /\ q.at = req.at /\ q.start = req.start

LEMMA RequestGoes ==
  ASSUME FloorsInv, NEW c \in Requests, request[c] # Idle, NEW q, Asked(q), q # Idle,
         request' = [request EXCEPT ![c] = q], contested' = contested, torn' = torn,
         moved' \subseteq Printers, TablesInv', CacheInv', ~contested => Alone(q)'
  PROVE  FloorsInv'
<1>1. DOMAIN request' = Requests /\ request'[c] = q /\ \A d \in Requests \ {c} : request'[d] = request[d]
  BY DEF FloorsInv
<1>2. \A d \in Requests : Asked(request'[d])
  BY <1>1 DEF FloorsInv
<1>3. ~contested => \A d \in Requests \ {c} : request'[d] = Idle
  BY <1>1 DEF FloorsInv
<1>4. ~contested' => \A d \in Requests : request'[d] # Idle => Alone(q)' /\ \A e \in Requests \ {d} : request'[e] = Idle
  BY <1>1, <1>3
<1>5. ~contested' => \A d \in Requests : request'[d] # Idle => Alone(request[d])' /\ \A e \in Requests \ {d} : request'[e] = Idle
  <2> SUFFICES ASSUME ~contested', NEW d \in Requests, request'[d] # Idle PROVE Alone(request[d])' /\ \A e \in Requests \ {d} : request'[e] = Idle
    OBVIOUS
  <2>1. d = c
    BY <1>3
  <2>2. Alone(request[c])' <=> Alone(q)'
    BY <1>1 DEF Alone, Others, Reads, Behind
  <2> QED BY <1>4, <2>1, <2>2
<1>6. ~(\A d \in Requests : request'[d] = Idle)
  BY <1>1
<1>7. /\ contested' \in BOOLEAN /\ torn' \in BOOLEAN /\ \A d \in Requests : Asked(request[d])'
  BY <1>2 DEF FloorsInv, Asked
<1> HIDE DEF Alone, TablesInv, CacheInv, Asked, Shown
<1> QED BY <1>1, <1>5, <1>6, <1>7 DEF FloorsInv

LEMMA RequestEnds ==
  ASSUME FloorsInv, NEW c \in Requests, request[c] # Idle,
         request' = [request EXCEPT ![c] = Idle], contested' = contested, torn' \in BOOLEAN,
         moved' \subseteq Printers, TablesInv', CacheInv', ~contested /\ ~torn' => Shown'
  PROVE  FloorsInv'
<1>1. DOMAIN request' = Requests /\ request'[c] = Idle /\ \A d \in Requests \ {c} : request'[d] = request[d]
  BY DEF FloorsInv
<1>2. ~contested => \A d \in Requests : request'[d] = Idle
  BY <1>1 DEF FloorsInv
<1>3. \A d \in Requests : Asked(request'[d])
  BY <1>1, IdleIs DEF FloorsInv
<1>4. contested' \in BOOLEAN /\ \A d \in Requests : Asked(request[d])'
  BY <1>3 DEF FloorsInv, Asked
<1> HIDE DEF Alone, TablesInv, CacheInv, Asked, Shown
<1> QED BY <1>1, <1>2, <1>4 DEF FloorsInv

\* A query changes nothing but the request.
LEMMA QueryKeeps ==
  ASSUME FloorsInv, NEW c \in Requests, request[c] # Idle, NEW q, Asked(q), q # Idle, Query(c, q),
         ~contested => Alone(q)
  PROVE  FloorsInv'
<1>1. /\ stored' = stored /\ level' = level /\ positions' = positions /\ cache' = cache /\ last' = last
      /\ contested' = contested /\ torn' = torn /\ moved' = moved /\ request' = [request EXCEPT ![c] = q]
  BY DEF Query, Become
<1>2. Floors' = Floors /\ Places' = Places /\ (\A f : Dto(f)' = Dto(f)) /\ Dtos' = Dtos
  BY <1>1 DEF Floors, Places, Dto, Dtos
<1>3. TablesInv' /\ CacheInv' /\ moved' \subseteq Printers
  BY <1>1, <1>2 DEF FloorsInv, TablesInv, CacheInv
<1>4. Others(q)' <=> Others(q)
  BY <1>1, <1>2 DEF Others
<1>5. Reads(q)' <=> Reads(q)
  BY <1>1, <1>2 DEF Reads
<1>6. Behind(q)' <=> Behind(q)
  BY <1>1, <1>2 DEF Behind, ShowsAs
<1>7. ~contested => Alone(q)'
  BY <1>1, <1>4, <1>5, <1>6 DEF Alone
<1> HIDE DEF FloorsInv, Alone
<1> QED BY <1>1, <1>3, <1>7, RequestGoes

\* What the store shows of a floor stays so when a printer leaves it that moves, or is deleted.
LEMMA ShowsOn ==
  ASSUME NEW f, NEW lv, NEW pl, NEW lw, NEW pm, ShowsAs(f, lv, pl), cache' = cache, lw[f] = lv[f],
         moved \cap stored \subseteq moved' \cap stored',
         \A s \in pm : s.floor = f => s \in pl,
         \A t \in pl : t.floor = f => t \in pm \/ t.printer \in moved' \cap stored'
  PROVE  ShowsAs(f, lw, pm)'
<1>1. \A s : PlaceOf(s, f).floor = f /\ PlaceOf(s, f).printer = s.printer
  BY DEF PlaceOf
<1>2. /\ lw[f] # None <=> cache'[f] # None
      /\ lw[f] # None => /\ cache'[f].level = lw[f]
                         /\ \A s \in pm : s.floor = f => [printer |-> s.printer, at |-> s.at] \in cache'[f].places
                         /\ \A s \in cache'[f].places : PlaceOf(s, f) \in pm \/ s.printer \in moved' \cap stored'
  BY <1>1 DEF ShowsAs
<1> QED BY <1>2 DEF ShowsAs, PlaceOf

\* A query that is rejected.
LEMMA FailKeeps ==
  ASSUME FloorsInv, NEW c \in Requests, request[c] # Idle, Fail(c),
         ~contested /\ ~torn => request[c].op # "deletePrinter" \/ request[c].step = "deletePrinter"
  PROVE  FloorsInv'
<1>0. PICK req : req = request[c]
  OBVIOUS
<1>1. /\ stored' = stored /\ level' = level /\ positions' = positions /\ cache' = cache /\ last' = last
      /\ contested' = contested /\ moved' = moved /\ request' = [request EXCEPT ![c] = Idle]
      /\ torn' = (torn \/ Tables # req.start)
  BY <1>0 DEF Fail, Become
<1>2. Floors' = Floors /\ Places' = Places
  BY <1>1 DEF Floors, Places
<1>3. TablesInv' /\ CacheInv' /\ moved' \subseteq Printers /\ torn' \in BOOLEAN
  BY <1>1, <1>2 DEF FloorsInv, TablesInv, CacheInv
<1>4. ASSUME ~contested, ~torn' PROVE Shown'
  <2>1. ~torn /\ req.start = Tables
    BY <1>1, <1>4 DEF FloorsInv
  <2>2. Behind(req)
    BY <1>0, <1>4, <2>1 DEF FloorsInv, Alone
  <2>3. req.start.places = Places /\ req.start.level = level
    BY <2>1 DEF Tables
  <2>4. \A f \in FloorIds : ShowsAs(f, level, Places)
    BY <1>0, <1>4, <2>1, <2>2, <2>3 DEF Behind
  <2> QED BY <1>1, <1>2, <2>4 DEF Shown, ShowsAs
<1> HIDE DEF FloorsInv
<1> QED BY <1>1, <1>3, <1>4, RequestEnds

\* What is known of the request that goes on.
LEMMA RequestIs ==
  ASSUME FloorsInv, NEW c \in Requests, NEW req, req = request[c]
  PROVE  /\ Asked(req) /\ (req.step # "idle" => req # Idle)
         /\ req # Idle /\ ~contested => Alone(req)
BY IdleIs DEF FloorsInv

LEMMA ReadDesiredKeeps ==
  ASSUME FloorsInv, NEW c \in Requests, ReadDesired(c)
  PROVE  FloorsInv'
<1>0. PICK req : req = request[c]
  OBVIOUS
<1>1. Asked(req) /\ req.step = "read" /\ req # Idle /\ (~contested => Alone(req)) /\ TablesInv /\ req.floor \in Floors
  BY <1>0, RequestIs DEF ReadDesired, At, NoFloor, Floor, FloorsInv
<1>2. PICK todo : todo = SetToSeq(Dto(req.floor).places)
  OBVIOUS
<1>3. PICK q : q = [req EXCEPT !.step = "readAgain", !.todo = todo, !.level = IF @ = None THEN level[req.floor] ELSE @]
  OBVIOUS
<1>4. Query(c, q)
  BY <1>0, <1>2, <1>3 DEF ReadDesired, Set, Floor
<1>5. /\ todo \in Seq(Dto(req.floor).places) /\ \A s \in Dto(req.floor).places : \E i \in DOMAIN todo : todo[i] = s
      /\ Dto(req.floor) \in FloorDtos
  BY <1>1, <1>2, PlacesApart, SetToSeqIs
<1>6. \A i \in DOMAIN todo : todo[i] \in Dto(req.floor).places /\ todo[i] \in Spots
  BY <1>5 DEF FloorDtos
<1>7. /\ q.step = "readAgain" /\ q.todo = todo /\ q.op = req.op /\ q.floor = req.floor /\ q.start = req.start
      /\ q.undesired = req.undesired /\ DOMAIN q = DOMAIN req /\ q.level = IF req.level = None THEN level[req.floor] ELSE req.level
      /\ q.printer = req.printer /\ q.at = req.at
  BY <1>1, <1>3 DEF Asked
<1>8. Asked(q)
  <2>1. todo \in Seq(Spots)
    BY <1>5, <1>6
  <2>2. q.level \in Levels
    BY <1>1, <1>7 DEF Asked, TablesInv, Floors
  <2> QED BY <1>1, <1>7, <2>1, <2>2 DEF Asked, OnFloor, Placing
<1>9. ASSUME ~contested PROVE Alone(q)
  <2>1. Alone(req) /\ req.op = "update"
    BY <1>1, <1>9 DEF Asked
  <2>2. Places = req.start.places /\ req.undesired = {}
    BY <1>1, <2>1 DEF Alone, Others
  <2>3. \A i \in DOMAIN todo : PlaceOf(todo[i], req.floor) \in Places
    BY <1>6, PlacesAre
  <2>4. \A p \in positions : p.floor = req.floor => \E i \in DOMAIN todo : todo[i].printer = p.printer
    <3> SUFFICES ASSUME NEW p \in positions, p.floor = req.floor PROVE \E i \in DOMAIN todo : todo[i].printer = p.printer
      OBVIOUS
    <3>1. [printer |-> p.printer, at |-> p.at] \in Dto(req.floor).places
      BY DEF Dto
    <3> QED BY <1>5, <3>1
  <2>5. Others(q)
    BY <1>7, <2>1, <2>2, <2>3, <2>4 DEF Alone, Others
  <2>6. Reads(q)
    BY <1>1, <1>7, <2>1 DEF Reads, Placing
  <2>7. ~torn => Behind(q)
    BY <1>1, <1>7, <2>1 DEF Alone, Behind
  <2> QED BY <2>5, <2>6, <2>7 DEF Alone
<1>10. q # Idle
  BY <1>7, IdleIs
<1> HIDE DEF FloorsInv
<1> QED BY <1>0, <1>1, <1>4, <1>8, <1>9, <1>10, QueryKeeps

LEMMA ReadCurrentKeeps ==
  ASSUME FloorsInv, NEW c \in Requests, ReadCurrent(c)
  PROVE  FloorsInv'
<1>0. PICK req : req = request[c]
  OBVIOUS
<1>1. Asked(req) /\ req.step = "readAgain" /\ req # Idle /\ (~contested => Alone(req)) /\ req.op = "update"
  BY <1>0, RequestIs DEF ReadCurrent, At, Asked
<1>2. PICK undesired : undesired = {p \in positions : p.floor = req.floor /\ p.printer \notin {d.printer : d \in ToSet(req.todo)}}
  OBVIOUS
<1>3. PICK q : q = [req EXCEPT !.step = "check", !.undesired = undesired]
  OBVIOUS
<1>4. Query(c, q)
  BY <1>0, <1>2, <1>3 DEF ReadCurrent, Set, Floor
<1>5. /\ q.step = "check" /\ q.todo = req.todo /\ q.op = req.op /\ q.floor = req.floor /\ q.start = req.start
      /\ q.undesired = undesired /\ DOMAIN q = DOMAIN req /\ q.level = req.level
      /\ q.printer = req.printer /\ q.at = req.at
  BY <1>1, <1>3 DEF Asked
<1>6. Asked(q)
  BY <1>1, <1>5 DEF Asked, OnFloor, Placing
<1>7. ASSUME ~contested PROVE Alone(q)
  <2>1. Alone(req)
    BY <1>1, <1>7
  <2>2. undesired = {}
    <3>1. \A p \in positions : p.floor = req.floor => \E i \in DOMAIN req.todo : req.todo[i].printer = p.printer
      BY <1>1, <2>1 DEF Alone, Others
    <3>2. \A i \in DOMAIN req.todo : req.todo[i] \in ToSet(req.todo)
      BY DEF ToSet
    <3> QED BY <1>2, <3>1, <3>2
  <2>3. Others(q)
    BY <1>1, <1>5, <2>1, <2>2 DEF Alone, Others
  <2>4. Reads(q)
    BY <1>1, <1>5, <2>1 DEF Reads, Placing
  <2>5. ~torn => Behind(q)
    BY <1>1, <1>5, <2>1 DEF Alone, Behind
  <2> QED BY <2>3, <2>4, <2>5 DEF Alone
<1>8. q # Idle
  BY <1>5, IdleIs
<1> HIDE DEF FloorsInv
<1> QED BY <1>0, <1>1, <1>4, <1>6, <1>7, <1>8, QueryKeeps

LEMMA CheckFloorKeeps ==
  ASSUME FloorsInv, NEW c \in Requests, CheckFloor(c)
  PROVE  FloorsInv'
<1>0. PICK req : req = request[c]
  OBVIOUS
<1>1. Asked(req) /\ req.step = "check" /\ req # Idle /\ (~contested => Alone(req)) /\ req.floor \in Floors
  BY <1>0, RequestIs DEF CheckFloor, At, NoFloor, Floor
<1>2. PICK s : s = IF req.todo # <<>> THEN "find" ELSE IF req.op = "update" THEN "dropUndesired" ELSE "readBack"
  OBVIOUS
<1>3. PICK q : q = [req EXCEPT !.step = s]
  OBVIOUS
<1>4. Query(c, q)
  BY <1>0, <1>2, <1>3 DEF CheckFloor, Set
<1>5. /\ q.step = s /\ q.todo = req.todo /\ q.op = req.op /\ q.floor = req.floor /\ q.start = req.start
      /\ q.undesired = req.undesired /\ DOMAIN q = DOMAIN req /\ q.level = req.level
      /\ q.printer = req.printer /\ q.at = req.at
  BY <1>1, <1>3 DEF Asked
<1>6. s \in {"find", "dropUndesired", "readBack"} /\ (s = "find" => req.todo # <<>>) /\ (s = "dropUndesired" => req.op = "update")
  BY <1>2
<1>7. Asked(q)
  BY <1>1, <1>5, <1>6 DEF Asked, OnFloor, Placing
<1>8. ASSUME ~contested PROVE Alone(q)
  <2>1. Alone(req)
    BY <1>1, <1>8
  <2>2. Others(q)
    BY <1>1, <1>5, <1>6, <2>1 DEF Alone, Others, Concerned
  <2>3. Reads(q)
    BY <1>1, <1>5, <1>6 DEF Reads, Placing
  <2>4. ~torn => Behind(q)
    BY <1>1, <1>5, <1>6, <2>1 DEF Alone, Behind
  <2> QED BY <2>2, <2>3, <2>4 DEF Alone
<1>9. q # Idle
  BY <1>5, <1>6, IdleIs
<1> HIDE DEF FloorsInv
<1> QED BY <1>0, <1>1, <1>4, <1>7, <1>8, <1>9, QueryKeeps

\* The rest of the positions to be put in place.
LEMMA TailIs ==
  ASSUME NEW t \in Seq(Spots), t # <<>>
  PROVE  /\ Tail(t) \in Seq(Spots) /\ Head(t) \in Spots /\ 1 \in DOMAIN t /\ Head(t) = t[1]
         /\ \A i \in DOMAIN Tail(t) : i + 1 \in DOMAIN t /\ Tail(t)[i] = t[i + 1]
OBVIOUS

LEMMA FindPrinterKeeps ==
  ASSUME FloorsInv, NEW c \in Requests, FindPrinterPosition(c)
  PROVE  FloorsInv'
<1>0. PICK req : req = request[c]
  OBVIOUS
<1>1. Asked(req) /\ req.step = "find" /\ req # Idle /\ (~contested => Alone(req)) /\ req.todo # <<>> /\ req.todo \in Seq(Spots)
  BY <1>0, RequestIs DEF FindPrinterPosition, At, Asked, Placing
<1>2. PICK d : d = Head(req.todo)
  OBVIOUS
<1>3. \/ PositionOf(d.printer) = {} /\ Query(c, [req EXCEPT !.step = "look"])
      \/ Query(c, [req EXCEPT !.step = "check", !.todo = Tail(@)])
      \/ \E p \in PositionOf(d.printer) : Query(c, [req EXCEPT !.step = "clear", !.found = p])
  BY <1>0, <1>2 DEF FindPrinterPosition, Target, Set
<1>4. CASE PositionOf(d.printer) = {} /\ Query(c, [req EXCEPT !.step = "look"])
  <2>1. PICK q : q = [req EXCEPT !.step = "look"]
    OBVIOUS
  <2>2. /\ q.step = "look" /\ q.todo = req.todo /\ q.op = req.op /\ q.floor = req.floor /\ q.start = req.start
        /\ q.undesired = req.undesired /\ DOMAIN q = DOMAIN req /\ q.level = req.level
        /\ q.printer = req.printer /\ q.at = req.at
    BY <1>1, <2>1 DEF Asked
  <2>3. Asked(q)
    BY <1>1, <2>2 DEF Asked, OnFloor, Placing
  <2>4. ASSUME ~contested PROVE Alone(q)
    <3>1. Alone(req)
      BY <1>1, <2>4
    <3>2. req.op # "update"
      <4> SUFFICES ASSUME req.op = "update" PROVE FALSE
        OBVIOUS
      <4>1. PlaceOf(req.todo[1], req.floor) \in Places
        BY <1>1, <3>1, TailIs DEF Alone, Others
      <4>2. PICK p \in positions : PlaceOf(d, req.floor) = [printer |-> p.printer, floor |-> p.floor, at |-> p.at]
        BY <1>1, <1>2, <4>1, TailIs, PlacesAre
      <4>3. p.printer = d.printer
        BY <4>2 DEF PlaceOf
      <4> QED BY <1>4, <4>3 DEF PositionOf
    <3>3. Others(q)
      BY <1>1, <2>2, <3>1, <3>2 DEF Alone, Others, Concerned
    <3>4. Reads(q)
      BY <1>1, <2>2, <3>1 DEF Alone, Reads, Placing
    <3>5. ~torn => Behind(q)
      BY <1>1, <2>2, <3>1 DEF Alone, Behind
    <3> QED BY <3>3, <3>4, <3>5 DEF Alone
  <2>5. q # Idle
    BY <2>2, IdleIs
  <2> HIDE DEF FloorsInv
  <2> QED BY <1>0, <1>1, <1>4, <2>1, <2>3, <2>4, <2>5, QueryKeeps
<1>5. CASE Query(c, [req EXCEPT !.step = "check", !.todo = Tail(@)])
  <2>1. PICK q : q = [req EXCEPT !.step = "check", !.todo = Tail(@)]
    OBVIOUS
  <2>2. /\ q.step = "check" /\ q.todo = Tail(req.todo) /\ q.op = req.op /\ q.floor = req.floor /\ q.start = req.start
        /\ q.undesired = req.undesired /\ DOMAIN q = DOMAIN req /\ q.level = req.level
        /\ q.printer = req.printer /\ q.at = req.at
    BY <1>1, <2>1 DEF Asked
  <2>3. Asked(q)
    BY <1>1, <2>2, TailIs DEF Asked, OnFloor, Placing
  <2>4. ASSUME ~contested PROVE Alone(q)
    <3>1. Alone(req)
      BY <1>1, <2>4
    <3>2. Others(q)
      BY <1>1, <2>2, <3>1, TailIs DEF Alone, Others, Concerned
    <3>3. Reads(q)
      BY <1>1, <2>2, <3>1 DEF Alone, Others, Reads, Placing
    <3>4. ~torn => Behind(q)
      BY <1>1, <2>2, <3>1 DEF Alone, Behind
    <3> QED BY <3>2, <3>3, <3>4 DEF Alone
  <2>5. q # Idle
    BY <2>2, IdleIs
  <2> HIDE DEF FloorsInv
  <2> QED BY <1>0, <1>1, <1>5, <2>1, <2>3, <2>4, <2>5, QueryKeeps
<1>6. CASE \E p \in PositionOf(d.printer) : Query(c, [req EXCEPT !.step = "clear", !.found = p])
  <2>0. PICK p \in PositionOf(d.printer) : Query(c, [req EXCEPT !.step = "clear", !.found = p])
    BY <1>6
  <2>1. PICK q : q = [req EXCEPT !.step = "clear", !.found = p]
    OBVIOUS
  <2>2. /\ q.step = "clear" /\ q.todo = req.todo /\ q.op = req.op /\ q.floor = req.floor /\ q.start = req.start
        /\ q.undesired = req.undesired /\ DOMAIN q = DOMAIN req /\ q.level = req.level /\ q.found = p
        /\ q.printer = req.printer /\ q.at = req.at
    BY <1>1, <2>1 DEF Asked
  <2>3. Asked(q)
    BY <1>1, <2>2 DEF Asked, OnFloor, Placing
  <2>4. ASSUME ~contested PROVE Alone(q)
    <3>1. Alone(req)
      BY <1>1, <2>4
    <3>2. Others(q)
      BY <1>1, <2>2, <3>1 DEF Alone, Others, Concerned
    <3>3. Reads(q)
      BY <1>1, <1>2, <2>0, <2>2, <3>1 DEF Alone, Reads, Placing, PositionOf
    <3>4. ~torn => Behind(q)
      BY <1>1, <2>2, <3>1 DEF Alone, Behind
    <3> QED BY <3>2, <3>3, <3>4 DEF Alone
  <2>5. q # Idle
    BY <2>2, IdleIs
  <2> HIDE DEF FloorsInv
  <2> QED BY <1>0, <1>1, <2>0, <2>1, <2>3, <2>4, <2>5, QueryKeeps
<1> QED BY <1>3, <1>4, <1>5, <1>6

LEMMA FindPositionKeeps ==
  ASSUME FloorsInv, NEW c \in Requests, FindPosition(c)
  PROVE  FloorsInv'
<1>0. PICK req : req = request[c]
  OBVIOUS
<1>1. Asked(req) /\ req.step = "look" /\ req # Idle /\ (~contested => Alone(req)) /\ req.todo # <<>> /\ req.todo \in Seq(Spots)
  BY <1>0, RequestIs DEF FindPosition, At, Asked, Placing
<1>2. PICK there : there = {p \in positions : p.floor = req.floor /\ p.at = Head(req.todo).at}
  OBVIOUS
<1>3. \/ there = {} /\ Query(c, [req EXCEPT !.step = "put"])
      \/ \E p \in there : Query(c, [req EXCEPT !.step = "evict", !.found = p])
  BY <1>0, <1>2 DEF FindPosition, Target, Floor, Set
<1>4. CASE there = {} /\ Query(c, [req EXCEPT !.step = "put"])
  <2>1. PICK q : q = [req EXCEPT !.step = "put"]
    OBVIOUS
  <2>2. /\ q.step = "put" /\ q.todo = req.todo /\ q.op = req.op /\ q.floor = req.floor /\ q.start = req.start
        /\ q.undesired = req.undesired /\ DOMAIN q = DOMAIN req /\ q.level = req.level
        /\ q.printer = req.printer /\ q.at = req.at
    BY <1>1, <2>1 DEF Asked
  <2>3. Asked(q)
    BY <1>1, <2>2 DEF Asked, OnFloor, Placing
  <2>4. ASSUME ~contested PROVE Alone(q)
    <3>1. Alone(req)
      BY <1>1, <2>4
    <3>2. Others(q)
      BY <1>1, <2>2, <3>1 DEF Alone, Others, Concerned
    <3>3. Reads(q)
      BY <1>1, <2>2, <3>1 DEF Alone, Reads, Placing
    <3>4. ~torn => Behind(q)
      BY <1>1, <2>2, <3>1 DEF Alone, Behind
    <3> QED BY <3>2, <3>3, <3>4 DEF Alone
  <2>5. q # Idle
    BY <2>2, IdleIs
  <2> HIDE DEF FloorsInv
  <2> QED BY <1>0, <1>1, <1>4, <2>1, <2>3, <2>4, <2>5, QueryKeeps
<1>5. CASE \E p \in there : Query(c, [req EXCEPT !.step = "evict", !.found = p])
  <2>0. PICK p \in there : Query(c, [req EXCEPT !.step = "evict", !.found = p])
    BY <1>5
  <2>1. PICK q : q = [req EXCEPT !.step = "evict", !.found = p]
    OBVIOUS
  <2>2. /\ q.step = "evict" /\ q.todo = req.todo /\ q.op = req.op /\ q.floor = req.floor /\ q.start = req.start
        /\ q.undesired = req.undesired /\ DOMAIN q = DOMAIN req /\ q.level = req.level
        /\ q.printer = req.printer /\ q.at = req.at /\ q.found = p
    BY <1>1, <2>1 DEF Asked
  <2>3. Asked(q)
    BY <1>1, <2>2 DEF Asked, OnFloor, Placing
  <2>4. ASSUME ~contested PROVE Alone(q)
    <3>1. Alone(req)
      BY <1>1, <2>4
    <3>2. req.op # "update"
      <4> SUFFICES ASSUME req.op = "update" PROVE FALSE
        OBVIOUS
      <4>1. PICK s : s = PlaceOf(Head(req.todo), req.floor)
        OBVIOUS
      <4>2. s \in req.start.places /\ Places = req.start.places \ {s} /\ s.floor = req.floor /\ s.at = Head(req.todo).at
        BY <1>1, <3>1, <4>1, TailIs DEF Alone, Others, PlaceOf
      <4>3. PICK t : t = [printer |-> p.printer, floor |-> p.floor, at |-> p.at]
        OBVIOUS
      <4>4. t \in Places /\ t.floor = s.floor /\ t.at = s.at
        BY <1>2, <2>0, <4>2, <4>3, PlacesAre
      <4> QED BY <3>1, <4>2, <4>4 DEF Alone, Others
    <3>3. Others(q)
      BY <1>1, <2>2, <3>1, <3>2 DEF Alone, Others, Concerned
    <3>4. Reads(q)
      BY <1>1, <1>2, <2>0, <2>2, <3>1 DEF Alone, Reads, Placing
    <3>5. ~torn => Behind(q)
      BY <1>1, <2>2, <3>1 DEF Alone, Behind
    <3> QED BY <3>3, <3>4, <3>5 DEF Alone
  <2>5. q # Idle
    BY <2>2, IdleIs
  <2> HIDE DEF FloorsInv
  <2> QED BY <1>0, <1>1, <2>0, <2>1, <2>3, <2>4, <2>5, QueryKeeps
<1> QED BY <1>3, <1>4, <1>5

LEMMA FindOnFloorKeeps ==
  ASSUME FloorsInv, NEW c \in Requests, FindPrinterPositionOnFloor(c)
  PROVE  FloorsInv'
<1>0. PICK req : req = request[c]
  OBVIOUS
<1>1. Asked(req) /\ req.step = "findOnFloor" /\ req # Idle /\ (~contested => Alone(req)) /\ req.op = "remove"
  BY <1>0, RequestIs DEF FindPrinterPositionOnFloor, At, Asked
<1>2. PICK p \in PositionOf(req.printer) : p.floor = req.floor /\ Query(c, [req EXCEPT !.step = "unplace", !.found = p])
  BY <1>0 DEF FindPrinterPositionOnFloor, Floor, Set
<1>3. PICK q : q = [req EXCEPT !.step = "unplace", !.found = p]
  OBVIOUS
<1>4. /\ q.step = "unplace" /\ q.todo = req.todo /\ q.op = req.op /\ q.floor = req.floor /\ q.start = req.start
      /\ q.undesired = req.undesired /\ DOMAIN q = DOMAIN req /\ q.level = req.level
      /\ q.printer = req.printer /\ q.at = req.at /\ q.found = p
  BY <1>1, <1>3 DEF Asked
<1>5. Asked(q)
  BY <1>1, <1>4 DEF Asked, OnFloor, Placing
<1>6. ASSUME ~contested PROVE Alone(q)
  <2>1. Alone(req)
    BY <1>1, <1>6
  <2>2. Others(q)
    BY <1>1, <1>4, <2>1 DEF Alone, Others, Concerned
  <2>3. Reads(q)
    BY <1>1, <1>2, <1>4 DEF Reads, Placing, PositionOf
  <2>4. ~torn => Behind(q)
    BY <1>1, <1>4, <2>1 DEF Alone, Behind
  <2> QED BY <2>2, <2>3, <2>4 DEF Alone
<1>7. q # Idle
  BY <1>4, IdleIs
<1> HIDE DEF FloorsInv
<1> QED BY <1>0, <1>1, <1>2, <1>3, <1>5, <1>6, <1>7, QueryKeeps

LEMMA ReadBackKeeps ==
  ASSUME FloorsInv, NEW c \in Requests, ReadBack(c)
  PROVE  FloorsInv'
<1>0. PICK req : req = request[c]
  OBVIOUS
<1>1. Asked(req) /\ req.step = "readBack" /\ req # Idle /\ (~contested => Alone(req)) /\ TablesInv /\ req.floor \in Floors
  BY <1>0, RequestIs DEF ReadBack, At, NoFloor, Floor, FloorsInv
<1>2. PICK dto : dto = Dto(req.floor)
  OBVIOUS
<1>3. PICK q : q = [req EXCEPT !.step = "publish", !.dto = dto]
  OBVIOUS
<1>4. Query(c, q)
  BY <1>0, <1>2, <1>3 DEF ReadBack, Set, Floor
<1>5. /\ q.step = "publish" /\ q.todo = req.todo /\ q.op = req.op /\ q.floor = req.floor /\ q.start = req.start
      /\ q.undesired = req.undesired /\ DOMAIN q = DOMAIN req /\ q.level = req.level
      /\ q.printer = req.printer /\ q.at = req.at /\ q.dto = dto
  BY <1>1, <1>3 DEF Asked
<1>6. Asked(q)
  BY <1>1, <1>2, <1>5, PlacesApart DEF Asked, OnFloor, Placing
<1>7. ASSUME ~contested PROVE Alone(q)
  <2>1. Alone(req)
    BY <1>1, <1>7
  <2>2. Others(q)
    BY <1>1, <1>5, <2>1 DEF Alone, Others, Concerned
  <2>3. Reads(q)
    BY <1>1, <1>2, <1>5 DEF Reads, Placing
  <2>4. ~torn => Behind(q)
    BY <1>1, <1>5, <2>1 DEF Alone, Behind
  <2> QED BY <2>2, <2>3, <2>4 DEF Alone
<1>8. q # Idle
  BY <1>5, IdleIs
<1> HIDE DEF FloorsInv
<1> QED BY <1>0, <1>1, <1>4, <1>6, <1>7, <1>8, QueryKeeps

LEMMA ListFloorsKeeps ==
  ASSUME FloorsInv, NEW c \in Requests, ListFloors(c)
  PROVE  FloorsInv'
<1>0. PICK req : req = request[c]
  OBVIOUS
<1>1. /\ Asked(req) /\ req.step = "load" /\ req # Idle /\ (~contested => Alone(req)) /\ TablesInv
      /\ req.op \in {"list", "deletePrinter"} /\ req.floor = None
  BY <1>0, RequestIs DEF ListFloors, At, FloorsInv, Asked, OnFloor, Placing
<1>2. CASE Floors = {}
  <2>1. PICK q : q = [req EXCEPT !.step = "insert", !.level = 0]
    OBVIOUS
  <2>2. Query(c, q)
    BY <1>0, <1>2, <2>1 DEF ListFloors, Set
  <2>3. /\ q.step = "insert" /\ q.todo = req.todo /\ q.op = req.op /\ q.floor = req.floor /\ q.start = req.start
        /\ q.undesired = req.undesired /\ DOMAIN q = DOMAIN req /\ q.level = 0
        /\ q.printer = req.printer /\ q.at = req.at
    BY <1>1, <2>1 DEF Asked
  <2>4. Asked(q)
    BY <1>1, <2>3, FloorsAssumption DEF Asked, OnFloor, Placing
  <2>5. ASSUME ~contested PROVE Alone(q)
    <3>1. Alone(req)
      BY <1>1, <2>5
    <3>2. Others(q)
      BY <1>1, <2>3, <3>1 DEF Alone, Others, Concerned
    <3>3. Reads(q)
      BY <1>1, <2>3 DEF Reads, Placing
    <3>4. ASSUME ~torn PROVE Behind(q)
      <4>1. \A f \in FloorIds : level[f] = None /\ cache[f] = None
        BY <1>1, <1>2, <3>1, <3>4 DEF Alone, Behind, Floors
      <4> QED BY <1>1, <1>2, <2>3, <3>1, <3>4, <4>1 DEF Alone, Behind, ShowsAs
    <3> QED BY <3>2, <3>3, <3>4 DEF Alone
  <2>6. q # Idle
    BY <2>3, IdleIs
  <2> HIDE DEF FloorsInv
  <2> QED BY <1>0, <1>1, <2>2, <2>4, <2>5, <2>6, QueryKeeps
<1>3. CASE Floors # {}
  <2>0. PICK dtos : dtos = Dtos
    OBVIOUS
  <2>1. PICK q : q = [req EXCEPT !.step = "publishAll", !.dto = dtos]
    OBVIOUS
  <2>2. Query(c, q)
    BY <1>0, <1>3, <2>0, <2>1 DEF ListFloors, Set
  <2>3. /\ q.step = "publishAll" /\ q.todo = req.todo /\ q.op = req.op /\ q.floor = req.floor /\ q.start = req.start
        /\ q.undesired = req.undesired /\ DOMAIN q = DOMAIN req /\ q.level = req.level
        /\ q.printer = req.printer /\ q.at = req.at /\ q.dto = dtos
    BY <1>1, <2>1 DEF Asked
  <2>4. Asked(q)
    <3>1. DOMAIN dtos = Floors /\ \A f \in Floors : dtos[f] = Dto(f)
      BY <2>0 DEF Dtos
    <3>2. DOMAIN dtos \subseteq FloorIds /\ \A f \in DOMAIN dtos : dtos[f] \in FloorDtos
      BY <1>1, <3>1, PlacesApart DEF Floors
    <3> QED BY <1>1, <2>3, <3>2 DEF Asked, OnFloor, Placing
  <2>5. ASSUME ~contested PROVE Alone(q)
    <3>1. Alone(req)
      BY <1>1, <2>5
    <3>2. Others(q)
      BY <1>1, <2>3, <3>1 DEF Alone, Others, Concerned
    <3>3. Reads(q)
      BY <1>1, <2>0, <2>3 DEF Reads, Placing
    <3>4. ~torn => Behind(q)
      BY <1>1, <2>3, <3>1 DEF Alone, Behind
    <3> QED BY <3>2, <3>3, <3>4 DEF Alone
  <2>6. q # Idle
    BY <2>3, IdleIs
  <2> HIDE DEF FloorsInv
  <2> QED BY <1>0, <1>1, <2>2, <2>4, <2>5, <2>6, QueryKeeps
<1> QED BY <1>2, <1>3

LEMMA QueryFailsKeeps ==
  ASSUME FloorsInv, NEW c \in Requests, QueryFails(c)
  PROVE  FloorsInv'
<1>0. PICK req : req = request[c]
  OBVIOUS
<1>1. /\ req.step \in {"read", "readAgain", "check", "readBack", "findOnFloor"} /\ Fail(c)
      /\ req.step = "findOnFloor" \/ req.floor \notin Floors
  BY <1>0 DEF QueryFails, At, NoFloor, Floor
<1>2. Asked(req) /\ req # Idle /\ (~contested => Alone(req))
  BY <1>0, <1>1, RequestIs
<1>3. ~contested => req.op # "deletePrinter"
  BY <1>1, <1>2 DEF Alone, Reads, Asked
<1> HIDE DEF FloorsInv
<1> QED BY <1>0, <1>1, <1>2, <1>3, FailKeeps

-----------------------------------------------------------------------------
(* Writes. *)

\* Fewer positions, of the same printers and floors.
LEMMA TablesLose ==
  ASSUME TablesInv, positions' \subseteq positions, UNCHANGED <<stored, level, last>>
  PROVE  TablesInv'
<1>1. IsFiniteSet(positions')
  BY FS_Subset DEF TablesInv
<1> QED BY <1>1 DEF TablesInv, Floors

\* A position goes: of its printer, and of its place.
LEMMA PositionGoes ==
  ASSUME TablesInv, NEW p \in positions, positions' = positions \ {p}
  PROVE  /\ Places' = Places \ {[printer |-> p.printer, floor |-> p.floor, at |-> p.at]}
         /\ \A s \in Places : s.printer = p.printer \/ (s.floor = p.floor /\ s.at = p.at) =>
              s = [printer |-> p.printer, floor |-> p.floor, at |-> p.at]
<1>1. PICK t : t = [printer |-> p.printer, floor |-> p.floor, at |-> p.at]
  OBVIOUS
<1>2. t \in Places /\ t.printer = p.printer /\ t.floor = p.floor /\ t.at = p.at
  BY <1>1, PlacesAre
<1>3. ASSUME NEW s \in Places, s # t PROVE s \in Places'
  <2>1. PICK q \in positions : s = [printer |-> q.printer, floor |-> q.floor, at |-> q.at]
    BY PlacesAre
  <2>2. q # p
    BY <1>1, <1>3, <2>1
  <2> QED BY <2>1, <2>2 DEF Places
<1>4. ASSUME NEW s \in Places' PROVE s \in Places /\ s # t
  <2>1. PICK q \in positions \ {p} : s = [printer |-> q.printer, floor |-> q.floor, at |-> q.at]
    BY DEF Places
  <2>2. q.printer # p.printer
    BY <2>1 DEF TablesInv
  <2> QED BY <1>1, <2>1, <2>2 DEF Places
<1>5. \A s \in Places : s.printer = p.printer \/ (s.floor = p.floor /\ s.at = p.at) => s = t
  BY <1>2, PlacesApart
<1> QED BY <1>1, <1>3, <1>4, <1>5

LEMMA DeletePositionKeeps ==
  ASSUME FloorsInv, NEW c \in Requests, DeletePosition(c)
  PROVE  FloorsInv'
<1>0. PICK req : req = request[c]
  OBVIOUS
<1>1. /\ req.step \in {"clear", "evict", "unplace"}
      /\ \/ /\ request' = [request EXCEPT ![c] = [req EXCEPT !.step = [clear |-> "look", evict |-> "put", unplace |-> "readBack"][req.step],
                                                             !.found = None]]
            /\ positions' = positions \ {req.found}
            /\ stored' = stored /\ level' = level /\ cache' = cache /\ contested' = contested /\ torn' = torn /\ last' = last
            /\ moved' = IF req.step = "clear" /\ req.found.floor # req.floor
                        THEN moved \cup {Head(req.todo).printer} ELSE moved
         \/ Fail(c)
  BY <1>0 DEF DeletePosition, Write, Become, Set, At, Floor, Target
<1>2. Asked(req) /\ req # Idle /\ (~contested => Alone(req)) /\ TablesInv /\ CacheInv /\ moved \subseteq Printers
  BY <1>0, <1>1, RequestIs DEF FloorsInv
<1>3. CASE Fail(c)
  <2>1. ~contested => req.op # "deletePrinter"
    BY <1>1, <1>2 DEF Alone, Others, Asked, Placing
  <2> HIDE DEF FloorsInv
  <2> QED BY <1>0, <1>2, <1>3, <2>1, FailKeeps
<1>4. CASE ~Fail(c)
  <2>1. PICK s : s = [clear |-> "look", evict |-> "put", unplace |-> "readBack"][req.step]
    OBVIOUS
  <2>2. /\ s \in {"look", "put", "readBack"} /\ (req.step = "clear" <=> s = "look")
        /\ (req.step = "evict" <=> s = "put") /\ (req.step = "unplace" <=> s = "readBack")
    BY <1>1, <2>1
  <2>3. PICK q : q = [req EXCEPT !.step = s, !.found = None]
    OBVIOUS
  <2>4. /\ q.step = s /\ q.todo = req.todo /\ q.op = req.op /\ q.floor = req.floor /\ q.start = req.start
        /\ q.undesired = req.undesired /\ DOMAIN q = DOMAIN req /\ q.level = req.level
        /\ q.printer = req.printer /\ q.at = req.at
    BY <1>2, <2>3 DEF Asked
  <2>5. Asked(q)
    BY <1>1, <1>2, <2>2, <2>4 DEF Asked, OnFloor, Placing
  <2>6. /\ request' = [request EXCEPT ![c] = q] /\ positions' = positions \ {req.found}
        /\ stored' = stored /\ level' = level /\ cache' = cache /\ contested' = contested /\ torn' = torn /\ last' = last
        /\ moved' = IF req.step = "clear" /\ req.found.floor # req.floor THEN moved \cup {Head(req.todo).printer} ELSE moved
    BY <1>1, <1>4, <2>1, <2>3
  <2>7. TablesInv' /\ CacheInv'
    <3>1. TablesInv'
      BY <1>2, <2>6, TablesLose
    <3> QED BY <1>2, <2>6, <3>1 DEF CacheInv
  <2>8. moved' \subseteq Printers /\ moved \subseteq moved'
    <3>1. req.step = "clear" => Head(req.todo) \in Spots
      BY <1>2, TailIs DEF Asked, Placing
    <3> QED BY <1>2, <2>6, <3>1 DEF Spots
  <2>9. ASSUME ~contested PROVE Alone(q)'
    <3>1. Alone(req)
      BY <1>2, <2>9
    <3>2. PICK p \in positions : p = req.found
      BY <1>1, <3>1 DEF Alone, Reads
    <3>3. PICK t : t = [printer |-> p.printer, floor |-> p.floor, at |-> p.at]
      OBVIOUS
    <3>4. /\ Places' = Places \ {t} /\ t \in Places /\ t.printer = p.printer /\ t.floor = p.floor /\ t.at = p.at
          /\ \A x \in Places : x.printer = p.printer \/ (x.floor = p.floor /\ x.at = p.at) => x = t
      BY <1>2, <2>6, <3>2, <3>3, PositionGoes, PlacesAre
    <3>5. Others(q)'
      <4>1. CASE req.op # "update"
        <5>1. Concerned(q, t)
          <6>1. CASE req.step = "clear"
            BY <1>2, <2>4, <3>1, <3>2, <3>4, <4>1, <6>1 DEF Alone, Others, Reads, Concerned, Asked,
                                                            Placing
          <6>2. CASE req.step = "evict"
            <7>1. req.floor = p.floor /\ p.at = Head(req.todo).at /\ req.todo # <<>> /\ req.op \in {"place", "create"}
              BY <1>2, <3>1, <3>2, <4>1, <6>2 DEF Alone, Others, Reads, Asked, Placing
            <7>2. req.op = "place"
              BY <3>1, <6>2, <7>1 DEF Alone, Others
            <7> QED BY <2>4, <3>1, <3>4, <7>1, <7>2 DEF Alone, Others, Concerned
          <6>3. CASE req.step = "unplace"
            BY <2>4, <3>1, <3>2, <3>4, <6>3 DEF Alone, Reads, Concerned
          <6> QED BY <1>1, <6>1, <6>2, <6>3
        <5>2. \A x \in q.start.places : Concerned(q, x) \/ x \in Places'
          BY <2>4, <3>1, <3>4, <4>1, <5>1 DEF Alone, Others, Concerned
        <5>3. \A x : Concerned(q, x)' <=> Concerned(q, x)
          BY DEF Concerned
        <5> QED BY <1>1, <2>4, <2>6, <3>1, <4>1, <5>2, <5>3 DEF Alone, Others
      <4>2. CASE req.op = "update"
        <5>1. req.step = "clear" /\ s = "look" /\ req.todo # <<>> /\ req.todo \in Seq(Spots) /\ Places = req.start.places
          BY <1>1, <1>2, <2>2, <3>1, <4>2 DEF Alone, Others, Asked, Placing
        <5>2. PICK d : d = PlaceOf(Head(req.todo), req.floor)
          OBVIOUS
        <5>3. d \in Places /\ d.printer = Head(req.todo).printer
          BY <3>1, <4>2, <5>1, <5>2, TailIs DEF Alone, Others, PlaceOf
        <5>4. d = t
          BY <3>1, <3>2, <3>4, <5>1, <5>3 DEF Alone, Reads
        <5>5. Places' = q.start.places \ {PlaceOf(Head(q.todo), q.floor)}
          BY <2>4, <3>4, <5>1, <5>2, <5>4
        <5> QED BY <2>4, <2>6, <3>1, <4>2, <5>1, <5>5 DEF Alone, Others, PlaceOf
      <4> QED BY <4>1, <4>2
    <3>6. Reads(q)'
      <4>1. Floors' = Floors
        BY <2>6 DEF Floors
      <4>2. s # "readBack" => req.floor \in Floors
        BY <1>1, <2>2, <3>1 DEF Alone, Reads, Placing
      <4>3. s = "readBack" => req.op = "remove"
        BY <1>2, <2>2 DEF Asked
      <4> QED BY <2>2, <2>4, <4>1, <4>2, <4>3 DEF Reads, Placing
    <3>7. ASSUME ~torn' PROVE Behind(q)'
      <4>1. Behind(req)
        BY <2>6, <3>1, <3>7 DEF Alone
      <4>2. t.floor = req.floor \/ t.printer \in moved' \cap stored
        BY <1>1, <1>2, <2>6, <3>1, <3>2, <3>4 DEF Alone, Reads, TablesInv
      <4>3. ASSUME NEW f \in FloorIds \ {q.floor} PROVE ShowsAs(f, level, Places)'
        <5>1. ShowsAs(f, level, Places)
          BY <1>1, <2>4, <4>1, <4>3 DEF Behind
        <5>2. \A x \in Places : x.floor = f => x \in Places' \/ x.printer \in moved' \cap stored'
          BY <2>4, <2>6, <3>4, <4>2, <4>3
        <5>3. PICK lv, pl, lw, pm : lv = level /\ pl = Places /\ lw = level' /\ pm = Places'
          OBVIOUS
        <5>4. ShowsAs(f, lw, pm)'
          BY <2>6, <2>8, <3>4, <5>1, <5>2, <5>3, ShowsOn
        <5> QED BY <5>3, <5>4 DEF ShowsAs
      <4>4. ASSUME req.op # "deletePrinter", NEW f \in FloorIds
            PROVE  ShowsAs(f, q.start.level, q.start.places)'
        <5>1. PICK lv, pl : lv = q.start.level /\ pl = q.start.places
          OBVIOUS
        <5>2. ShowsAs(f, lv, pl)
          BY <2>4, <4>1, <4>4, <5>1 DEF Behind
        <5>3. ShowsAs(f, lv, pl)'
          BY <2>6, <2>8, <5>2, ShowsOn
        <5> QED BY <5>1, <5>3 DEF ShowsAs
      <4> QED BY <2>2, <2>4, <4>3, <4>4 DEF Behind
    <3> QED BY <3>5, <3>6, <3>7 DEF Alone
  <2>10. q # Idle
    BY <2>2, <2>4, IdleIs
  <2> HIDE DEF FloorsInv
  <2> QED BY <1>0, <1>2, <2>5, <2>6, <2>7, <2>8, <2>9, <2>10, RequestGoes
<1> QED BY <1>3, <1>4

\* A write to one floor leaves the others, and what the store shows of them, alone.
LEMMA BehindGoes ==
  ASSUME NEW req, NEW q, Behind(req), q.op = req.op, q.floor = req.floor, q.start = req.start,
         req.step \notin {"load", "publishAll", "insert", "deletePrinter"},
         q.step \notin {"load", "publishAll", "insert", "deletePrinter"},
         cache' = cache, moved' = moved, stored' = stored,
         \A f \in FloorIds \ {q.floor} : level'[f] = level[f],
         \A x \in Places' : x.floor # q.floor => x \in Places,
         \A y \in Places : y.floor # q.floor => y \in Places'
  PROVE  Behind(q)'
<1>1. ASSUME NEW f \in FloorIds \ {q.floor} PROVE ShowsAs(f, level, Places)'
  <2>1. ShowsAs(f, level, Places)
    BY <1>1 DEF Behind
  <2>2. PICK lv, pl, lw, pm : lv = level /\ pl = Places /\ lw = level' /\ pm = Places'
    OBVIOUS
  <2>3. ShowsAs(f, lw, pm)'
    <3>1. lw[f] = lv[f] /\ moved \cap stored \subseteq moved' \cap stored' /\ ShowsAs(f, lv, pl)
      BY <1>1, <2>1, <2>2
    <3>2. (\A s \in pm : s.floor = f => s \in pl) /\ \A t \in pl : t.floor = f => t \in pm \/ t.printer \in moved' \cap stored'
      BY <1>1, <2>2
    <3> QED BY <3>1, <3>2, ShowsOn
  <2> QED BY <2>2, <2>3 DEF ShowsAs
<1>2. ASSUME q.op # "deletePrinter", NEW f \in FloorIds PROVE ShowsAs(f, q.start.level, q.start.places)'
  <2>1. PICK lv, pl : lv = q.start.level /\ pl = q.start.places
    OBVIOUS
  <2>2. ShowsAs(f, lv, pl)
    BY <1>2, <2>1 DEF Behind
  <2>3. ShowsAs(f, lv, pl)'
    BY <2>2, ShowsOn
  <2> QED BY <2>1, <2>3 DEF ShowsAs
<1> QED BY <1>1, <1>2 DEF Behind

LEMMA CreatePositionKeeps ==
  ASSUME FloorsInv, NEW c \in Requests, CreatePosition(c)
  PROVE  FloorsInv'
<1>0. PICK req : req = request[c]
  OBVIOUS
<1>1. PICK p : p = [id |-> last.position + 1, printer |-> Head(req.todo).printer, floor |-> req.floor, at |-> Head(req.todo).at]
  OBVIOUS
<1>2. /\ req.step = "put"
      /\ \/ /\ Allowed(p) /\ request' = [request EXCEPT ![c] = [req EXCEPT !.step = "check", !.todo = Tail(@)]]
            /\ positions' = positions \cup {p}
            /\ last' = [last EXCEPT !.position = p.id]
            /\ stored' = stored /\ level' = level /\ cache' = cache /\ contested' = contested /\ torn' = torn /\ moved' = moved
         \/ ~Allowed(p) /\ Fail(c)
  BY <1>0, <1>1 DEF CreatePosition, Write, Become, Set, At, Floor, Target
<1>3. /\ Asked(req) /\ req # Idle /\ (~contested => Alone(req)) /\ TablesInv /\ CacheInv /\ moved \subseteq Printers
      /\ req.todo # <<>> /\ req.todo \in Seq(Spots)
  BY <1>0, <1>2, RequestIs DEF FloorsInv, Asked, Placing
<1>4. CASE Fail(c)
  <2>1. ~contested => req.op # "deletePrinter"
    BY <1>2, <1>3 DEF Alone, Others
  <2> HIDE DEF FloorsInv
  <2> QED BY <1>0, <1>3, <1>4, <2>1, FailKeeps
<1>5. CASE ~Fail(c)
  <2>1. /\ Allowed(p) /\ positions' = positions \cup {p} /\ last' = [last EXCEPT !.position = p.id]
        /\ stored' = stored /\ level' = level /\ cache' = cache /\ contested' = contested /\ torn' = torn /\ moved' = moved
    BY <1>2, <1>5
  <2>2. PICK q : q = [req EXCEPT !.step = "check", !.todo = Tail(@)]
    OBVIOUS
  <2>3. request' = [request EXCEPT ![c] = q]
    BY <1>2, <1>5, <2>2
  <2>4. /\ q.step = "check" /\ q.todo = Tail(req.todo) /\ q.op = req.op /\ q.floor = req.floor /\ q.start = req.start
        /\ q.undesired = req.undesired /\ DOMAIN q = DOMAIN req /\ q.level = req.level
        /\ q.printer = req.printer /\ q.at = req.at
    BY <1>3, <2>2 DEF Asked
  <2>5. Asked(q)
    BY <1>2, <1>3, <2>4, TailIs DEF Asked, OnFloor, Placing
  <2>6. p.printer = Head(req.todo).printer /\ p.floor = req.floor /\ p.at = Head(req.todo).at /\ p.at \in Cells
    BY <1>1, <1>3, TailIs DEF Spots
  <2>7. TablesInv'
    <3>1. IsFiniteSet(positions')
      BY <1>3, <2>1, FS_AddElement DEF TablesInv
    <3>2. Floors' = Floors
      BY <2>1 DEF Floors
    <3>3. /\ \A r \in positions' : r.floor \in Floors /\ r.printer \in stored /\ r.at \in Cells
          /\ \A r, s \in positions' : r.printer = s.printer \/ (r.floor = s.floor /\ r.at = s.at) => r = s
      BY <1>3, <2>1, <2>6 DEF TablesInv, Allowed
    <3>4. DOMAIN last' = {"floor", "position"} /\ last'.floor = last.floor
      BY <1>3, <2>1 DEF TablesInv
    <3> QED BY <1>3, <2>1, <3>1, <3>2, <3>3, <3>4 DEF TablesInv
  <2>8. CacheInv' /\ moved' \subseteq Printers
    BY <1>3, <2>1 DEF CacheInv
  <2>9. ASSUME ~contested PROVE Alone(q)'
    <3>1. Alone(req)
      BY <1>3, <2>9
    <3>2. PICK t : t = PlaceOf(Head(req.todo), req.floor)
      OBVIOUS
    <3>3. Places' = Places \cup {t} /\ t.floor = req.floor
      BY <2>1, <2>6, <3>2 DEF Places, PlaceOf
    <3>4. Others(q)'
      <4>1. CASE req.op # "update"
        <5>1. \A x \in q.start.places : Concerned(q, x) \/ x \in Places'
          BY <2>4, <3>1, <3>3, <4>1 DEF Alone, Others, Concerned
        <5>2. \A x : Concerned(q, x)' <=> Concerned(q, x)
          BY DEF Concerned
        <5>3. q.todo = <<>>
          BY <1>3, <2>4, <3>1, <4>1 DEF Alone, Others
        <5> QED BY <2>4, <3>1, <4>1, <5>1, <5>2, <5>3 DEF Alone, Others
      <4>2. CASE req.op = "update"
        <5>1. t \in req.start.places /\ Places = req.start.places \ {t}
          BY <1>2, <1>3, <3>1, <3>2, <4>2, TailIs DEF Alone, Others
        <5>2. \A i \in DOMAIN q.todo : PlaceOf(q.todo[i], q.floor) \in q.start.places
          BY <1>2, <1>3, <2>4, <3>1, <4>2, TailIs DEF Alone, Others
        <5>3. Places' = q.start.places
          BY <2>4, <3>3, <5>1
        <5>4. \A i \in DOMAIN q.todo : PlaceOf(q.todo[i], q.floor)' = PlaceOf(q.todo[i], q.floor)
          BY DEF PlaceOf
        <5> QED BY <2>1, <2>4, <3>1, <4>2, <5>2, <5>3, <5>4 DEF Alone, Others
      <4> QED BY <4>1, <4>2
    <3>5. Reads(q)'
      BY <1>2, <1>3, <2>4, <3>1 DEF Alone, Others, Reads, Placing
    <3>6. ASSUME ~torn' PROVE Behind(q)'
      <4>1. Behind(req)
        BY <2>1, <3>1, <3>6 DEF Alone
      <4>2. /\ \A f \in FloorIds \ {q.floor} : level'[f] = level[f]
            /\ \A x \in Places' : x.floor # q.floor => x \in Places
            /\ \A x \in Places : x.floor # q.floor => x \in Places'
        BY <2>1, <2>4, <3>3
      <4> HIDE DEF Behind
      <4> QED BY <1>2, <2>1, <2>4, <4>1, <4>2, BehindGoes
    <3> QED BY <3>4, <3>5, <3>6 DEF Alone
  <2>10. q # Idle
    BY <2>4, IdleIs
  <2> HIDE DEF FloorsInv
  <2> QED BY <1>0, <1>3, <2>1, <2>3, <2>5, <2>7, <2>8, <2>9, <2>10, RequestGoes
<1> QED BY <1>4, <1>5

LEMMA DropUndesiredKeeps ==
  ASSUME FloorsInv, NEW c \in Requests, DropUndesired(c)
  PROVE  FloorsInv'
<1>0. PICK req : req = request[c]
  OBVIOUS
<1>1. PICK q : q = [req EXCEPT !.step = "save", !.undesired = {}]
  OBVIOUS
<1>2. /\ req.step = "dropUndesired" /\ request' = [request EXCEPT ![c] = q]
      /\ positions' = positions \ req.undesired /\ last' = last
      /\ stored' = stored /\ level' = level /\ cache' = cache /\ contested' = contested /\ torn' = torn /\ moved' = moved
  BY <1>0, <1>1 DEF DropUndesired, Write, Become, Set, At
<1>3. Asked(req) /\ req # Idle /\ (~contested => Alone(req)) /\ TablesInv /\ CacheInv /\ moved \subseteq Printers /\ req.op = "update"
  BY <1>0, <1>2, RequestIs DEF FloorsInv, Asked
<1>4. /\ q.step = "save" /\ q.todo = req.todo /\ q.op = req.op /\ q.floor = req.floor /\ q.start = req.start
      /\ q.undesired = {} /\ DOMAIN q = DOMAIN req /\ q.level = req.level
      /\ q.printer = req.printer /\ q.at = req.at
  BY <1>1, <1>3 DEF Asked
<1>5. Asked(q)
  BY <1>2, <1>3, <1>4 DEF Asked, OnFloor, Placing
<1>6. TablesInv' /\ CacheInv'
  <2>1. TablesInv'
    BY <1>2, <1>3, TablesLose
  <2> QED BY <1>2, <1>3, <2>1 DEF CacheInv
<1>7. ASSUME ~contested PROVE Alone(q)'
  <2>1. Alone(req) /\ req.undesired = {}
    BY <1>3, <1>7 DEF Alone, Others
  <2>2. positions' = positions
    BY <1>2, <2>1
  <2>3. Places' = Places /\ Floors' = Floors
    BY <1>2, <2>2 DEF Places, Floors
  <2>4. Others(q)'
    BY <1>2, <1>3, <1>4, <2>1, <2>3 DEF Alone, Others, PlaceOf
  <2>5. Reads(q)'
    BY <1>2, <1>3, <1>4, <2>1, <2>3 DEF Alone, Reads, Placing
  <2>6. ASSUME ~torn' PROVE Behind(q)'
    <3>1. Behind(req)
      BY <1>2, <2>1, <2>6 DEF Alone
    <3> HIDE DEF Behind
    <3> QED BY <1>2, <1>4, <2>3, <3>1, BehindGoes
  <2> QED BY <2>4, <2>5, <2>6 DEF Alone
<1>8. q # Idle
  BY <1>4, IdleIs
<1> HIDE DEF FloorsInv
<1> QED BY <1>0, <1>2, <1>3, <1>5, <1>6, <1>7, <1>8, RequestGoes

LEMMA SaveFloorKeeps ==
  ASSUME FloorsInv, NEW c \in Requests, SaveFloor(c)
  PROVE  FloorsInv'
<1>0. PICK req : req = request[c]
  OBVIOUS
<1>1. PICK q : q = [req EXCEPT !.step = "readBack"]
  OBVIOUS
<1>2. /\ req.step = "save"
      /\ \/ Fail(c)
         \/ /\ req.floor \in Floors /\ request' = [request EXCEPT ![c] = q]
            /\ level' = [level EXCEPT ![req.floor] = req.level] /\ last' = last /\ positions' = positions
            /\ stored' = stored /\ cache' = cache /\ contested' = contested /\ torn' = torn /\ moved' = moved
  BY <1>0, <1>1 DEF SaveFloor, Become, Set, At, NoFloor, Floor
<1>3. Asked(req) /\ req # Idle /\ (~contested => Alone(req)) /\ TablesInv /\ CacheInv /\ moved \subseteq Printers /\ req.op = "update" /\ req.level \in Levels
  BY <1>0, <1>2, RequestIs DEF FloorsInv, Asked
<1>4. CASE Fail(c)
  <2> HIDE DEF FloorsInv
  <2> QED BY <1>0, <1>3, <1>4, FailKeeps
<1>5. CASE ~Fail(c)
  <2>1. /\ req.floor \in Floors /\ request' = [request EXCEPT ![c] = q]
        /\ level' = [level EXCEPT ![req.floor] = req.level] /\ last' = last /\ positions' = positions
        /\ stored' = stored /\ cache' = cache /\ contested' = contested /\ torn' = torn /\ moved' = moved
    BY <1>2, <1>5
  <2>2. /\ q.step = "readBack" /\ q.todo = req.todo /\ q.op = req.op /\ q.floor = req.floor /\ q.start = req.start
        /\ q.undesired = req.undesired /\ DOMAIN q = DOMAIN req /\ q.level = req.level
        /\ q.printer = req.printer /\ q.at = req.at
    BY <1>1, <1>3 DEF Asked
  <2>3. Asked(q)
    BY <1>2, <1>3, <2>2 DEF Asked, OnFloor, Placing
  <2>4. Floors' = Floors /\ level' \in [FloorIds -> Levels \cup {None}] /\ Places' = Places
    BY <1>3, <2>1, NoneIsNothing DEF Floors, TablesInv, Places
  <2>5. TablesInv' /\ CacheInv'
    BY <1>3, <2>1, <2>4 DEF TablesInv, CacheInv
  <2>6. ASSUME ~contested PROVE Alone(q)'
    <3>1. Alone(req)
      BY <1>3, <2>6
    <3>2. Others(q)'
      BY <1>2, <1>3, <2>1, <2>2, <2>4, <3>1 DEF Alone, Others, PlaceOf
    <3>3. Reads(q)'
      BY <1>2, <1>3, <2>2 DEF Reads, Placing
    <3>4. ASSUME ~torn' PROVE Behind(q)'
      <4>1. Behind(req)
        BY <2>1, <3>1, <3>4 DEF Alone
      <4>2. \A f \in FloorIds \ {q.floor} : level'[f] = level[f]
        BY <1>3, <2>1, <2>2 DEF TablesInv
      <4> HIDE DEF Behind
      <4> QED BY <1>2, <2>1, <2>2, <2>4, <4>1, <4>2, BehindGoes
    <3> QED BY <3>2, <3>3, <3>4 DEF Alone
  <2>7. q # Idle
    BY <2>2, IdleIs
  <2> HIDE DEF FloorsInv
  <2> QED BY <1>0, <1>3, <2>1, <2>3, <2>5, <2>6, <2>7, RequestGoes
<1> QED BY <1>4, <1>5

LEMMA InsertFloorKeeps ==
  ASSUME FloorsInv, NEW c \in Requests, InsertFloor(c)
  PROVE  FloorsInv'
<1>0. PICK req : req = request[c]
  OBVIOUS
<1>1. PICK n : n = last.floor + 1
  OBVIOUS
<1>2. PICK q : q = [req EXCEPT !.step = "check", !.floor = n]
  OBVIOUS
<1>3. Asked(req) /\ req.step = "insert" /\ req # Idle /\ (~contested => Alone(req)) /\ TablesInv /\ CacheInv /\ moved \subseteq Printers
  BY <1>0, RequestIs DEF InsertFloor, At, FloorsInv
<1>4. /\ last.floor < MaxFloor
      /\ \/ Fail(c) /\ ~FreeLevel(req.level, None)
         \/ /\ request' = [request EXCEPT ![c] = q] /\ last' = [last EXCEPT !.floor = n]
            /\ level' = [level EXCEPT ![n] = req.level] /\ positions' = positions
            /\ stored' = stored /\ cache' = cache /\ contested' = contested /\ torn' = torn /\ moved' = moved
  <2>1. last' = [last EXCEPT !.floor = @ + 1] => last'.floor = n
    BY <1>1, <1>3 DEF TablesInv
  <2> QED BY <1>0, <1>1, <1>2, <2>1 DEF InsertFloor, Become, Set, At
<1>5. CASE Fail(c) /\ ~FreeLevel(req.level, None)
  <2>1. ~contested /\ ~torn => req.op # "deletePrinter"
    BY <1>3, <1>5 DEF Alone, Behind, FreeLevel
  <2> HIDE DEF FloorsInv
  <2> QED BY <1>0, <1>3, <1>5, <2>1, FailKeeps
<1>6. CASE ~(Fail(c) /\ ~FreeLevel(req.level, None))
  <2>1. /\ request' = [request EXCEPT ![c] = q] /\ last' = [last EXCEPT !.floor = n]
        /\ level' = [level EXCEPT ![n] = req.level] /\ positions' = positions
        /\ stored' = stored /\ cache' = cache /\ contested' = contested /\ torn' = torn /\ moved' = moved
    BY <1>4, <1>6
  <2>2. /\ q.step = "check" /\ q.todo = req.todo /\ q.op = req.op /\ q.floor = n /\ q.start = req.start
        /\ q.undesired = req.undesired /\ DOMAIN q = DOMAIN req /\ q.level = req.level
        /\ q.printer = req.printer /\ q.at = req.at
    BY <1>2, <1>3 DEF Asked
  <2>3. n \in FloorIds /\ n \notin Floors /\ n # None /\ n \in 1..MaxFloor
    BY <1>1, <1>3, <1>4, FloorsAssumption DEF TablesInv, FloorIds
  <2>4. Asked(q)
    BY <1>3, <2>2, <2>3 DEF Asked, OnFloor, Placing
  <2>5. req.level \in Levels /\ req.op # "update" /\ req.floor = None
    BY <1>3 DEF Asked, OnFloor, Placing
  <2>6. Floors' = Floors \cup {n} /\ level' \in [FloorIds -> Levels \cup {None}] /\ Places' = Places
        /\ \A f \in FloorIds \ {n} : level'[f] = level[f]
    BY <1>3, <2>1, <2>3, <2>5, NoneIsNothing DEF Floors, TablesInv, Places
  <2>7. TablesInv' /\ CacheInv'
    <3>1. DOMAIN last' = {"floor", "position"} /\ last'.floor = n /\ last.floor \in 1..MaxFloor
      BY <1>3, <2>1 DEF TablesInv
    <3>2. Floors' \subseteq 1..n
      BY <1>1, <1>3, <2>3, <2>6, <3>1, FloorsAssumption DEF TablesInv
    <3> QED BY <1>3, <2>1, <2>3, <2>6, <3>1, <3>2 DEF TablesInv, CacheInv
  <2>8. ASSUME ~contested PROVE Alone(q)'
    <3>1. Alone(req)
      BY <1>3, <2>8
    <3>2. \A s \in q.start.places : Concerned(q, s) \/ s \in Places
      BY <2>2, <2>5, <3>1, NoneIsNothing DEF Alone, Others, Concerned
    <3>3. \A p \in positions : p.floor # n
      BY <1>3, <2>3 DEF TablesInv
    <3>4. Others(q)'
      BY <2>1, <2>2, <2>5, <2>6, <3>1, <3>2, <3>3 DEF Alone, Others, Concerned
    <3>5. Reads(q)'
      BY <2>2, <2>6 DEF Reads, Placing
    <3>6. ASSUME ~torn' PROVE Behind(q)'
      <4>1. Behind(req)
        BY <2>1, <3>1, <3>6 DEF Alone
      <4>2. ASSUME NEW f \in FloorIds \ {n} PROVE ShowsAs(f, level, Places)'
        <5>1. ShowsAs(f, level, Places)
          BY <1>3, <2>5, <4>1, <4>2, NoneIsNothing DEF Behind
        <5> QED BY <2>1, <2>6, <4>2, <5>1 DEF ShowsAs, PlaceOf
      <4>3. ASSUME req.op # "deletePrinter", NEW f \in FloorIds
            PROVE  ShowsAs(f, q.start.level, q.start.places)'
        <5>1. ShowsAs(f, q.start.level, q.start.places)
          BY <2>2, <4>1, <4>3 DEF Behind
        <5> QED BY <2>1, <5>1 DEF ShowsAs, PlaceOf
      <4> QED BY <2>2, <4>2, <4>3 DEF Behind
    <3> QED BY <3>4, <3>5, <3>6 DEF Alone
  <2>9. q # Idle
    BY <2>2, IdleIs
  <2> HIDE DEF FloorsInv
  <2> QED BY <1>0, <1>3, <2>1, <2>4, <2>7, <2>8, <2>9, RequestGoes
<1> QED BY <1>4, <1>5, <1>6

LEMMA DeleteFloorKeeps ==
  ASSUME FloorsInv, NEW c \in Requests, DeleteFloorRow(c)
  PROVE  FloorsInv'
<1>0. PICK req : req = request[c]
  OBVIOUS
<1>1. PICK q : q = [req EXCEPT !.step = "forget"]
  OBVIOUS
<1>2. /\ req.step = "deleteFloor"
      /\ \/ Fail(c)
         \/ /\ request' = [request EXCEPT ![c] = q]
            /\ level' = [level EXCEPT ![req.floor] = None] /\ positions' = {p \in positions : p.floor # req.floor}
            /\ stored' = stored /\ cache' = cache /\ contested' = contested /\ torn' = torn /\ moved' = moved /\ last' = last
  BY <1>0, <1>1 DEF DeleteFloorRow, Become, Set, At, Floor
<1>3. /\ Asked(req) /\ req # Idle /\ (~contested => Alone(req)) /\ TablesInv /\ CacheInv /\ moved \subseteq Printers
      /\ req.op = "deleteFloor" /\ req.floor \in FloorIds
  BY <1>0, <1>2, RequestIs DEF FloorsInv, Asked, OnFloor
<1>4. CASE Fail(c)
  <2> HIDE DEF FloorsInv
  <2> QED BY <1>0, <1>3, <1>4, FailKeeps
<1>5. CASE ~Fail(c)
  <2>1. /\ request' = [request EXCEPT ![c] = q]
        /\ level' = [level EXCEPT ![req.floor] = None] /\ positions' = {p \in positions : p.floor # req.floor}
        /\ stored' = stored /\ cache' = cache /\ contested' = contested /\ torn' = torn /\ moved' = moved /\ last' = last
    BY <1>2, <1>5
  <2>2. /\ q.step = "forget" /\ q.todo = req.todo /\ q.op = req.op /\ q.floor = req.floor /\ q.start = req.start
        /\ q.undesired = req.undesired /\ DOMAIN q = DOMAIN req /\ q.level = req.level
        /\ q.printer = req.printer /\ q.at = req.at
    BY <1>1, <1>3 DEF Asked
  <2>3. Asked(q)
    BY <1>2, <1>3, <2>2 DEF Asked, OnFloor, Placing
  <2>4. Floors' = Floors \ {req.floor} /\ level' \in [FloorIds -> Levels \cup {None}]
    BY <1>3, <2>1 DEF Floors, TablesInv
  <2>5. TablesInv' /\ CacheInv'
    <3>1. IsFiniteSet(positions')
      BY <1>3, <2>1, FS_Subset DEF TablesInv
    <3> QED BY <1>3, <2>1, <2>4, <3>1 DEF TablesInv, CacheInv
  <2>6. /\ \A x \in Places' : x \in Places /\ x.floor # req.floor
        /\ \A x \in Places : x.floor # req.floor => x \in Places'
    <3>1. ASSUME NEW x \in Places' PROVE x \in Places /\ x.floor # req.floor
      <4>1. PICK p \in positions : p.floor # req.floor /\ x = [printer |-> p.printer, floor |-> p.floor, at |-> p.at]
        BY <2>1 DEF Places
      <4> QED BY <4>1 DEF Places
    <3>2. ASSUME NEW x \in Places, x.floor # req.floor PROVE x \in Places'
      <4>1. PICK p \in positions : x = [printer |-> p.printer, floor |-> p.floor, at |-> p.at]
        BY PlacesAre
      <4>2. p \in positions'
        BY <2>1, <3>2, <4>1
      <4> QED BY <4>1, <4>2 DEF Places
    <3> QED BY <3>1, <3>2
  <2>7. ASSUME ~contested PROVE Alone(q)'
    <3>1. Alone(req)
      BY <1>3, <2>7
    <3>2. Others(q)'
      <4>1. \A x \in q.start.places : Concerned(q, x) \/ x \in Places'
        BY <1>3, <2>2, <2>6, <3>1 DEF Alone, Others, Concerned
      <4>2. \A x : Concerned(q, x)' <=> Concerned(q, x)
        BY DEF Concerned
      <4> QED BY <1>3, <2>2, <3>1, <4>1, <4>2 DEF Alone, Others
    <3>3. Reads(q)'
      BY <1>3, <2>2, <2>4 DEF Reads, Placing
    <3>4. ASSUME ~torn' PROVE Behind(q)'
      <4>1. Behind(req)
        BY <2>1, <3>1, <3>4 DEF Alone
      <4>2. \A f \in FloorIds \ {q.floor} : level'[f] = level[f]
        BY <1>3, <2>1, <2>2 DEF TablesInv
      <4> HIDE DEF Behind
      <4> QED BY <1>2, <1>3, <2>1, <2>2, <2>6, <4>1, <4>2, BehindGoes
    <3> QED BY <3>2, <3>3, <3>4 DEF Alone
  <2>8. q # Idle
    BY <2>2, IdleIs
  <2> HIDE DEF FloorsInv
  <2> QED BY <1>0, <1>3, <2>1, <2>3, <2>5, <2>7, <2>8, RequestGoes
<1> QED BY <1>4, <1>5

LEMMA DeletePrinterKeeps ==
  ASSUME FloorsInv, NEW c \in Requests, DeletePrinterRow(c)
  PROVE  FloorsInv'
<1>0. PICK req : req = request[c]
  OBVIOUS
<1>1. PICK q : q = [req EXCEPT !.step = "load"]
  OBVIOUS
<1>2. /\ req.step = "deletePrinter" /\ request' = [request EXCEPT ![c] = q]
      /\ stored' = stored \ {req.printer} /\ positions' = positions \ PositionOf(req.printer)
      /\ level' = level /\ cache' = cache /\ contested' = contested /\ torn' = torn /\ moved' = moved /\ last' = last
  BY <1>0, <1>1 DEF DeletePrinterRow, Become, Set, At
<1>3. /\ Asked(req) /\ req # Idle /\ (~contested => Alone(req)) /\ TablesInv /\ CacheInv /\ moved \subseteq Printers
      /\ req.op = "deletePrinter" /\ req.floor = None
  BY <1>0, <1>2, RequestIs DEF FloorsInv, Asked, OnFloor, Placing
<1>4. /\ q.step = "load" /\ q.todo = req.todo /\ q.op = req.op /\ q.floor = req.floor /\ q.start = req.start
      /\ q.undesired = req.undesired /\ DOMAIN q = DOMAIN req /\ q.level = req.level
      /\ q.printer = req.printer /\ q.at = req.at
  BY <1>1, <1>3 DEF Asked
<1>5. Asked(q)
  BY <1>2, <1>3, <1>4 DEF Asked, OnFloor, Placing
<1>6. Floors' = Floors /\ \A p \in positions' : p \in positions /\ p.printer # req.printer
  BY <1>2 DEF Floors, PositionOf
<1>7. TablesInv' /\ CacheInv'
  <2>1. IsFiniteSet(positions')
    BY <1>2, <1>3, FS_Subset DEF TablesInv
  <2>2. \A p \in positions' : p.printer \in stored'
    BY <1>2, <1>3, <1>6 DEF TablesInv
  <2> QED BY <1>2, <1>3, <1>6, <2>1, <2>2 DEF TablesInv, CacheInv
<1>8. ASSUME ~contested PROVE Alone(q)'
  <2>1. Alone(req)
    BY <1>3, <1>8
  <2>2. ASSUME NEW x \in Places, x.printer # req.printer PROVE x \in Places'
    <3>1. PICK p \in positions : x = [printer |-> p.printer, floor |-> p.floor, at |-> p.at]
      BY PlacesAre
    <3>2. p \in positions'
      BY <1>2, <2>2, <3>1 DEF PositionOf
    <3> QED BY <3>1, <3>2 DEF Places
  <2>3. Others(q)'
    <3>1. \A x \in q.start.places : Concerned(q, x) \/ x \in Places'
      BY <1>3, <1>4, <2>1, <2>2 DEF Alone, Others, Concerned
    <3>2. \A x : Concerned(q, x)' <=> Concerned(q, x)
      BY DEF Concerned
    <3> QED BY <1>3, <1>4, <2>1, <3>1, <3>2 DEF Alone, Others
  <2>4. Reads(q)'
    BY <1>4 DEF Reads, Placing
  <2>5. ASSUME ~torn' PROVE Behind(q)'
    <3>1. Behind(req)
      BY <1>2, <2>1, <2>5 DEF Alone
    <3>2. \A f \in FloorIds : f \in Floors <=> cache[f] # None
      BY <1>2, <1>3, <3>1, NoneIsNothing DEF Behind, ShowsAs, Floors
    <3> QED BY <1>2, <1>3, <1>4, <1>6, <3>2 DEF Behind
  <2> QED BY <2>3, <2>4, <2>5 DEF Alone
<1>9. q # Idle
  BY <1>4, IdleIs
<1> HIDE DEF FloorsInv
<1> QED BY <1>0, <1>2, <1>3, <1>5, <1>7, <1>8, <1>9, RequestGoes

\* What toDto makes of floor f shows the floor as it is.
LEMMA DtoShows ==
  ASSUME TablesInv, NEW f \in FloorIds, NEW d, f \in Floors => d = Dto(f), f \notin Floors => d = None
  PROVE  /\ level[f] # None <=> d # None
         /\ level[f] # None =>
              /\ d.level = level[f]
              /\ \A s \in Places : s.floor = f => [printer |-> s.printer, at |-> s.at] \in d.places
              /\ \A s \in d.places : PlaceOf(s, f) \in Places
<1>1. CASE f \in Floors
  <2>1. level[f] # None /\ d # None /\ d = Dto(f)
    BY <1>1, PlacesApart, NoneIsNothing DEF Floors
  <2>2. Dto(f).level = level[f]
    BY DEF Dto
  <2>3. /\ \A s \in Places : s.floor = f => [printer |-> s.printer, at |-> s.at] \in Dto(f).places
        /\ \A s \in Dto(f).places : PlaceOf(s, f) \in Places
    BY PlacesAre
  <2> QED BY <2>1, <2>2, <2>3
<1>2. CASE f \notin Floors
  BY <1>2 DEF Floors
<1> QED BY <1>1, <1>2

LEMMA StoreFloorsKeeps ==
  ASSUME FloorsInv, NEW c \in Requests, StoreFloors(c)
  PROVE  FloorsInv'
<1>0. PICK req : req = request[c]
  OBVIOUS
<1>1. /\ req.step \in {"publish", "forget", "publishAll"} /\ request' = [request EXCEPT ![c] = Idle]
      /\ req.step = "publish" => cache' = [cache EXCEPT ![req.floor] = req.dto]
      /\ req.step = "forget" => cache' = [cache EXCEPT ![req.floor] = None]
      /\ req.step = "publishAll" => cache' = [f \in FloorIds |-> IF f \in DOMAIN req.dto THEN req.dto[f] ELSE cache[f]]
      /\ stored' = stored /\ positions' = positions
      /\ level' = level /\ contested' = contested /\ torn' = torn /\ moved' = moved /\ last' = last
  BY <1>0 DEF StoreFloors, Become, At, Floor
<1>2. Asked(req) /\ req # Idle /\ (~contested => Alone(req)) /\ TablesInv /\ CacheInv /\ moved \subseteq Printers /\ torn \in BOOLEAN
  BY <1>0, <1>1, RequestIs DEF FloorsInv
<1>3. Floors' = Floors /\ Places' = Places /\ \A f : Dto(f)' = Dto(f)
  BY <1>1 DEF Floors, Places, Dto
<1>4. TablesInv'
  BY <1>1, <1>2, <1>3 DEF TablesInv
<1>5. CacheInv'
  <2>1. CASE req.step = "publish"
    BY <1>1, <1>2, <2>1 DEF CacheInv, Asked
  <2>2. CASE req.step = "forget"
    BY <1>1, <1>2, <2>2 DEF CacheInv
  <2>3. CASE req.step = "publishAll"
    BY <1>1, <1>2, <2>3 DEF CacheInv, Asked
  <2> QED BY <1>1, <2>1, <2>2, <2>3
<1>6. ASSUME ~contested, ~torn' PROVE Shown'
  <2>1. Others(req) /\ Reads(req) /\ Behind(req)
    BY <1>1, <1>2, <1>6 DEF Alone
  <2>2. ASSUME NEW f \in FloorIds \ {req.floor}, req.step # "publishAll"
        PROVE  ShowsAs(f, level, Places)'
    <3>1. cache'[f] = cache[f]
      BY <1>1, <1>2, <2>2 DEF CacheInv
    <3>2. ShowsAs(f, level, Places)
      BY <1>1, <2>1, <2>2 DEF Behind
    <3> QED BY <1>1, <1>3, <3>1, <3>2 DEF ShowsAs, PlaceOf
  <2>3. ASSUME NEW f \in FloorIds, f \in Floors => cache'[f] = Dto(f), f \notin Floors => cache'[f] = None
        PROVE  ShowsAs(f, level, Places)'
    <3>1. /\ level[f] # None <=> cache'[f] # None
          /\ level[f] # None =>
               /\ cache'[f].level = level[f]
               /\ \A s \in Places : s.floor = f => [printer |-> s.printer, at |-> s.at] \in cache'[f].places
               /\ \A s \in cache'[f].places : PlaceOf(s, f) \in Places
      BY <1>2, <2>3, DtoShows
    <3> QED BY <1>1, <1>3, <3>1 DEF ShowsAs, PlaceOf
  <2>4. CASE req.step = "publish"
    <3>1. req.floor \in Floors /\ cache'[req.floor] = Dto(req.floor) /\ req.floor \in FloorIds
      BY <1>1, <1>2, <2>1, <2>4 DEF Reads, CacheInv, Floors
    <3> QED BY <2>2, <2>3, <2>4, <3>1 DEF Shown
  <2>5. CASE req.step = "forget"
    <3>1. req.floor \notin Floors /\ req.floor \in FloorIds
      BY <1>2, <2>1, <2>5 DEF Reads, Asked, OnFloor
    <3>2. cache'[req.floor] = None
      BY <1>1, <1>2, <2>5, <3>1 DEF CacheInv
    <3> QED BY <2>2, <2>3, <2>5, <3>1, <3>2 DEF Shown
  <2>6. CASE req.step = "publishAll"
    <3>1. req.dto = Dtos /\ \A f \in FloorIds : f \in Floors <=> cache[f] # None
      BY <2>1, <2>6 DEF Reads, Behind
    <3>2. DOMAIN Dtos = Floors /\ \A f \in Floors : Dtos[f] = Dto(f)
      BY DEF Dtos
    <3>3. \A f \in FloorIds : (f \in Floors => cache'[f] = Dto(f)) /\ (f \notin Floors => cache'[f] = None)
      BY <1>1, <2>6, <3>1, <3>2
    <3> QED BY <2>3, <3>3 DEF Shown
  <2> QED BY <1>1, <2>4, <2>5, <2>6
<1> HIDE DEF FloorsInv
<1> QED BY <1>0, <1>1, <1>2, <1>4, <1>5, <1>6, RequestEnds

-----------------------------------------------------------------------------
(* Requests that come in. *)

\* The first steps of requests, and what each has been asked.
Arriving(r) ==
  /\ r.step \in {"read", "check", "findOnFloor", "readBack", "insert", "deleteFloor", "load", "deletePrinter"}
  /\ r.undesired = {}
  /\ r.op = "update" <=> r.step = "read"
  /\ r.op = "create" <=> r.step = "insert"
  /\ r.op = "list" <=> r.step = "load"
  /\ r.op = "deletePrinter" <=> r.step = "deletePrinter"
  /\ r.todo # <<>> => /\ r.op \in {"place", "create"} /\ Tail(r.todo) = <<>>
                      /\ Head(r.todo).printer = r.printer /\ (r.op = "place" => Head(r.todo).at = r.at)

LEMMA BeginKeeps ==
  ASSUME FloorsInv, NEW c \in Requests, NEW r, Begin(c, r), Asked(r), Arriving(r)
  PROVE  FloorsInv'
<1>1. PICK q : q = [r EXCEPT !.start = Tables]
  OBVIOUS
<1>2. /\ stored' = stored /\ level' = level /\ positions' = positions /\ cache' = cache /\ last' = last
      /\ torn' = torn /\ moved' = moved /\ request' = [request EXCEPT ![c] = q]
      /\ contested' = (contested \/ \E d \in Requests : request[d] # Idle)
  BY <1>1 DEF Begin
<1>3. /\ q.op = r.op /\ q.floor = r.floor /\ q.level = r.level /\ q.todo = r.todo /\ q.printer = r.printer
      /\ q.at = r.at /\ q.undesired = r.undesired /\ q.dto = r.dto /\ q.step = r.step
      /\ q.start = Tables /\ DOMAIN q = DOMAIN r
  BY <1>1 DEF Asked
<1>4. Asked(q) /\ q # Idle
  <2>1. q.step # "idle"
    BY <1>3 DEF Arriving
  <2> QED BY <1>3, <2>1, IdleIs DEF Asked
<1>5. Tables.places = Places /\ Tables.level = level
  BY DEF Tables
<1>6. Floors' = Floors /\ Places' = Places /\ (\A f : Dto(f)' = Dto(f)) /\ Dtos' = Dtos
  BY <1>2 DEF Floors, Places, Dto, Dtos
<1>7. TablesInv' /\ CacheInv' /\ moved' \subseteq Printers /\ torn' \in BOOLEAN /\ contested' \in BOOLEAN
  BY <1>2, <1>6 DEF FloorsInv, TablesInv, CacheInv
<1>8. DOMAIN request' = Requests /\ request'[c] = q /\ \A d \in Requests \ {c} : request'[d] = request[d]
  BY <1>2 DEF FloorsInv
<1>9. \A d \in Requests : Asked(request'[d])
  BY <1>4, <1>8 DEF FloorsInv
<1>10. ASSUME ~contested' PROVE Alone(q) /\ \A d \in Requests \ {c} : request'[d] = Idle
  <2>1. ~contested /\ \A d \in Requests : request[d] = Idle
    BY <1>2, <1>10
  <2>2. TablesInv /\ (~torn => Shown)
    BY <2>1 DEF FloorsInv
  <2>3. q.start.places = Places /\ q.start.level = level
    BY <1>3, <1>5
  <2>4. Others(q)
    <3>1. /\ \A s \in Places : s.floor \in FloorIds /\ s.printer \in stored
          /\ \A s, t \in Places : s.printer = t.printer \/ (s.floor = t.floor /\ s.at = t.at) => s = t
      BY <2>2, PlacesApart DEF Floors
    <3> QED BY <1>3, <2>3, <3>1 DEF Others, Arriving
  <2>5. Reads(q)
    BY <1>3 DEF Reads, Arriving, Placing
  <2>6. ~torn => Behind(q)
    <3> SUFFICES ASSUME ~torn PROVE Behind(q)
      OBVIOUS
    <3>1. \A f \in FloorIds : ShowsAs(f, level, Places)
      BY <2>2 DEF Shown
    <3>2. \A f \in FloorIds : f \in Floors <=> cache[f] # None
      BY <3>1 DEF ShowsAs, Floors
    <3>3. ~(q.step = "insert" /\ q.op = "deletePrinter")
      BY <1>3 DEF Arriving
    <3> QED BY <2>3, <3>1, <3>2, <3>3 DEF Behind
  <2> QED BY <1>8, <2>1, <2>4, <2>5, <2>6 DEF Alone
<1>11. ~contested' => Alone(q)'
  <2>1. Others(q)' <=> Others(q)
    BY <1>2, <1>6 DEF Others
  <2>2. Reads(q)' <=> Reads(q)
    BY <1>2, <1>6 DEF Reads
  <2>3. Behind(q)' <=> Behind(q)
    BY <1>2, <1>6 DEF Behind, ShowsAs
  <2> QED BY <1>2, <1>10, <2>1, <2>2, <2>3 DEF Alone
<1>12. ASSUME ~contested', NEW d \in Requests, request'[d] # Idle
       PROVE  Alone(request[d])' /\ \A e \in Requests \ {d} : request'[e] = Idle
  <2>1. d = c
    BY <1>10, <1>12
  <2>2. Alone(request[d])' <=> Alone(q)'
    BY <1>8, <2>1 DEF Alone, Others, Reads, Behind
  <2> QED BY <1>10, <1>11, <1>12, <2>1, <2>2
<1>13. ~(\A d \in Requests : request'[d] = Idle)
  BY <1>4, <1>8
<1>14. \A d \in Requests : Asked(request[d])'
  BY <1>9 DEF Asked
<1> HIDE DEF Alone, TablesInv, CacheInv, Asked, Shown
<1> QED BY <1>7, <1>8, <1>12, <1>13, <1>14 DEF FloorsInv

LEMMA ArrivalKeeps ==
  ASSUME FloorsInv, NEW c \in Requests, RequestArrives(c)
  PROVE  FloorsInv'
<1>1. 1..last.floor \subseteq FloorIds /\ 0 \in Levels
  BY FloorsAssumption DEF FloorsInv, TablesInv, FloorIds
<1>2. <<>> \in Seq(Spots) /\ \A s \in Spots : <<s>> \in Seq(Spots) /\ Head(<<s>>) = s /\ Tail(<<s>>) = <<>>
  OBVIOUS
<1>3. \A p \in Printers, at \in Cells : [printer |-> p, at |-> at] \in Spots
  BY DEF Spots
<1>4. ASSUME NEW f \in FloorIds, NEW p \in Printers, NEW at \in Cells, AddOrUpdatePrinter(c, f, p, at)
      PROVE  FloorsInv'
  <2>1. PICK r : r = [Idle EXCEPT !.op = "place", !.floor = f, !.step = "check",
                        !.printer = p, !.at = at, !.todo = <<[printer |-> p, at |-> at]>>]
    OBVIOUS
  <2>2. Asked(r)
    BY <1>2, <1>3, <2>1, NoneIsNothing DEF Asked, Idle, OnFloor, Placing
  <2>3. Arriving(r)
    BY <1>2, <1>3, <2>1 DEF Arriving, Idle
  <2>4. Begin(c, r)
    BY <1>4, <2>1 DEF AddOrUpdatePrinter
  <2> HIDE DEF FloorsInv
  <2> QED BY <2>2, <2>3, <2>4, BeginKeeps
<1>5. ASSUME NEW f \in FloorIds, NEW p \in Printers, RemovePrinter(c, f, p) PROVE FloorsInv'
  <2>1. PICK r : r = [Idle EXCEPT !.op = "remove", !.floor = f, !.printer = p, !.step = "findOnFloor"]
    OBVIOUS
  <2>2. Asked(r) /\ Arriving(r)
    BY <1>2, <2>1, NoneIsNothing DEF Asked, Arriving, Idle, OnFloor, Placing
  <2> HIDE DEF FloorsInv
  <2> QED BY <1>5, <2>1, <2>2, BeginKeeps DEF RemovePrinter
<1>6. ASSUME NEW f \in FloorIds, NEW l \in Levels, UpdateLevel(c, f, l) PROVE FloorsInv'
  <2>1. PICK r : r = [Idle EXCEPT !.op = "update", !.floor = f, !.level = l, !.step = "read"]
    OBVIOUS
  <2>2. Asked(r) /\ Arriving(r)
    BY <1>2, <2>1, NoneIsNothing DEF Asked, Arriving, Idle, OnFloor, Placing
  <2> HIDE DEF FloorsInv
  <2> QED BY <1>6, <2>1, <2>2, BeginKeeps DEF UpdateLevel
<1>7. ASSUME NEW f \in FloorIds, UpdateName(c, f) PROVE FloorsInv'
  <2>1. PICK r : r = [Idle EXCEPT !.op = "update", !.floor = f, !.step = "read"]
    OBVIOUS
  <2>2. Asked(r) /\ Arriving(r)
    BY <1>2, <2>1, NoneIsNothing DEF Asked, Arriving, Idle, OnFloor, Placing
  <2> HIDE DEF FloorsInv
  <2> QED BY <1>7, <2>1, <2>2, BeginKeeps DEF UpdateName
<1>8. ASSUME NEW f \in FloorIds, DeleteFloor(c, f) PROVE FloorsInv'
  <2>1. PICK r : r = [Idle EXCEPT !.op = "deleteFloor", !.floor = f, !.step = "deleteFloor"]
    OBVIOUS
  <2>2. Asked(r) /\ Arriving(r)
    BY <1>2, <2>1, NoneIsNothing DEF Asked, Arriving, Idle, OnFloor, Placing
  <2> HIDE DEF FloorsInv
  <2> QED BY <1>8, <2>1, <2>2, BeginKeeps DEF DeleteFloor
<1>9. ASSUME NEW f \in FloorIds, GetFloor(c, f) PROVE FloorsInv'
  <2>1. PICK r : r = [Idle EXCEPT !.op = "get", !.floor = f, !.step = "readBack"]
    OBVIOUS
  <2>2. Asked(r) /\ Arriving(r)
    BY <1>2, <2>1, NoneIsNothing DEF Asked, Arriving, Idle, OnFloor, Placing
  <2> HIDE DEF FloorsInv
  <2> QED BY <1>9, <2>1, <2>2, BeginKeeps DEF GetFloor
<1>10. ASSUME NEW l \in Levels, CreateFloor(c, l, <<>>) PROVE FloorsInv'
  <2>1. PICK r : r = [Idle EXCEPT !.op = "create", !.level = l, !.todo = <<>>, !.step = "insert", !.printer = None]
    OBVIOUS
  <2>2. Asked(r) /\ Arriving(r)
    BY <1>2, <2>1, NoneIsNothing DEF Asked, Arriving, Idle, OnFloor, Placing
  <2> HIDE DEF FloorsInv
  <2> QED BY <1>10, <2>1, <2>2, BeginKeeps DEF CreateFloor
<1>11. ASSUME NEW l \in Levels, NEW s \in Spots, CreateFloor(c, l, <<s>>) PROVE FloorsInv'
  <2>1. PICK r : r = [Idle EXCEPT !.op = "create", !.level = l, !.todo = <<s>>, !.step = "insert", !.printer = s.printer]
    OBVIOUS
  <2>2. Asked(r)
    BY <1>2, <2>1, NoneIsNothing DEF Asked, Idle, OnFloor, Placing
  <2>3. Arriving(r)
    BY <1>2, <2>1 DEF Arriving, Idle
  <2>4. Begin(c, r)
    BY <1>2, <1>11, <2>1 DEF CreateFloor
  <2> HIDE DEF FloorsInv
  <2> QED BY <2>2, <2>3, <2>4, BeginKeeps
<1>12. ASSUME ListCache(c) PROVE FloorsInv'
  <2>1. PICK r : r = [Idle EXCEPT !.op = "list", !.step = "load"]
    OBVIOUS
  <2>2. Asked(r) /\ Arriving(r)
    BY <1>2, <2>1, NoneIsNothing DEF Asked, Arriving, Idle, OnFloor, Placing
  <2> HIDE DEF FloorsInv
  <2> QED BY <1>12, <2>1, <2>2, BeginKeeps DEF ListCache
<1>13. ASSUME NEW p \in Printers, DeletePrinter(c, p) PROVE FloorsInv'
  <2>1. PICK r : r = [Idle EXCEPT !.op = "deletePrinter", !.printer = p, !.step = "deletePrinter"]
    OBVIOUS
  <2>2. Asked(r) /\ Arriving(r)
    BY <1>2, <2>1, NoneIsNothing DEF Asked, Arriving, Idle, OnFloor, Placing
  <2> HIDE DEF FloorsInv
  <2> QED BY <1>13, <2>1, <2>2, BeginKeeps DEF DeletePrinter
<1> HIDE DEF FloorsInv
<1>14. CASE \E f \in 1..last.floor :
              \/ \E p \in Printers, at \in Cells : AddOrUpdatePrinter(c, f, p, at)
              \/ \E p \in Printers : RemovePrinter(c, f, p)
              \/ UpdateName(c, f) \/ \E l \in Levels : UpdateLevel(c, f, l)
              \/ DeleteFloor(c, f) \/ GetFloor(c, f)
  BY <1>1, <1>4, <1>5, <1>6, <1>7, <1>8, <1>9, <1>14
<1>15. CASE \E l \in Levels, p \in Printers, at \in Cells : CreateFloor(c, l, <<[printer |-> p, at |-> at]>>)
  BY <1>3, <1>11, <1>15
<1> QED BY <1>10, <1>12, <1>13, <1>14, <1>15 DEF RequestArrives

-----------------------------------------------------------------------------
(* The start. *)

\* Floors have a last one.
LEMMA MaxIs ==
  ASSUME NEW S \in SUBSET FloorIds, S # {}
  PROVE  Max(S) \in S /\ \A f \in S : Max(S) >= f
<1>1. MaxFloor \in Nat /\ FloorIds \subseteq Nat /\ \A f \in FloorIds : MaxFloor - f \in Nat
  BY FloorsAssumption DEF FloorIds
<1>2. \E f \in S : \A g \in S : f >= g
  <2> DEFINE R == OpToRel(<, Nat)
             T == {n \in Nat : MaxFloor - n \in S}
  <2>1. \A f \in S : MaxFloor - f \in T /\ MaxFloor - (MaxFloor - f) = f
    BY <1>1
  <2>2. T # {} /\ T \subseteq Nat
    BY <2>1
  <2>3. IsWellFoundedOn(R, Nat)
    BY NatLessThanWellFounded
  <2>4. PICK n \in T : \A m \in T : <<m, n>> \notin R
    <3> HIDE DEF R, T
    <3> QED BY <2>2, <2>3, WFMin
  <2>5. \A m \in T : ~(m < n)
    BY <2>4 DEF OpToRel
  <2>6. MaxFloor - n \in S
    BY <2>4
  <2>7. \A g \in S : MaxFloor - n >= g
    <3> SUFFICES ASSUME NEW g \in S PROVE MaxFloor - n >= g
      OBVIOUS
    <3>1. ~(MaxFloor - g < n) /\ n \in Nat /\ g \in Nat /\ MaxFloor - g \in Nat
      BY <1>1, <2>1, <2>5
    <3> QED BY <1>1, <3>1
  <2> QED BY <2>6, <2>7
<1>3. PICK m : m = CHOOSE x \in S : \A y \in S : x >= y
  OBVIOUS
<1>4. m \in S /\ \A f \in S : m >= f
  BY <1>2, <1>3
<1> QED BY <1>3, <1>4 DEF Max

\* The store shows every floor as it is when it has been loaded.
LEMMA LoadedShows ==
  ASSUME TablesInv, NEW loaded, loaded = [f \in FloorIds |-> IF f \in Floors THEN Dto(f) ELSE None]
  PROVE  /\ loaded \in [FloorIds -> FloorDtos \cup {None}]
         /\ \A f \in FloorIds :
              /\ level[f] # None <=> loaded[f] # None
              /\ level[f] # None =>
                   /\ loaded[f].level = level[f]
                   /\ \A s \in Places : s.floor = f => [printer |-> s.printer, at |-> s.at] \in loaded[f].places
                   /\ \A s \in loaded[f].places : PlaceOf(s, f) \in Places
<1>1. \A f \in Floors : Dto(f) \in FloorDtos
  BY PlacesApart
<1>2. \A f \in FloorIds : (f \in Floors => loaded[f] = Dto(f)) /\ (f \notin Floors => loaded[f] = None)
  OBVIOUS
<1>3. loaded \in [FloorIds -> FloorDtos \cup {None}]
  BY <1>1
<1> QED BY <1>2, <1>3, DtoShows

LEMMA RestartKeeps ==
  ASSUME FloorsInv, Restart
  PROVE  FloorsInv'
<1>1. /\ stored' = stored /\ level' = level /\ positions' = positions /\ last' = last
      /\ request' = [c \in Requests |-> Idle] /\ contested' = FALSE /\ torn' = FALSE /\ moved' = {}
      /\ cache' = [f \in FloorIds |-> IF f \in Floors THEN Dto(f) ELSE None]
  BY DEF Restart
<1>2. TablesInv
  BY DEF FloorsInv
<1>3. Floors' = Floors /\ Places' = Places
  BY <1>1 DEF Floors, Places
<1>4. TablesInv'
  BY <1>1, <1>2, <1>3 DEF TablesInv
<1>5. PICK loaded : loaded = cache'
  OBVIOUS
<1>6. /\ loaded \in [FloorIds -> FloorDtos \cup {None}]
      /\ \A f \in FloorIds :
           /\ level[f] # None <=> loaded[f] # None
           /\ level[f] # None =>
                /\ loaded[f].level = level[f]
                /\ \A s \in Places : s.floor = f => [printer |-> s.printer, at |-> s.at] \in loaded[f].places
                /\ \A s \in loaded[f].places : PlaceOf(s, f) \in Places
  BY <1>1, <1>2, <1>5, LoadedShows
<1>7. CacheInv'
  BY <1>5, <1>6 DEF CacheInv
<1>8. Shown'
  BY <1>1, <1>3, <1>5, <1>6 DEF Shown, ShowsAs, PlaceOf
<1>9. DOMAIN request' = Requests /\ \A c \in Requests : request'[c] = Idle
  BY <1>1
<1>10. \A c \in Requests : Asked(request[c])'
  BY <1>9, IdleIs DEF Asked
<1> HIDE DEF Alone, TablesInv, CacheInv, Asked, Shown
<1> QED BY <1>1, <1>4, <1>7, <1>8, <1>9, <1>10 DEF FloorsInv

LEMMA InitHolds ==
  ASSUME Init
  PROVE  FloorsInv
<1>1. /\ stored \subseteq Printers /\ level \in [FloorIds -> Levels \cup {None}] /\ Floors # {}
      /\ cache = [f \in FloorIds |-> IF f \in Floors THEN Dto(f) ELSE None]
      /\ request = [c \in Requests |-> Idle] /\ last = [floor |-> Max(Floors), position |-> 0]
      /\ contested = FALSE /\ torn = FALSE /\ moved = {}
  BY DEF Init
<1>2. PICK p \in [stored -> (Floors \X Cells) \cup {None}] :
       /\ \A q, r \in stored : p[q] = p[r] => q = r \/ p[q] = None
       /\ positions = {[id |-> 0, printer |-> q, floor |-> p[q][1], at |-> p[q][2]] :
                         q \in {r \in stored : p[r] # None}}
  BY DEF Init
<1>3. PICK S : S = {r \in stored : p[r] # None}
  OBVIOUS
<1>4. \A q \in S : q \in stored /\ p[q] \in Floors \X Cells /\ p[q] = <<p[q][1], p[q][2]>>
                   /\ p[q][1] \in Floors /\ p[q][2] \in Cells
  BY <1>2, <1>3
<1>5. \A q \in positions : \E s \in S : q = [id |-> 0, printer |-> s, floor |-> p[s][1], at |-> p[s][2]]
  BY <1>2, <1>3
<1>6. IsFiniteSet(positions)
  <2>1. IsFiniteSet(S)
    BY <1>1, <1>3, FloorsAssumption, FS_Subset
  <2>2. PICK g : g = [q \in S |-> [id |-> 0, printer |-> q, floor |-> p[q][1], at |-> p[q][2]]]
    OBVIOUS
  <2>3. positions = {[id |-> 0, printer |-> q, floor |-> p[q][1], at |-> p[q][2]] : q \in S}
    BY <1>2, <1>3
  <2>4. g \in Surjection(S, positions)
    BY <2>2, <2>3 DEF Surjection
  <2> QED BY <2>1, <2>4, FS_Surjection
<1>7. \A q \in positions : q.floor \in Floors /\ q.printer \in stored /\ q.at \in Cells
  <2> SUFFICES ASSUME NEW q \in positions PROVE q.floor \in Floors /\ q.printer \in stored /\ q.at \in Cells
    OBVIOUS
  <2>1. PICK s \in S : q = [id |-> 0, printer |-> s, floor |-> p[s][1], at |-> p[s][2]]
    BY <1>5
  <2> QED BY <1>4, <2>1
<1>8. ASSUME NEW q \in positions, NEW r \in positions, q.printer = r.printer \/ (q.floor = r.floor /\ q.at = r.at)
      PROVE  q = r
  <2>1. PICK s \in S : q = [id |-> 0, printer |-> s, floor |-> p[s][1], at |-> p[s][2]]
    BY <1>5
  <2>2. PICK t \in S : r = [id |-> 0, printer |-> t, floor |-> p[t][1], at |-> p[t][2]]
    BY <1>5
  <2>3. s = t
    <3>1. CASE q.printer = r.printer
      BY <2>1, <2>2, <3>1
    <3>2. CASE q.floor = r.floor /\ q.at = r.at
      <4>1. p[s] = p[t]
        BY <1>4, <2>1, <2>2, <3>2
      <4> QED BY <1>2, <1>3, <4>1
    <3> QED BY <1>8, <3>1, <3>2
  <2> QED BY <2>1, <2>2, <2>3
<1>9. DOMAIN last = {"floor", "position"} /\ last.floor \in 1..MaxFloor /\ Floors \subseteq 1..last.floor
  <2>1. Floors \subseteq FloorIds /\ FloorIds \subseteq Nat
    BY DEF Floors, FloorIds
  <2>2. Max(Floors) \in Floors /\ \A f \in Floors : Max(Floors) >= f
    BY <1>1, <2>1, MaxIs
  <2>3. PICK m : m = Max(Floors)
    OBVIOUS
  <2>4. m \in FloorIds /\ \A f \in Floors : f \in FloorIds /\ m >= f
    BY <2>1, <2>2, <2>3
  <2>5. m \in 1..MaxFloor /\ Floors \subseteq 1..m
    <3>1. m \in 1..MaxFloor /\ \A f \in Floors : f \in 1..MaxFloor /\ m >= f
      BY <2>4 DEF FloorIds
    <3> HIDE DEF Floors
    <3> QED BY <3>1, FloorsAssumption
  <2> QED BY <1>1, <2>3, <2>5
<1>10. TablesInv
  BY <1>1, <1>6, <1>7, <1>8, <1>9 DEF TablesInv
<1>11. CacheInv /\ Shown
  <2>1. PICK loaded : loaded = cache
    OBVIOUS
  <2>2. /\ loaded \in [FloorIds -> FloorDtos \cup {None}]
        /\ \A f \in FloorIds :
             /\ level[f] # None <=> loaded[f] # None
             /\ level[f] # None =>
                  /\ loaded[f].level = level[f]
                  /\ \A s \in Places : s.floor = f => [printer |-> s.printer, at |-> s.at] \in loaded[f].places
                  /\ \A s \in loaded[f].places : PlaceOf(s, f) \in Places
    BY <1>1, <1>10, <2>1, LoadedShows
  <2> QED BY <2>1, <2>2 DEF CacheInv, Shown, ShowsAs
<1>12. DOMAIN request = Requests /\ \A c \in Requests : request[c] = Idle
  BY <1>1
<1>13. \A c \in Requests : Asked(request[c])
  BY <1>12, IdleIs
<1> HIDE DEF Alone, TablesInv, CacheInv, Asked, Shown
<1> QED BY <1>1, <1>10, <1>11, <1>12, <1>13 DEF FloorsInv

-----------------------------------------------------------------------------
(* Every step. *)

LEMMA StepKeeps ==
  ASSUME FloorsInv, NEW c \in Requests, RequestStep(c)
  PROVE  FloorsInv'
<1> HIDE DEF FloorsInv
<1> QED BY ReadDesiredKeeps, ReadCurrentKeeps, CheckFloorKeeps, FindPrinterKeeps, FindPositionKeeps,
           FindOnFloorKeeps, ReadBackKeeps, ListFloorsKeeps, QueryFailsKeeps, DeletePositionKeeps,
           CreatePositionKeeps, DropUndesiredKeeps, SaveFloorKeeps, InsertFloorKeeps, DeleteFloorKeeps,
           DeletePrinterKeeps, StoreFloorsKeeps DEF RequestStep

LEMMA StutterKeeps ==
  ASSUME FloorsInv, UNCHANGED vars
  PROVE  FloorsInv'
<1>1. /\ stored' = stored /\ level' = level /\ positions' = positions /\ cache' = cache /\ last' = last
      /\ contested' = contested /\ torn' = torn /\ moved' = moved /\ request' = request
  BY DEF vars
<1>2. Floors' = Floors /\ Places' = Places /\ (\A f : Dto(f)' = Dto(f)) /\ Dtos' = Dtos
  BY <1>1 DEF Floors, Places, Dto, Dtos
<1>3. TablesInv' /\ CacheInv'
  BY <1>1, <1>2 DEF FloorsInv, TablesInv, CacheInv
<1>4. /\ \A q : Others(q)' <=> Others(q)
      /\ \A q : Reads(q)' <=> Reads(q)
      /\ \A q : Behind(q)' <=> Behind(q)
      /\ Shown' <=> Shown
  <2>1. \A q : Others(q)' <=> Others(q)
    BY <1>1, <1>2 DEF Others
  <2>2. \A q : Reads(q)' <=> Reads(q)
    BY <1>1, <1>2 DEF Reads
  <2>3. \A q : Behind(q)' <=> Behind(q)
    BY <1>1, <1>2 DEF Behind, ShowsAs
  <2>4. Shown' <=> Shown
    BY <1>1, <1>2 DEF Shown, ShowsAs
  <2> QED BY <2>1, <2>2, <2>3, <2>4
<1>5. \A d \in Requests : Alone(request[d])' <=> Alone(request[d])
  BY <1>1, <1>4 DEF Alone
<1>6. \A d \in Requests : Asked(request[d])' <=> Asked(request[d])
  BY <1>1 DEF Asked
<1> HIDE DEF Alone, TablesInv, CacheInv, Asked, Shown
<1> QED BY <1>1, <1>3, <1>4, <1>5, <1>6 DEF FloorsInv

LEMMA NextKeeps ==
  ASSUME FloorsInv, [Next]_vars
  PROVE  FloorsInv'
<1> HIDE DEF FloorsInv
<1> QED BY StutterKeeps, RestartKeeps, ArrivalKeeps, StepKeeps DEF Next

THEOREM InvariantHolds == Spec => []FloorsInv
<1>1. Init => FloorsInv
  BY InitHolds
<1>2. FloorsInv /\ [Next]_vars => FloorsInv'
  BY NextKeeps
<1> HIDE DEF FloorsInv
<1> QED BY <1>1, <1>2, PTL DEF Spec

-----------------------------------------------------------------------------
(* What follows. *)

\* The tables hold what their columns and foreign keys allow, and the store shows levels,
\* printers and cells.
THEOREM TypeCorrect == Spec => []TypeOK
<1>1. FloorsInv => TypeOK
  <2> SUFFICES ASSUME FloorsInv PROVE TypeOK
    OBVIOUS
  <2>1. \A f \in FloorIds : cache[f] # None => cache[f].level \in Levels /\ cache[f].places \subseteq [printer : Printers, at : Cells]
    BY DEF FloorsInv, CacheInv, FloorDtos, Spots
  <2> QED BY <2>1 DEF FloorsInv, TablesInv, TypeOK
<1> HIDE DEF FloorsInv
<1> QED BY <1>1, InvariantHolds, PTL

\* While requests do not overlap the store shows every floor at its level and every printer at
\* its place, and whatever overlaps, no floor it shows has two printers in a place.
THEOREM FloorsShown == Spec => []FloorsAreAsShown
<1>1. ASSUME FloorsInv PROVE CacheShowsPlaces
  <2> SUFFICES ASSUME ~contested, ~torn, \A c \in Requests : request[c] = Idle, NEW f \in FloorIds
               PROVE  /\ f \in Floors <=> cache[f] # None
                      /\ f \in Floors =>
                           /\ cache[f].level = level[f]
                           /\ Dto(f).places \subseteq cache[f].places
                           /\ \A s \in cache[f].places \ Dto(f).places : s.printer \in moved \cap stored
    BY DEF CacheShowsPlaces
  <2>1. ShowsAs(f, level, Places) /\ CacheInv
    BY <1>1 DEF FloorsInv, Shown
  <2>2. f \in Floors <=> level[f] # None
    BY DEF Floors
  <2>3. ASSUME f \in Floors, NEW s \in Dto(f).places PROVE s \in cache[f].places
    <3>1. PlaceOf(s, f) \in Places /\ s = [printer |-> s.printer, at |-> s.at]
      BY <2>3, PlacesAre
    <3>2. PlaceOf(s, f).floor = f /\ PlaceOf(s, f).printer = s.printer /\ PlaceOf(s, f).at = s.at
      BY DEF PlaceOf
    <3> QED BY <2>1, <2>2, <2>3, <3>1, <3>2 DEF ShowsAs
  <2>4. ASSUME f \in Floors, NEW s \in cache[f].places, s \notin Dto(f).places
        PROVE  s.printer \in moved \cap stored
    <3>1. s = [printer |-> s.printer, at |-> s.at]
      BY <2>1, <2>2, <2>4 DEF ShowsAs, CacheInv, FloorDtos, Spots
    <3>2. PlaceOf(s, f).floor = f /\ PlaceOf(s, f).printer = s.printer /\ PlaceOf(s, f).at = s.at
      BY DEF PlaceOf
    <3>3. PlaceOf(s, f) \notin Places
      BY <2>4, <3>1, <3>2, PlacesAre
    <3> QED BY <2>1, <2>2, <2>4, <3>3 DEF ShowsAs
  <2> QED BY <2>1, <2>2, <2>3, <2>4 DEF ShowsAs
<1>2. FloorsInv => CachedFloorsAreConsistent
  BY DEF FloorsInv, CacheInv, FloorDtos, Consistent, CachedFloorsAreConsistent
<1> HIDE DEF FloorsInv
<1> QED BY <1>1, <1>2, InvariantHolds, PTL DEF FloorsAreAsShown

\* A request that comes in tears nothing.
LEMMA ArrivalTearsNothing ==
  ASSUME NEW c, RequestArrives(c)
  PROVE  torn' = torn
<1>1. \A r : Begin(c, r) => torn' = torn
  BY DEF Begin
<1> HIDE DEF Begin
<1> QED BY <1>1 DEF RequestArrives, AddOrUpdatePrinter, RemovePrinter, UpdateName, UpdateLevel,
                    CreateFloor,
                    DeleteFloor, GetFloor, ListCache, DeletePrinter

\* A renaming that nothing overlaps can always put back what it has taken away.
LEMMA PutsBack ==
  ASSUME FloorsInv, NEW c \in Requests, RequestStep(c), ~contested, request[c].op = "update",
         request[c].step \in {"look", "put"}
  PROVE  torn' = torn
<1>0. PICK req : req = request[c]
  OBVIOUS
<1>1. Asked(req) /\ Others(req) /\ Reads(req) /\ TablesInv
  BY <1>0, RequestIs DEF FloorsInv, Alone
<1>2. FindPosition(c) \/ CreatePosition(c)
  BY DEF RequestStep, ReadDesired, ReadCurrent, CheckFloor, FindPrinterPosition,
     FindPrinterPositionOnFloor,
         ReadBack, ListFloors, QueryFails, DeletePosition, DropUndesired, SaveFloor, InsertFloor, DeleteFloorRow,
         DeletePrinterRow, StoreFloors, At
<1>3. CASE FindPosition(c)
  BY <1>3 DEF FindPosition, Query
<1>4. CASE CreatePosition(c)
  <2>1. PICK p : p = [id |-> last.position + 1, printer |-> Head(req.todo).printer, floor |-> req.floor, at |-> Head(req.todo).at]
    OBVIOUS
  <2>2. req.step = "put" /\ (Allowed(p) => torn' = torn)
    BY <1>0, <1>4, <2>1 DEF CreatePosition, Write, At, Floor, Target
  <2>3. PICK t : t = PlaceOf(Head(req.todo), req.floor)
    OBVIOUS
  <2>4. /\ t \in req.start.places /\ Places = req.start.places \ {t}
        /\ \A s \in req.start.places : s.printer \in stored
        /\ \A s, x \in req.start.places : s.printer = x.printer \/ (s.floor = x.floor /\ s.at = x.at) => s = x
    BY <1>0, <1>1, <2>2, <2>3, TailIs DEF Asked, Others, Placing
  <2>5. p.printer = t.printer /\ p.floor = t.floor /\ p.at = t.at /\ t.floor = req.floor
    BY <2>1, <2>3 DEF PlaceOf
  <2>6. p.floor \in Floors /\ p.printer \in stored
    BY <1>1, <2>2, <2>4, <2>5 DEF Reads, Placing
  <2>7. ASSUME NEW r \in positions PROVE r.printer # p.printer /\ <<r.floor, r.at>> # <<p.floor, p.at>>
    <3>1. PICK s : s = [printer |-> r.printer, floor |-> r.floor, at |-> r.at]
      OBVIOUS
    <3>2. s \in req.start.places /\ s # t
      BY <2>4, <3>1, PlacesAre
    <3> QED BY <2>4, <2>5, <3>1, <3>2
  <2> QED BY <2>2, <2>6, <2>7 DEF Allowed
<1> QED BY <1>2, <1>3, <1>4

\* A request that nothing overlaps moves no printer but the one it names, the one at the place it
\* names, and those of a floor it deletes: renaming a floor moves none.
THEOREM OthersKeep == Spec => OthersKeepTheirPlaces
<1>1. ASSUME FloorsInv, [Next]_vars, NEW c \in Requests, Ends(c), ~contested, ~contested',
             NEW s \in request[c].start.places
      PROVE  Concerns(c, s) \/ s \in Places
  <2>0. PICK req : req = request[c]
    OBVIOUS
  <2>1. /\ req # Idle /\ Asked(req) /\ Others(req)
        /\ req.step \in {"publish", "publishAll", "forget"} \/ (torn' /\ ~torn)
        /\ \A d \in Requests \ {c} : request[d] = Idle
    BY <1>1, <2>0, RequestIs DEF Ends, FloorsInv, Alone
  <2>2. Concerned(req, s) => Concerns(c, s)
    BY <2>0 DEF Concerned, Concerns, Floor
  <2>3. CASE req.op # "update"
    BY <1>1, <2>0, <2>1, <2>2, <2>3 DEF Others
  <2>4. CASE req.op = "update" /\ req.step \notin {"look", "put"}
    BY <1>1, <2>0, <2>1, <2>4 DEF Others
  <2>5. CASE req.op = "update" /\ req.step \in {"look", "put"}
    <3>1. torn' /\ ~torn
      BY <2>1, <2>5
    <3>2. torn' # torn /\ ~Restart /\ ~UNCHANGED vars
      BY <3>1 DEF Restart, vars
    <3>3. PICK d \in Requests : RequestArrives(d) \/ RequestStep(d)
      BY <1>1, <3>2 DEF Next
    <3>4. RequestStep(d)
      BY <3>2, <3>3, ArrivalTearsNothing
    <3>5. request[d].step # "idle"
      BY <3>4 DEF RequestStep, ReadDesired, ReadCurrent, CheckFloor, FindPrinterPosition, FindPosition,
         FindPrinterPositionOnFloor, ReadBack, ListFloors, QueryFails, DeletePosition, CreatePosition, DropUndesired,
         SaveFloor, InsertFloor, DeleteFloorRow, DeletePrinterRow, StoreFloors, At
    <3>6. d = c
      BY <2>1, <3>5, IdleIs
    <3> HIDE DEF FloorsInv
    <3> QED BY <1>1, <2>0, <2>5, <3>2, <3>4, <3>6, PutsBack
  <2> QED BY <2>3, <2>4, <2>5
<1>2. FloorsInv /\ [Next]_vars =>
        [\A c \in Requests :
           Ends(c) /\ ~contested /\ ~contested' =>
             \A s \in request[c].start.places : Concerns(c, s) \/ s \in Places]_vars
  BY <1>1
<1> HIDE DEF FloorsInv
<1> QED BY <1>2, InvariantHolds, PTL DEF Spec, OthersKeepTheirPlaces

=============================================================================
