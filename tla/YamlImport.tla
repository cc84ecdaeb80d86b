----------------------------- MODULE YamlImport -----------------------------
(***************************************************************************)
(* YamlService.importPrintersAndFloors: an earlier export of printers,     *)
(* floors and groups is merged by name into the database, one awaited row  *)
(* after the other and without a transaction, while others change the same *)
(* rows.  Ids of the export are mapped to the ids the rows get here.       *)
(***************************************************************************)
EXTENDS Functions, Integers

CONSTANTS
  Exports,     \* the files to import: tables as a server held them
  Databases,   \* what the importing server may hold
  MaxRowId     \* bound on the ids of every table

VARIABLES
  yaml,             \* the file
  db,               \* its tables: printers by id, floors and groups with their printers
  importing,        \* the import in progress
  importDisturbed   \* history: others changed the tables meanwhile, or a row failed

yamlVars == <<yaml, db, importing, importDisturbed>>

\* A table of nothing, ids to rows.
NoRows == [i \in {} |-> <<>>]
Ids == 1..MaxRowId
IsTable(table) == DOMAIN table \subseteq Ids /\ table = [i \in DOMAIN table |-> table[i]]
HasTables(tables) ==
  /\ tables = [printers |-> tables.printers, floors |-> tables.floors, groups |-> tables.groups]
  /\ \A t \in {tables.printers, tables.floors, tables.groups} : IsTable(t)
  /\ \A i \in DOMAIN tables.printers : tables.printers[i] = [name |-> tables.printers[i].name]
  /\ \A t \in {tables.floors, tables.groups} : \A i \in DOMAIN t :
       t[i] = [name |-> t[i].name, printers |-> t[i].printers]

\* The printers of floors and groups are there, and none is on two floors.
WellFormed(tables) ==
  /\ HasTables(tables)
  /\ \A t \in {tables.floors, tables.groups} : \A i \in DOMAIN t :
       t[i].printers \subseteq DOMAIN tables.printers
  /\ \A f, g \in DOMAIN tables.floors :
       f # g => tables.floors[f].printers \cap tables.floors[g].printers = {}

NoImport == [at |-> "idle"]

YamlTypeOK ==
  /\ WellFormed(yaml) /\ WellFormed(db)
  /\ importing = NoImport \/ Range(importing.printerIdMap) \subseteq Ids

YamlInit ==
  /\ yaml \in Exports /\ db \in Databases
  /\ importing = NoImport /\ importDisturbed = FALSE

NameOf(row) == row.name
\* The id of the row of a table that has a name: findIndex takes the first.
Named(table, name) == {i \in DOMAIN table : NameOf(table[i]) = name}
First(ids) == CHOOSE i \in ids : \A j \in ids : i <= j
NewId(table) == CHOOSE i \in Ids : i \notin DOMAIN table /\ \A j \in DOMAIN table : j < i
HasRoom(table) == \E i \in Ids : \A j \in DOMAIN table : j < i
Put(table, i, row) == [j \in DOMAIN table \cup {i} |-> IF j = i THEN row ELSE table[j]]

-----------------------------------------------------------------------------
(* The analysis: what is inserted, and what is updated as which row *)

NoUpserts == [insert |-> {}, update |-> NoRows]
Upserts(imported, table) ==
  LET known == {i \in DOMAIN imported : Named(table, NameOf(imported[i])) # {}}
  IN  [insert |-> DOMAIN imported \ known,
       update |-> [i \in known |-> First(Named(table, NameOf(imported[i])))]]

\* The loop over the groups ends at the first one that exists: those after it are lost.
GroupUpserts(imported, table) ==
  LET all == Upserts(imported, table)
      first == First(DOMAIN all.update)
  IN  IF DOMAIN all.update = {} THEN all
      ELSE [insert |-> {i \in all.insert : i < first},
            update |-> [i \in {first} |-> all.update[i]]]

\* Bound: no import follows one that was disturbed.
StartImport ==
  /\ importing = NoImport /\ ~importDisturbed
  /\ importing' = [at |-> "printers", printers |-> Upserts(yaml.printers, db.printers),
                   floors |-> NoUpserts, groups |-> NoUpserts, printerIdMap |-> NoRows,
                   group |-> 0, remove |-> {}, add |-> {}, before |-> db]
  /\ UNCHANGED <<yaml, db, importDisturbed>>

AnalyseFloors ==
  /\ importing.at = "printers"
  /\ importing' = [importing EXCEPT !.at = "floors", !.floors = Upserts(yaml.floors, db.floors)]
  /\ UNCHANGED <<yaml, db, importDisturbed>>

AnalyseGroups ==
  /\ importing.at = "floors"
  /\ importing' = [importing EXCEPT !.at = "write", !.groups = GroupUpserts(yaml.groups, db.groups)]
  /\ UNCHANGED <<yaml, db, importDisturbed>>

-----------------------------------------------------------------------------
(* The writes, in the order of the code *)

Writing(part) ==
  /\ importing.at = "write" /\ importing.group = 0
  /\ part \in {"floors", "groups"} =>
       importing.printers.insert = {} /\ importing.printers.update = NoRows
  /\ part = "groups" => importing.floors.insert = {} /\ importing.floors.update = NoRows

\* The loops go by the order of the file, the inserts before the updates.
Upcoming(part, how, i) ==
  LET todo == importing[part]
  IN  IF todo.insert # {} THEN how = "insert" /\ i = First(todo.insert)
      ELSE how = "update" /\ i \in DOMAIN todo.update /\ i = First(DOMAIN todo.update)
Inserted(part, i) == [importing EXCEPT ![part].insert = @ \ {i}]
UpdatedRow(part, i) == [importing EXCEPT ![part].update = Restrict(@, DOMAIN @ \ {i})]

InsertPrinter(i) ==
  /\ Writing("printers") /\ Upcoming("printers", "insert", i) /\ HasRoom(db.printers)
  /\ db' = [db EXCEPT !.printers = Put(@, NewId(@), yaml.printers[i])]
  /\ importing' = [Inserted("printers", i) EXCEPT !.printerIdMap = Put(@, i, NewId(db.printers))]
  /\ UNCHANGED <<yaml, importDisturbed>>

\* What the map gets of a printer that is updated.  With a slip: its old id.
MappedTo_Original(i) == i
MappedTo(i) == importing.printers.update[i]

UpdatePrinter(i) ==
  /\ Writing("printers") /\ Upcoming("printers", "update", i)
  /\ importing.printers.update[i] \in DOMAIN db.printers
  /\ db' = [db EXCEPT !.printers[importing.printers.update[i]] = yaml.printers[i]]
  /\ importing' = [UpdatedRow("printers", i) EXCEPT !.printerIdMap = Put(@, i, MappedTo(i))]
  /\ UNCHANGED <<yaml, importDisturbed>>

\* Positions and members of printers that were not mapped are dropped.
Mapped(printers) ==
  {importing.printerIdMap[p] : p \in printers \cap DOMAIN importing.printerIdMap}

\* FloorStore.create or update, position by position (see Floors): a printer that is placed
\* leaves the floor it was on.
PlaceOn(floors, i, name, printers) ==
  Put([f \in DOMAIN floors |-> [floors[f] EXCEPT !.printers = @ \ printers]], i,
      [name |-> name, printers |-> printers])

WriteFloor(part, i, id) ==
  /\ Mapped(yaml.floors[i].printers) \subseteq DOMAIN db.printers
  /\ db' = [db EXCEPT !.floors = PlaceOn(@, id, yaml.floors[i].name, Mapped(yaml.floors[i].printers))]
  /\ importing' = part /\ UNCHANGED <<yaml, importDisturbed>>

InsertFloor(i) ==
  /\ Writing("floors") /\ Upcoming("floors", "insert", i) /\ HasRoom(db.floors)
  /\ WriteFloor(Inserted("floors", i), i, NewId(db.floors))

UpdateFloor(i) ==
  /\ Writing("floors") /\ Upcoming("floors", "update", i)
  /\ importing.floors.update[i] \in DOMAIN db.floors
  /\ WriteFloor(UpdatedRow("floors", i), i, importing.floors.update[i])

CreateGroup(i) ==
  /\ Writing("groups") /\ Upcoming("groups", "insert", i) /\ HasRoom(db.groups)
  /\ db' = [db EXCEPT !.groups = Put(@, NewId(@), [name |-> yaml.groups[i].name, printers |-> {}])]
  /\ importing' = [Inserted("groups", i) EXCEPT
       !.group = NewId(db.groups), !.add = Mapped(yaml.groups[i].printers)]
  /\ UNCHANGED <<yaml, importDisturbed>>

\* The members the group has are compared with those it should have.
CompareGroup(i) ==
  LET id == importing.groups.update[i]
      wanted == Mapped(yaml.groups[i].printers)
  IN  /\ Writing("groups") /\ Upcoming("groups", "update", i)
      /\ id \in DOMAIN db.groups
      /\ importing' = [UpdatedRow("groups", i) EXCEPT !.group = id,
           !.remove = db.groups[id].printers \ wanted, !.add = wanted \ db.groups[id].printers]
      /\ UNCHANGED <<yaml, db, importDisturbed>>

RemovePrinterFromGroup(p) ==
  /\ importing.at = "write" /\ importing.group \in DOMAIN db.groups /\ p \in importing.remove
  /\ p = First(importing.remove)
  /\ db' = [db EXCEPT !.groups[importing.group].printers = @ \ {p}]
  /\ importing' = [importing EXCEPT !.remove = @ \ {p}]
  /\ UNCHANGED <<yaml, importDisturbed>>

AddPrinterToGroup(p) ==
  /\ importing.at = "write" /\ importing.group \in DOMAIN db.groups
  /\ importing.remove = {} /\ p \in importing.add \cap DOMAIN db.printers
  /\ p = First(importing.add)
  /\ db' = [db EXCEPT !.groups[importing.group].printers = @ \cup {p}]
  /\ importing' = [importing EXCEPT !.add = @ \ {p}]
  /\ UNCHANGED <<yaml, importDisturbed>>

GroupDone ==
  /\ importing.at = "write" /\ importing.group # 0 /\ importing.remove = {} /\ importing.add = {}
  /\ importing' = [importing EXCEPT !.group = 0] /\ UNCHANGED <<yaml, db, importDisturbed>>

ImportDone ==
  /\ Writing("groups") /\ importing.groups.insert = {} /\ importing.groups.update = NoRows
  /\ importing' = NoImport /\ UNCHANGED <<yaml, db, importDisturbed>>

\* A row is gone, a reference dangles, a constraint fails: what was written stays written.
ImportFails ==
  /\ importing # NoImport /\ importing.at = "write"
  /\ importing' = NoImport /\ importDisturbed' = TRUE /\ UNCHANGED <<yaml, db>>

-----------------------------------------------------------------------------
(* The others *)

\* Bound: one change by others during an import.
Disturb(tables) ==
  /\ importing # NoImport /\ ~importDisturbed
  /\ db' = tables /\ importDisturbed' = TRUE /\ UNCHANGED <<yaml, importing>>

\* Positions and memberships go with the printer, by their foreign keys.
Without(table, p) == [i \in DOMAIN table |-> [table[i] EXCEPT !.printers = @ \ {p}]]
DeletePrinterRow(p) ==
  Disturb([printers |-> Restrict(db.printers, DOMAIN db.printers \ {p}),
           floors |-> Without(db.floors, p), groups |-> Without(db.groups, p)])
DeleteGroup(g) == Disturb([db EXCEPT !.groups = Restrict(@, DOMAIN @ \ {g})])
DeleteFloor(f) == Disturb([db EXCEPT !.floors = Restrict(@, DOMAIN @ \ {f})])

YamlNext ==
  \/ StartImport \/ AnalyseFloors \/ AnalyseGroups
  \/ \E i \in Ids : InsertPrinter(i) \/ UpdatePrinter(i) \/ InsertFloor(i) \/ UpdateFloor(i)
                    \/ CreateGroup(i) \/ CompareGroup(i)
  \/ \E p \in Ids : RemovePrinterFromGroup(p) \/ AddPrinterToGroup(p)
  \/ GroupDone \/ ImportDone \/ ImportFails
  \/ \E p \in DOMAIN db.printers : DeletePrinterRow(p)
  \/ \E g \in DOMAIN db.groups : DeleteGroup(g)
  \/ \E f \in DOMAIN db.floors : DeleteFloor(f)

YamlSpec == YamlInit /\ [][YamlNext]_yamlVars

-----------------------------------------------------------------------------
(* Properties *)

NamesIn(table, ids) == {NameOf(table[i]) : i \in ids}
NamesOf(table) == NamesIn(table, DOMAIN table)
NamesDiffer(table) ==
  \A i, j \in DOMAIN table : NameOf(table[i]) = NameOf(table[j]) => i = j

\* A row of that name has these printers, by their names.
Restored(table, row) ==
  \E i \in DOMAIN table :
    /\ NameOf(table[i]) = NameOf(row)
    /\ NamesIn(db.printers, table[i].printers) = NamesIn(yaml.printers, row.printers)

\* An import that nobody disturbs, with names that tell the rows apart, adds no printer twice
\* and loses none; every imported floor, and every imported group up to the first one that was
\* there already, has the printers it was exported with, whatever ids they have now.
ImportRestores ==
  [][importing # NoImport /\ importing' = NoImport /\ ~importDisturbed'
     /\ (\A t \in {yaml.printers, yaml.floors, yaml.groups, importing.before.printers,
                   importing.before.floors, importing.before.groups} : NamesDiffer(t))
     => /\ NamesDiffer(db.printers)
        /\ NamesOf(db.printers) = NamesOf(importing.before.printers) \cup NamesOf(yaml.printers)
        /\ Restrict(db.printers, DOMAIN importing.before.printers) = importing.before.printers
        /\ \A f \in DOMAIN yaml.floors : Restored(db.floors, yaml.floors[f])
        /\ \A g \in DOMAIN yaml.groups :
             (\A h \in DOMAIN yaml.groups :
                h < g => NameOf(yaml.groups[h]) \notin NamesOf(importing.before.groups))
             => Restored(db.groups, yaml.groups[g])]_yamlVars

=============================================================================
