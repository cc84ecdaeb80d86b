----------------------------- MODULE Migrations -----------------------------
(***************************************************************************)
(* The schema of the SQLite database, as the TypeORM migrations make it    *)
(* and as the entities declare it.  A server runs the migrations it was    *)
(* released with when it connects; `typeorm:revert` undoes the last one.   *)
(* SQLite cannot alter a constraint: a migration copies the table to a new *)
(* one.  A table is its columns, by name, and its rules.                   *)
(***************************************************************************)
EXTENDS Naturals, FiniteSets

CONSTANT MaxRoleRows   \* bound: the highest id of a role

VARIABLES
  schema,     \* table -> [columns, rules]
  executed,   \* how many migrations are
  roleTable,  \* rows of role, id -> name
  userRoles   \* roleIds of the rows of user_role, of one user

schemaVars == <<schema, executed, roleTable, userRoles>>

RoleNames == {"ADMIN", "OPERATOR"}

-----------------------------------------------------------------------------
(* SQLite, on the tables s.  A statement that fails would leave a table of this name. *)

Add(s, t, table) == [u \in DOMAIN s \cup {t} |-> IF u = t THEN table ELSE s[u]]
Failed(s) == Add(s, "failed", [columns |-> {}, rules |-> {}])

Create(s, t, table) == IF t \in DOMAIN s THEN Failed(s) ELSE Add(s, t, table)
Drop(s, t) == IF t \in DOMAIN s THEN [u \in DOMAIN s \ {t} |-> s[u]] ELSE Failed(s)

\* The references of other tables to a table that is renamed follow it, those to one
\* that is dropped stay; foreign keys are off while migrations run.
Renamed(r, t, new) == IF "to" \in DOMAIN r /\ r.to = t THEN [r EXCEPT !.to = new] ELSE r
Rename(s, t, new) ==
  IF t \notin DOMAIN s \/ new \in DOMAIN s THEN Failed(s)
  ELSE [u \in (DOMAIN s \ {t}) \cup {new} |->
          LET old == s[IF u = new THEN t ELSE u]
          IN  [old EXCEPT !.rules = {Renamed(r, t, new) : r \in @}]]

Fk(column, to, onDelete) == [column |-> column, to |-> to, onDelete |-> onDelete]
Unique(columns) == [unique |-> columns]
Table(columns, rules) == [columns |-> columns, rules |-> rules]
IsFk(r) == "to" \in DOMAIN r

\* The names of the new tables, of the tables that are ever changed.
Temporary ==
  [print_completion |-> "temporary_print_completion", printer_file |-> "temporary_printer_file",
   floor_position |-> "temporary_floor_position", refresh_token |-> "temporary_refresh_token",
   user_role |-> "temporary_user_role", camera_stream |-> "temporary_camera_stream",
   printer_group |-> "temporary_printer_group", role |-> "temporary_role",
   printer |-> "temporary_printer"]

\* What the generated migrations do to change a table, up and down; the rows are copied.
Rebuild(s, t, table) ==
  Rename(Drop(Create(s, Temporary[t], table), t), Temporary[t], t)
Restore(s, t, table) ==
  Drop(Create(Rename(s, t, Temporary[t]), t, table), Temporary[t])

With(table, rules) == [table EXCEPT !.rules = @ \cup rules]
WithoutFks(table) == [table EXCEPT !.rules = {r \in @ : ~IsFk(r)}]

-----------------------------------------------------------------------------
(* InitSqlite. *)

FirstTables ==
  [print_completion |-> Table({"id", "fileName", "createdAt", "status", "printerId",
                               "printerReference", "completionLog", "context"}, {}),
   printer_file |-> Table({"id", "printerId", "name", "date", "display", "gcodeAnalysis",
                           "hash", "origin", "path", "prints", "refs", "size", "statistics",
                           "type", "typePath", "customData"}, {}),
   printer |-> Table({"id", "name", "printerURL", "apiKey", "enabled", "disabledReason",
                      "assignee", "dateAdded", "feedRate", "flowRate"}, {}),
   floor_position |-> Table({"id", "x", "y", "floorId", "printerId"},
                            {Unique({"x", "y", "floorId"}), Unique({"printerId"})}),
   floor |-> Table({"id", "name", "floor"}, {Unique({"floor"})}),
   settings |-> Table({"id", "server", "credentials", "wizard", "printerFileClean",
                       "frontend", "timeout"}, {}),
   refresh_token |-> Table({"id", "userId", "createdAt", "expiresAt", "refreshToken",
                            "refreshAttemptsUsed"}, {}),
   role |-> Table({"id", "name"}, {}),
   user_role |-> Table({"id", "roleId", "userId", "createdAt"}, {Unique({"roleId", "userId"})}),
   user |-> Table({"id", "username", "isDemoUser", "isRootUser", "isVerified",
                   "needsPasswordChange", "passwordHash", "createdAt"}, {}),
   permission |-> Table({"id", "name"}, {}),
   camera_stream |-> Table({"id", "streamURL", "name", "printerId", "aspectRatio",
                            "rotationClockwise", "flipHorizontal", "flipVertical"},
                           {Unique({"printerId"})}),
   custom_gcode |-> Table({"id", "name", "description", "gcode"}, {})]

AddKeys(s, t, keys) == Rebuild(s, t, With(s[t], keys))
DropKeys(s, t) == Restore(s, t, WithoutFks(s[t]))

CreateFirstTables(s) ==
  IF DOMAIN s \cap DOMAIN FirstTables # {} THEN Failed(s)
  ELSE [t \in DOMAIN s \cup DOMAIN FirstTables |->
          IF t \in DOMAIN FirstTables THEN FirstTables[t] ELSE s[t]]

\* SET NULL, on a column that is NOT NULL.
AddPrinterKeys(s) ==
  LET completion == AddKeys(s, "print_completion", {Fk("printerId", "printer", "SET NULL")})
      file == AddKeys(completion, "printer_file", {Fk("printerId", "printer", "CASCADE")})
  IN  AddKeys(file, "floor_position",
        {Fk("floorId", "floor", "CASCADE"), Fk("printerId", "printer", "CASCADE")})

AddOtherKeys(s) ==
  LET token == AddKeys(s, "refresh_token", {Fk("userId", "user", "CASCADE")})
      userRole == AddKeys(token, "user_role",
                    {Fk("roleId", "role", "CASCADE"), Fk("userId", "user", "CASCADE")})
  IN  AddKeys(userRole, "camera_stream", {Fk("printerId", "printer", "NO ACTION")})

UpInitSqlite(s) == AddOtherKeys(AddPrinterKeys(CreateFirstTables(s)))

DropOtherKeys(s) == DropKeys(DropKeys(DropKeys(s, "camera_stream"), "user_role"), "refresh_token")
DropPrinterKeys(s) ==
  DropKeys(DropKeys(DropKeys(s, "floor_position"), "printer_file"), "print_completion")
DropFirstTables(s) ==
  IF DOMAIN FirstTables \subseteq DOMAIN s
  THEN [t \in DOMAIN s \ DOMAIN FirstTables |-> s[t]] ELSE Failed(s)
DownInitSqlite(s) == DropFirstTables(DropPrinterKeys(DropOtherKeys(s)))

-----------------------------------------------------------------------------
(* The later ones. *)

PrinterGroupTable == Table({"id", "printerId", "groupId"}, {Unique({"printerId", "groupId"})})
UpPrinterGroup(s) ==
  LET made == Create(Create(s, "group", Table({"id", "name"}, {})), "printer_group", PrinterGroupTable)
  IN  Rebuild(made, "printer_group",
        With(PrinterGroupTable, {Fk("printerId", "printer", "CASCADE"), Fk("groupId", "group", "CASCADE")}))

\* With a slip: the groups stay.
DownPrinterGroup_KeepsGroup(s) == Drop(Restore(s, "printer_group", PrinterGroupTable), "printer_group")
DownPrinterGroup(s) ==
  Drop(Drop(Restore(s, "printer_group", PrinterGroupTable), "printer_group"), "group")

Completion(onDelete) ==
  With(FirstTables.print_completion, {Fk("printerId", "printer", onDelete)})
UpCompletionCascade(s) ==
  Rebuild(Rebuild(s, "print_completion", FirstTables.print_completion),
          "print_completion", Completion("CASCADE"))
DownCompletionCascade(s) ==
  Restore(Restore(s, "print_completion", FirstTables.print_completion),
          "print_completion", Completion("SET NULL"))

NamedOnce == With(FirstTables.role, {Unique({"name"})})
UpRoleNameUnique(s) == Rebuild(Rebuild(s, "role", FirstTables.role), "role", NamedOnce)
DownRoleNameUnique(s) ==
  Restore(Restore(s, "role", FirstTables.role), "role", FirstTables.role)

\* Of the roles of one name the first stays.
Deduplicated(rows) ==
  LET first == {i \in DOMAIN rows : \A j \in DOMAIN rows : rows[j] = rows[i] => i <= j}
  IN  [i \in first |-> rows[i]]

TypedPrinter == [FirstTables.printer EXCEPT !.columns = @ \cup {"printerType"}]
UpPrinterType(s) ==
  Rebuild(Rebuild(Rebuild(s, "role", NamedOnce), "printer", TypedPrinter), "role", NamedOnce)
DownPrinterType(s) ==
  Restore(Restore(Restore(s, "role", NamedOnce), "printer", FirstTables.printer), "role", NamedOnce)

UpRemovePrinterFile(s) == Drop(s, "printer_file")
DownRemovePrinterFile(s) ==
  Create(s, "printer_file", With(FirstTables.printer_file, {Fk("printerId", "printer", "CASCADE")}))

-----------------------------------------------------------------------------
(* TypeormService runs them in the order of their timestamps. *)

LastMigration == 6

Up(s, n) ==
  CASE n = 1 -> UpInitSqlite(s)        [] n = 2 -> UpPrinterGroup(s)
    [] n = 3 -> UpCompletionCascade(s) [] n = 4 -> UpRoleNameUnique(s)
    [] n = 5 -> UpPrinterType(s)       [] n = 6 -> UpRemovePrinterFile(s)
Down(s, n) ==
  CASE n = 1 -> DownInitSqlite(s)        [] n = 2 -> DownPrinterGroup(s)
    [] n = 3 -> DownCompletionCascade(s) [] n = 4 -> DownRoleNameUnique(s)
    [] n = 5 -> DownPrinterType(s)       [] n = 6 -> DownRemovePrinterFile(s)

SchemaInit ==
  /\ schema = [t \in {} |-> Table({}, {})] /\ executed = 0
  /\ roleTable = [i \in {} |-> "ADMIN"] /\ userRoles = {}

\* createConnection of a server that was released with the first `release` migrations;
\* all that are pending run in one transaction, one after the other.
RunMigrations(release) ==
  /\ release > executed
  /\ LET after[n \in executed..release] == IF n = executed THEN schema ELSE Up(after[n - 1], n)
     IN  schema' = after[release]
  /\ roleTable' = IF executed < 4 /\ release >= 4 THEN Deduplicated(roleTable) ELSE roleTable
  /\ executed' = release
  /\ UNCHANGED userRoles

RevertLast ==
  /\ executed > 0
  /\ schema' = Down(schema, executed)
  /\ executed' = executed - 1
  /\ roleTable' = IF executed = 1 THEN [i \in {} |-> "ADMIN"] ELSE roleTable
  /\ userRoles' = IF executed = 1 THEN {} ELSE userRoles

\* syncRoles stores a role, with the next id.
StoreRole(id, name) ==
  /\ "role" \in DOMAIN schema
  /\ id = 1 + Cardinality({i \in 1..MaxRoleRows : \E j \in DOMAIN roleTable : i <= j})
  /\ Unique({"name"}) \in schema["role"].rules => \A i \in DOMAIN roleTable : roleTable[i] # name
  /\ roleTable' = Add(roleTable, id, name)
  /\ UNCHANGED <<schema, executed, userRoles>>

\* A role that is stored is given to the user, if the reference still points at roles.
GiveRole(id) ==
  /\ "user_role" \in DOMAIN schema
  /\ Fk("roleId", "role", "CASCADE") \in schema["user_role"].rules
  /\ id \in DOMAIN roleTable
  /\ userRoles' = userRoles \cup {id}
  /\ UNCHANGED <<schema, executed, roleTable>>

SchemaNext ==
  \/ \E release \in 1..LastMigration : RunMigrations(release)
  \/ RevertLast
  \/ \E id \in 1..MaxRoleRows : GiveRole(id) \/ \E name \in RoleNames : StoreRole(id, name)

SchemaSpec == SchemaInit /\ [][SchemaNext]_schemaVars

-----------------------------------------------------------------------------
(* What the entities declare. *)

PrinterEntity ==
  Table({"id", "name", "printerURL", "printerType", "apiKey", "enabled", "disabledReason",
         "assignee", "dateAdded", "feedRate", "flowRate"}, {})
FloorEntity == Table({"id", "name", "floor"}, {Unique({"floor"})})
FloorPositionEntity ==
  Table({"id", "x", "y", "floorId", "printerId"},
        {Unique({"x", "y", "floorId"}), Unique({"printerId"}),
         Fk("floorId", "floor", "CASCADE"), Fk("printerId", "printer", "CASCADE")})
GroupEntity == Table({"id", "name"}, {})
PrinterGroupEntity ==
  Table({"id", "printerId", "groupId"},
        {Unique({"printerId", "groupId"}),
         Fk("printerId", "printer", "CASCADE"), Fk("groupId", "group", "CASCADE")})
CameraStreamEntity ==
  Table({"id", "streamURL", "name", "printerId", "aspectRatio", "rotationClockwise",
         "flipHorizontal", "flipVertical"},
        {Unique({"printerId"}), Fk("printerId", "printer", "NO ACTION")})
PrintCompletionEntity ==
  Table({"id", "fileName", "createdAt", "status", "printerId", "printerReference",
         "completionLog", "context"}, {Fk("printerId", "printer", "CASCADE")})
CustomGcodeEntity == Table({"id", "name", "description", "gcode"}, {})
SettingsEntity ==
  Table({"id", "server", "credentials", "wizard", "printerFileClean", "frontend", "timeout"}, {})
UserEntity ==
  Table({"id", "username", "isDemoUser", "isRootUser", "isVerified", "needsPasswordChange",
         "passwordHash", "createdAt"}, {})
RoleEntity == Table({"id", "name"}, {Unique({"name"})})
UserRoleEntity ==
  Table({"id", "roleId", "userId", "createdAt"},
        {Unique({"roleId", "userId"}), Fk("roleId", "role", "CASCADE"), Fk("userId", "user", "CASCADE")})
PermissionEntity == Table({"id", "name"}, {})
RefreshTokenEntity ==
  Table({"id", "userId", "createdAt", "expiresAt", "refreshToken", "refreshAttemptsUsed"},
        {Fk("userId", "user", "CASCADE")})

Entities ==
  [floor |-> FloorEntity, floor_position |-> FloorPositionEntity, printer |-> PrinterEntity,
   settings |-> SettingsEntity, user |-> UserEntity, camera_stream |-> CameraStreamEntity,
   custom_gcode |-> CustomGcodeEntity, role |-> RoleEntity, permission |-> PermissionEntity,
   refresh_token |-> RefreshTokenEntity, print_completion |-> PrintCompletionEntity,
   user_role |-> UserRoleEntity, group |-> GroupEntity, printer_group |-> PrinterGroupEntity]

-----------------------------------------------------------------------------
(* Properties. *)

SchemaTypeOK ==
  /\ executed \in 0..LastMigration
  /\ DOMAIN roleTable \subseteq 1..MaxRoleRows /\ userRoles \subseteq 1..MaxRoleRows

\* However often migrations were reverted and run again, in whatever steps of release: a
\* server of the last release finds the tables that its entities declare, with every
\* foreign key pointing at a table that is there, and each role once.  No statement
\* failed, no copy of a table stays, and reverting everything leaves nothing.
SchemaAsDeclared ==
  /\ executed = LastMigration =>
       /\ schema = Entities
       /\ \A i, j \in DOMAIN roleTable : roleTable[i] = roleTable[j] => i = j
  /\ executed = 0 => DOMAIN schema = {}
  /\ DOMAIN schema \subseteq DOMAIN Entities \cup {"printer_file"}

=============================================================================
