------------------------------ MODULE Settings ------------------------------
(***************************************************************************)
(* SettingsStore with its two services: one row of settings, its copy in   *)
(* memory, and requests that change a part of it.  On sqlite a patch reads *)
(* the row for the section it merges into, reads it again for the entity   *)
(* it puts that section in, and writes the entity back, all of it.  On     *)
(* MongoDB it reads the document, writes it back as the migration leaves   *)
(* it, and writes what came back with the patch.  (The sections wizard and *)
(* credentials are patched as server is, frontend is set as timeout is:    *)
(* one of each kind is here.)                                              *)
(***************************************************************************)
EXTENDS FiniteSets

CONSTANT SettingsRequests  \* requests running side by side

VARIABLES
  settingsDb, \* "sqlite" or "mongo"
  row,        \* the row of settings, or NotLoaded before it is created; every field a switch
  settings,   \* SettingsStore.settings, or NotLoaded
  patching,   \* where each request is, with what it read
  sentryEnabled,     \* the Sentry client sends what it catches
  patchesOverlapped  \* history

settingsVars == <<settingsDb, row, settings, patching, sentryEnabled, patchesOverlapped>>

Sections == {{"loginRequired", "sentry"}, {"beforeUpload", "atBoot"}, {"timeout"}}
Fields == UNION Sections
Entities == [Fields -> BOOLEAN]
NotLoaded == [f \in {} |-> TRUE]
NoPatch == [at |-> "idle"]

SettingsTypeOK ==
  /\ settingsDb \in {"sqlite", "mongo"}
  /\ row \in Entities \cup {NotLoaded} /\ settings \in Entities \cup {NotLoaded}
  /\ sentryEnabled \in BOOLEAN /\ patchesOverlapped \in BOOLEAN
  /\ \A r \in SettingsRequests :
        /\ patching[r].at \in {"idle", "patch", "update", "write", "assign", "find", "migrate", "found"}
        /\ patching[r].at \in {"write", "assign", "migrate", "found"} => patching[r].entity \in Entities

\* A new installation.  setupSentry: until the settings are loaded Sentry is on.
SettingsInit ==
  /\ settingsDb \in {"sqlite", "mongo"}
  /\ row = NotLoaded /\ settings = NotLoaded /\ sentryEnabled = TRUE
  /\ patching = [r \in SettingsRequests |-> NoPatch] /\ patchesOverlapped = FALSE

DefaultSettings == [f \in Fields |-> f = "loginRequired"]

\* migrateSettingsRuntime, of every row read; atBoot is copied from the wrong field.
Migrated(entity) == [entity EXCEPT !["atBoot"] = entity["beforeUpload"]]

\* getOrCreate, and then processSentryEnabled.
GetOrCreate == IF row = NotLoaded THEN DefaultSettings ELSE Migrated(row)
ProcessSentryEnabled(entity) == sentryEnabled' = entity["sentry"]

LoadSettings ==
  /\ settings = NotLoaded /\ settings' = GetOrCreate /\ ProcessSentryEnabled(settings')
  /\ row' = IF row = NotLoaded \/ settingsDb = "mongo" THEN GetOrCreate ELSE row
  /\ UNCHANGED <<settingsDb, patching, patchesOverlapped>>

\* One field is patched, or the timeout section set: sqlite does not read that one first.
\* Bounds: two overlapping patches are followed to their end, no third one starts; a value is
\* another than the stored one.
StartPatch(r, f, value) ==
  /\ settings # NotLoaded /\ patching[r] = NoPatch /\ ~patchesOverlapped /\ value # row[f]
  /\ patching' = [patching EXCEPT ![r] =
       [at |-> IF settingsDb = "mongo" THEN "find" ELSE IF f = "timeout" THEN "update" ELSE "patch",
        field |-> f, patch |-> [x \in {f} |-> value], entity |-> NotLoaded, before |-> row]]
  /\ patchesOverlapped' = (patchesOverlapped \/ \E o \in SettingsRequests : patching[o] # NoPatch)
  /\ UNCHANGED <<settingsDb, row, settings, sentryEnabled>>

\* The section of the patch p in entity, with the patch.  With a slip: without the rest.
MergedSection_PatchOnly(entity, p) ==
  [f \in CHOOSE s \in Sections : DOMAIN p \subseteq s |-> f \in DOMAIN p /\ p[f]]
MergedSection(entity, p) ==
  [f \in CHOOSE s \in Sections : DOMAIN p \subseteq s |-> IF f \in DOMAIN p THEN p[f] ELSE entity[f]]

\* Object.assign of a patch to an entity.
Assigned(entity, p) == [f \in Fields |-> IF f \in DOMAIN p THEN p[f] ELSE entity[f]]

Goes(r, req) == patching' = [patching EXCEPT ![r] = req]

ReadSection(r) ==
  LET req == patching[r]
  IN  /\ req.at = "patch"
      /\ Goes(r, [req EXCEPT !.at = "update", !.patch = MergedSection(GetOrCreate, req.patch)])
      /\ UNCHANGED <<settingsDb, row, settings, sentryEnabled, patchesOverlapped>>

ReadEntity(r) ==
  LET req == patching[r]
  IN  /\ req.at = "update"
      /\ Goes(r, [req EXCEPT !.at = "write", !.entity = Assigned(GetOrCreate, req.patch)])
      /\ UNCHANGED <<settingsDb, row, settings, sentryEnabled, patchesOverlapped>>

WriteEntity(r) ==
  /\ patching[r].at = "write"
  /\ row' = patching[r].entity /\ Goes(r, [patching[r] EXCEPT !.at = "assign"])
  /\ UNCHANGED <<settingsDb, settings, sentryEnabled, patchesOverlapped>>

\* MongoDB: findOne, and findOneAndUpdate twice, which gives back what is stored then.
FindSettings(r) ==
  /\ patching[r].at = "find"
  /\ Goes(r, [patching[r] EXCEPT !.at = "migrate", !.entity = Migrated(row)])
  /\ UNCHANGED <<settingsDb, row, settings, sentryEnabled, patchesOverlapped>>

StoreMigrated(r) ==
  /\ patching[r].at = "migrate"
  /\ row' = patching[r].entity /\ Goes(r, [patching[r] EXCEPT !.at = "found"])
  /\ UNCHANGED <<settingsDb, settings, sentryEnabled, patchesOverlapped>>

StorePatched(r) ==
  LET req == patching[r]
      patched == Assigned(req.entity, MergedSection(req.entity, req.patch))
  IN  /\ req.at = "found"
      /\ row' = patched /\ Goes(r, [req EXCEPT !.at = "assign", !.entity = patched])
      /\ UNCHANGED <<settingsDb, settings, sentryEnabled, patchesOverlapped>>

AssignSettings(r) ==
  /\ patching[r].at = "assign"
  /\ settings' = patching[r].entity /\ Goes(r, NoPatch)
  /\ IF patching[r].field = "sentry" THEN ProcessSentryEnabled(settings') ELSE UNCHANGED sentryEnabled
  /\ UNCHANGED <<settingsDb, row, patchesOverlapped>>

RestartSettings ==
  /\ ~patchesOverlapped /\ settings # NotLoaded /\ settings' = NotLoaded /\ sentryEnabled' = TRUE
  /\ patching' = [r \in SettingsRequests |-> NoPatch]
  /\ UNCHANGED <<settingsDb, row, patchesOverlapped>>

SettingsNext ==
  \/ LoadSettings \/ RestartSettings
  \/ \E r \in SettingsRequests :
       \/ \E f \in Fields, value \in BOOLEAN : StartPatch(r, f, value)
       \/ ReadSection(r) \/ ReadEntity(r) \/ WriteEntity(r)
       \/ FindSettings(r) \/ StoreMigrated(r) \/ StorePatched(r) \/ AssignSettings(r)

SettingsSpec == SettingsInit /\ [][SettingsNext]_settingsVars

-----------------------------------------------------------------------------
\* A patch that overlaps no other leaves, in the row and in memory, its field as asked for and
\* every other field as it was, but for atBoot, and Sentry as the settings say.
PatchesCompose ==
  [][\A r \in SettingsRequests :
       patching[r].at = "assign" /\ patching'[r] = NoPatch /\ ~patchesOverlapped /\ settings' # NotLoaded =>
         /\ settings' = row /\ sentryEnabled' = row["sentry"]
         /\ row[patching[r].field] = patching[r].patch[patching[r].field]
         /\ \A other \in Fields \ {patching[r].field, "atBoot"} :
              row[other] = patching[r].before[other]]_settingsVars

=============================================================================
