---------------------------- MODULE MCServices ----------------------------
(***************************************************************************)
(* For TLC, in one run: the components that share no state with each       *)
(* other.  Init picks the one that moves, and the others keep their first  *)
(* state, so that every component is explored in full and none is          *)
(* multiplied with another: a property of one speaks of its variables      *)
(* alone.                                                                  *)
(***************************************************************************)
EXTENDS Integers, FiniteSets, Functions, Sequences, TLC

CONSTANTS
  AuthRequests, RefreshTokens, RefreshTokenAttempts,
  UserRequests, MaxUsers, MaxRoleRows,
  EventLabels,
  PrintHandlers, MaxPrints, MaxLogged,
  Tests,
  SettingsRequests,
  FileRequests, GcodeFiles,
  Exports, Databases, MaxRowId,
  ThumbnailLoads, Images,
  Tokens, MoonrakerTokens,
  Releases, MinimumRelease,
  OctoPrints, Moonrakers, ApiUsers, Batches, MaxApiEvents,
  RoleCallers, OwnerNames, MaxRoleDocs, MaxStarts,
  IoClients, MaxMoments,
  FirmwareRequests, Scanned, MaxPublished,
  RowPrinters, PageSize, MaxPrintRows, PrintDays, Windows,
  ObjectQueries, MaxUpdates,
  AccountRequests, AccountNames, DemoNames, MaxAccounts, MaxBoots

VARIABLES
  component,  \* the one that moves
  account, tokenRows, handedOut, request, blacklist, granted, overlapped,
  users, roleRows, lastUser, lastRoleRow, userReq, wizard, loginRequired, raced,
  entry, objects, settingEvents, adapterEmits, printerThere,
  listening, contextCache, startRows, endRows, lastPrint, handling, endOverlapped,
  testSocket, testSockets, testListeners, testing, overlap,
  settingsDb, row, settings, patching, sentryEnabled, patchesOverlapped,
  device, cached, filing, filesTrouble,
  yaml, db, importing, importDisturbed,
  thumbnailSupport, thumbnailFile, thumbnail, loading, switching, thumbnailsOverlapped,
  currentUploads, uploadsDone, uploadsFailed, progressListeners, uploading,
  bundle, updating, updatesOverlapped,
  schema, executed, roleTable, userRoles,
  moonrakerSupport, cachedPrinters, machine, apiLogin, userCall, batch, batchCall,
  apiEvents,
  roleDocs, accountDocs, wizardCompleted, loginNeeded, startup, loadedRoles,
  loadedPermissions, roleSync, roleCall, starts,
  ioServer, moment, floorsCached, stateUpdate, shown,
  published, firmwareReleases, firmwareFolder, scannable, firmwareCall, scanOutcome,
  printsDb, printRows, printDay, printReport,
  klipper, subscribed, updates, queries, printerObjects, current, asOf,
  accounts, accountReq, access, demoBoot, boots, unvouched, touched

-----------------------------------------------------------------------------
(* Imports: an export of two printers, a floor and two groups, into nothing, into the same *)
(* with other ids, and into parts of it. *)

Row(name, printers) == [name |-> name, printers |-> printers]
SmallExports ==
  {[printers |-> <<[name |-> "a"], [name |-> n]>>, floors |-> <<Row("x", {1, 2})>>,
    groups |-> <<Row("x", {1}), Row("y", hs)>>] : n \in {"a", "b"}, hs \in {{2}, {1, 2}}}
SmallDatabases ==
  {[printers |-> ps, floors |-> <<Row("x", {1} \cap DOMAIN ps)>>, groups |-> gs] :
     ps \in {<<>>, <<[name |-> "b"], [name |-> "a"]>>},
     gs \in {<<>>, <<Row("y", {}), Row("x", {})>>}}
  \cup {[printers |-> <<[name |-> "b"], [name |-> "a"]>>, floors |-> <<Row("y", {2})>>,
         groups |-> <<Row(n, {1})>>] : n \in {"x", "y"}}

\* Batches: two printers of a type, and one of each.
SmallBatches == {<<"o", "p">>, <<"o", "m">>}

-----------------------------------------------------------------------------
Auth == INSTANCE AuthSessions
Accounts == INSTANCE Users
Events == INSTANCE PrinterEvents
Prints == INSTANCE PrintCompletions
Testing == INSTANCE TestPrinterSocket
Patches == INSTANCE Settings
Files == INSTANCE PrinterFiles
Import == INSTANCE YamlImport
Thumbs == INSTANCE Thumbnails
Sending == INSTANCE Uploads
Client == INSTANCE ClientBundle
Tables == INSTANCE Migrations
Machines == INSTANCE PrinterApi
Rights == INSTANCE Authorization
Watchers == INSTANCE SocketIo
Updates == INSTANCE FirmwareUpdates
Counts == INSTANCE PrintStatistics
Objects == INSTANCE KlipperStatus
Profiles == INSTANCE UserAccounts

-----------------------------------------------------------------------------
\* Bounds are numbers, and allow the first boot and the first account; versions are numbered
\* from 1, and credentials.refreshTokenAttempts is validated to be at least -1.  Tests are named
\* by uuids; ids of requests are no ids of printers, boot is none of the requests, nobody is
\* called "nobody", and the demo account has a name, as files have; a batch is of printers;
\* files and databases hold tables, and there is a printer; days and spans of days are numbers.
ASSUME ServicesAssumption ==
  /\ {MaxUsers, MaxRoleRows, MaxPrints, MaxLogged, MaxRowId, MaxApiEvents, MaxRoleDocs,
      MaxPublished, MaxPrintRows, MaxUpdates, MaxBoots, PageSize} \subseteq Nat
  /\ {MaxAccounts, MaxStarts, MinimumRelease} \cup Releases \subseteq Nat \ {0}
  /\ MaxMoments >= Watchers!FirstMoment /\ MaxMoments \in Nat
  /\ RefreshTokenAttempts \in Nat \cup {-1}
  /\ "none" \notin Tests
  /\ OctoPrints \cap Moonrakers = {} /\ OctoPrints \cup Moonrakers # {}
  /\ ApiUsers \cap (OctoPrints \cup Moonrakers) = {}
  /\ "boot" \notin RoleCallers /\ "nobody" \notin OwnerNames
  /\ DemoNames # {} /\ "none" \notin GcodeFiles
  /\ PrintDays \cup Windows \subseteq Nat /\ PrintDays # {}
  /\ \A ps \in Batches : ps \in Seq(OctoPrints \cup Moonrakers)
  /\ \A tables \in Exports \cup Databases : Import!WellFormed(tables)

-----------------------------------------------------------------------------
authVars == <<account, tokenRows, handedOut, request, blacklist, granted, overlapped>>
usersVars == <<users, roleRows, lastUser, lastRoleRow, userReq, wizard, loginRequired, raced>>
eventsVars == <<entry, objects, settingEvents, adapterEmits, printerThere>>
printVars == <<listening, contextCache, startRows, endRows, lastPrint, handling, endOverlapped>>
testVars == <<testSocket, testSockets, testListeners, testing, overlap>>
settingsVars == <<settingsDb, row, settings, patching, sentryEnabled, patchesOverlapped>>
filesVars == <<device, cached, filing, filesTrouble>>
yamlVars == <<yaml, db, importing, importDisturbed>>
thumbnailVars == <<thumbnailSupport, thumbnailFile, thumbnail, loading, switching, thumbnailsOverlapped>>
uploadVars == <<currentUploads, uploadsDone, uploadsFailed, progressListeners, uploading>>
bundleVars == <<bundle, updating, updatesOverlapped>>
schemaVars == <<schema, executed, roleTable, userRoles>>
apiVars == <<moonrakerSupport, cachedPrinters, machine, apiLogin, userCall, batch, batchCall,
  apiEvents>>
rolesVars == <<roleDocs, accountDocs, wizardCompleted, loginNeeded, startup, loadedRoles,
  loadedPermissions, roleSync, roleCall, starts>>
ioVars == <<ioServer, moment, floorsCached, stateUpdate, shown>>
firmwareVars == <<published, firmwareReleases, firmwareFolder, scannable, firmwareCall, scanOutcome>>
printStatisticsVars == <<printsDb, printRows, printDay, printReport>>
klipperVars == <<klipper, subscribed, updates, queries, printerObjects, current, asOf>>
accountVars == <<accounts, accountReq, access, demoBoot, boots, unvouched, touched>>

Components ==
  {"Auth", "Accounts", "Events", "Prints", "Testing", "Patches", "Files", "Import",
   "Thumbs", "Sending", "Client", "Tables", "Machines", "Rights", "Watchers", "Updates",
   "Counts", "Objects", "Profiles"}

vars ==
  <<component,
    authVars,
    usersVars,
    eventsVars,
    printVars,
    testVars,
    settingsVars,
    filesVars,
    yamlVars,
    thumbnailVars,
    uploadVars,
    bundleVars,
    schemaVars,
    apiVars,
    rolesVars,
    ioVars,
    firmwareVars,
    printStatisticsVars,
    klipperVars,
    accountVars>>

\* A component that does not move has one first state.
Still ==
  /\ component # "Accounts" => loginRequired
  /\ component # "Files" => device = [f \in GcodeFiles |-> "old"]
  /\ component # "Import" => yaml = CHOOSE e \in Exports : TRUE
  /\ component # "Import" => db = CHOOSE d \in Databases : TRUE
  /\ component # "Patches" => settingsDb = "mongo"
  /\ component # "Machines" => moonrakerSupport /\ cachedPrinters = Range(CHOOSE ps \in Batches : TRUE)
  /\ component # "Counts" => printsDb = "mongo"

MCInit ==
  /\ component \in Components
  /\ Auth!AuthInit
  /\ Accounts!UsersInit
  /\ Events!EventsInit
  /\ Prints!CompletionsInit
  /\ Testing!TestsInit
  /\ Patches!SettingsInit
  /\ Files!FilesInit
  /\ Import!YamlInit
  /\ Thumbs!ThumbnailsInit
  /\ Sending!UploadsInit
  /\ Client!BundleInit
  /\ Tables!SchemaInit
  /\ Machines!ApiInit
  /\ Rights!RolesInit
  /\ Watchers!IoInit
  /\ Updates!FirmwareInit
  /\ Counts!StatisticsInit
  /\ Objects!KlipperInit
  /\ Profiles!AccountsInit
  /\ Still

Moves(c) == component = c /\ UNCHANGED component

\* What the components that are not the named one hold.
ButAuth ==
  <<usersVars, eventsVars, printVars, testVars, settingsVars, filesVars, yamlVars,
    thumbnailVars, uploadVars, bundleVars, schemaVars, apiVars, rolesVars, ioVars,
    firmwareVars, printStatisticsVars, klipperVars, accountVars>>
ButAccounts ==
  <<authVars, eventsVars, printVars, testVars, settingsVars, filesVars, yamlVars,
    thumbnailVars, uploadVars, bundleVars, schemaVars, apiVars, rolesVars, ioVars,
    firmwareVars, printStatisticsVars, klipperVars, accountVars>>
ButEvents ==
  <<authVars, usersVars, printVars, testVars, settingsVars, filesVars, yamlVars,
    thumbnailVars, uploadVars, bundleVars, schemaVars, apiVars, rolesVars, ioVars,
    firmwareVars, printStatisticsVars, klipperVars, accountVars>>
ButPrints ==
  <<authVars, usersVars, eventsVars, testVars, settingsVars, filesVars, yamlVars,
    thumbnailVars, uploadVars, bundleVars, schemaVars, apiVars, rolesVars, ioVars,
    firmwareVars, printStatisticsVars, klipperVars, accountVars>>
ButTesting ==
  <<authVars, usersVars, eventsVars, printVars, settingsVars, filesVars, yamlVars,
    thumbnailVars, uploadVars, bundleVars, schemaVars, apiVars, rolesVars, ioVars,
    firmwareVars, printStatisticsVars, klipperVars, accountVars>>
ButPatches ==
  <<authVars, usersVars, eventsVars, printVars, testVars, filesVars, yamlVars,
    thumbnailVars, uploadVars, bundleVars, schemaVars, apiVars, rolesVars, ioVars,
    firmwareVars, printStatisticsVars, klipperVars, accountVars>>
ButFiles ==
  <<authVars, usersVars, eventsVars, printVars, testVars, settingsVars, yamlVars,
    thumbnailVars, uploadVars, bundleVars, schemaVars, apiVars, rolesVars, ioVars,
    firmwareVars, printStatisticsVars, klipperVars, accountVars>>
ButImport ==
  <<authVars, usersVars, eventsVars, printVars, testVars, settingsVars, filesVars,
    thumbnailVars, uploadVars, bundleVars, schemaVars, apiVars, rolesVars, ioVars,
    firmwareVars, printStatisticsVars, klipperVars, accountVars>>
ButThumbs ==
  <<authVars, usersVars, eventsVars, printVars, testVars, settingsVars, filesVars,
    yamlVars, uploadVars, bundleVars, schemaVars, apiVars, rolesVars, ioVars, firmwareVars,
    printStatisticsVars, klipperVars, accountVars>>
ButSending ==
  <<authVars, usersVars, eventsVars, printVars, testVars, settingsVars, filesVars,
    yamlVars, thumbnailVars, bundleVars, schemaVars, apiVars, rolesVars, ioVars,
    firmwareVars, printStatisticsVars, klipperVars, accountVars>>
ButClient ==
  <<authVars, usersVars, eventsVars, printVars, testVars, settingsVars, filesVars,
    yamlVars, thumbnailVars, uploadVars, schemaVars, apiVars, rolesVars, ioVars,
    firmwareVars, printStatisticsVars, klipperVars, accountVars>>
ButTables ==
  <<authVars, usersVars, eventsVars, printVars, testVars, settingsVars, filesVars,
    yamlVars, thumbnailVars, uploadVars, bundleVars, apiVars, rolesVars, ioVars,
    firmwareVars, printStatisticsVars, klipperVars, accountVars>>
ButMachines ==
  <<authVars, usersVars, eventsVars, printVars, testVars, settingsVars, filesVars,
    yamlVars, thumbnailVars, uploadVars, bundleVars, schemaVars, rolesVars, ioVars,
    firmwareVars, printStatisticsVars, klipperVars, accountVars>>
ButRights ==
  <<authVars, usersVars, eventsVars, printVars, testVars, settingsVars, filesVars,
    yamlVars, thumbnailVars, uploadVars, bundleVars, schemaVars, apiVars, ioVars,
    firmwareVars, printStatisticsVars, klipperVars, accountVars>>
ButWatchers ==
  <<authVars, usersVars, eventsVars, printVars, testVars, settingsVars, filesVars,
    yamlVars, thumbnailVars, uploadVars, bundleVars, schemaVars, apiVars, rolesVars,
    firmwareVars, printStatisticsVars, klipperVars, accountVars>>
ButUpdates ==
  <<authVars, usersVars, eventsVars, printVars, testVars, settingsVars, filesVars,
    yamlVars, thumbnailVars, uploadVars, bundleVars, schemaVars, apiVars, rolesVars,
    ioVars, printStatisticsVars, klipperVars, accountVars>>
ButCounts ==
  <<authVars, usersVars, eventsVars, printVars, testVars, settingsVars, filesVars,
    yamlVars, thumbnailVars, uploadVars, bundleVars, schemaVars, apiVars, rolesVars,
    ioVars, firmwareVars, klipperVars, accountVars>>
ButObjects ==
  <<authVars, usersVars, eventsVars, printVars, testVars, settingsVars, filesVars,
    yamlVars, thumbnailVars, uploadVars, bundleVars, schemaVars, apiVars, rolesVars,
    ioVars, firmwareVars, printStatisticsVars, accountVars>>
ButProfiles ==
  <<authVars, usersVars, eventsVars, printVars, testVars, settingsVars, filesVars,
    yamlVars, thumbnailVars, uploadVars, bundleVars, schemaVars, apiVars, rolesVars,
    ioVars, firmwareVars, printStatisticsVars, klipperVars>>

AuthStep == Moves("Auth") /\ Auth!AuthNext /\ UNCHANGED ButAuth
AccountsStep == Moves("Accounts") /\ Accounts!UsersNext /\ UNCHANGED ButAccounts
EventsStep == Moves("Events") /\ Events!EventsNext /\ UNCHANGED ButEvents
PrintsStep == Moves("Prints") /\ Prints!CompletionsNext /\ UNCHANGED ButPrints
TestingStep == Moves("Testing") /\ Testing!TestsNext /\ UNCHANGED ButTesting
PatchesStep == Moves("Patches") /\ Patches!SettingsNext /\ UNCHANGED ButPatches
FilesStep == Moves("Files") /\ Files!FilesNext /\ UNCHANGED ButFiles
ImportStep == Moves("Import") /\ Import!YamlNext /\ UNCHANGED ButImport
ThumbsStep == Moves("Thumbs") /\ Thumbs!ThumbnailsNext /\ UNCHANGED ButThumbs
SendingStep == Moves("Sending") /\ Sending!UploadsNext /\ UNCHANGED ButSending
ClientStep == Moves("Client") /\ Client!BundleNext /\ UNCHANGED ButClient
TablesStep == Moves("Tables") /\ Tables!SchemaNext /\ UNCHANGED ButTables
MachinesStep == Moves("Machines") /\ Machines!ApiNext /\ UNCHANGED ButMachines
RightsStep == Moves("Rights") /\ Rights!RolesNext /\ UNCHANGED ButRights
WatchersStep == Moves("Watchers") /\ Watchers!IoNext /\ UNCHANGED ButWatchers
UpdatesStep == Moves("Updates") /\ Updates!FirmwareNext /\ UNCHANGED ButUpdates
CountsStep == Moves("Counts") /\ Counts!StatisticsNext /\ UNCHANGED ButCounts
ObjectsStep == Moves("Objects") /\ Objects!KlipperNext /\ UNCHANGED ButObjects
ProfilesStep == Moves("Profiles") /\ Profiles!AccountsNext /\ UNCHANGED ButProfiles

MCNext ==
  \/ AuthStep
  \/ AccountsStep
  \/ EventsStep
  \/ PrintsStep
  \/ TestingStep
  \/ PatchesStep
  \/ FilesStep
  \/ ImportStep
  \/ ThumbsStep
  \/ SendingStep
  \/ ClientStep
  \/ TablesStep
  \/ MachinesStep
  \/ RightsStep
  \/ WatchersStep
  \/ UpdatesStep
  \/ CountsStep
  \/ ObjectsStep
  \/ ProfilesStep

MCSpec == MCInit /\ [][MCNext]_vars

\* The same two requests run in each of these components, and no component tells them apart.
ServicesSymmetry == Permutations(UserRequests)

-----------------------------------------------------------------------------
(* The properties, each stated in its component. *)

\* Every variable of every component has its type.
ServicesTypeOK ==
  /\ component = "Auth" => Auth!AuthTypeOK
  /\ component = "Accounts" => Accounts!UsersTypeOK
  /\ component = "Events" => Events!EventsTypeOK
  /\ component = "Prints" => Prints!CompletionsTypeOK
  /\ component = "Testing" => Testing!TestsTypeOK
  /\ component = "Patches" => Patches!SettingsTypeOK
  /\ component = "Files" => Files!FilesTypeOK
  /\ component = "Import" => Import!YamlTypeOK
  /\ component = "Thumbs" => Thumbs!ThumbnailsTypeOK
  /\ component = "Sending" => Sending!UploadsTypeOK
  /\ component = "Client" => Client!BundleTypeOK
  /\ component = "Tables" => Tables!SchemaTypeOK
  /\ component = "Machines" => Machines!ApiTypeOK
  /\ component = "Rights" => Rights!RolesTypeOK
  /\ component = "Watchers" => Watchers!IoTypeOK
  /\ component = "Updates" => Updates!FirmwareTypeOK
  /\ component = "Counts" => Counts!StatisticsTypeOK
  /\ component = "Objects" => Objects!KlipperTypeOK
  /\ component = "Profiles" => Profiles!AccountsTypeOK

\* See AuthSessions: tokens are renewed so often at most, and none comes back.
TokensRunOut == Auth!TokensRunOut
\* See Users: roles are the ones asked for, and somebody may manage the server.
UsersKeepInCharge == Accounts!UsersKeepInCharge
\* See PrinterEvents: no events are kept of a printer that was deleted.
NothingOfDeleted == component = "Events" => Events!NothingOfDeleted
\* See PrintCompletions: a print ends once.
OneEndPerPrint == component = "Prints" => Prints!OneEndPerPrint
\* See TestPrinterSocket: a test leaves no socket and no listener.
TestsLeaveNothing == component = "Testing" => Testing!TestsLeaveNothing
\* See Settings: a patch changes its own fields only.
PatchesCompose == Patches!PatchesCompose
\* See PrinterFiles: the cached list is what is on the printer, and a clean spares the fresh.
FilesAreAsListed == Files!FilesAreAsListed
\* See YamlImport: an import restores what was exported.
ImportRestores == Import!ImportRestores
\* See Thumbnails: memory shows the file.
ThumbnailFollowsFile == component = "Thumbs" => Thumbs!ThumbnailFollowsFile
\* See Uploads: an upload that ended is reported as ended.
EndedUploadsAreSettled == component = "Sending" => Sending!EndedUploadsAreSettled
\* See ClientBundle: what boot takes as it is can be served.
BootServesClient == component = "Client" => Client!BootServesClient
\* See Migrations: the tables are the ones the entities declare.
SchemaAsDeclared == component = "Tables" => Tables!SchemaAsDeclared
\* See PrinterApi: a batch answers for each of its printers.
BatchAnswersEach == component = "Machines" => Machines!BatchAnswersEach
\* See PrinterApi and IPrinterApi: a call does to the printer what its name says.
CallsDoAsNamed == Machines!CallsDoAsNamed
\* See Authorization: roles grant what they may, and a setup leaves an owner.
RolesAreInForce == component = "Rights" => Rights!RolesAreInForce
\* See SocketIo: a client is never shown an older state than before.
NeverShownOlder == Watchers!NeverShownOlder
\* See FirmwareUpdates: a scan tells of each of its printers.
ScanTellsOfEach == component = "Updates" => Updates!ScanTellsOfEach
\* See PrintStatistics: the statistics of a printer add up.
StatisticsAddUp == component = "Counts" => Counts!StatisticsAddUp
\* See KlipperStatus: a query repairs what updates left wrong.
QueryRepairs == component = "Objects" => Objects!QueryRepairs
\* See UserAccounts: visitors wait to be verified, and the demo account is as configured.
AccountsAsGranted == component = "Profiles" => Profiles!AccountsAsGranted

=============================================================================
