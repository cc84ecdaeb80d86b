\* Nineteen components, one moving at a time.
CONSTANTS
  AuthRequests = {r1, r2}
  RefreshTokens = {t1, t2}
  RefreshTokenAttempts = 1
  UserRequests = {r1, r2}
  MaxUsers = 2
  MaxRoleRows = 2
  EventLabels = {"current", "WS_CLOSED"}
  PrintHandlers = {h1, h2}
  MaxPrints = 2
  MaxLogged = 1
  Tests = {c1, c2}
  SettingsRequests = {r1, r2}
  FileRequests = {r1, r2}
  GcodeFiles = {f, g}
  MaxRowId = 4
  Exports <- SmallExports
  Databases <- SmallDatabases
  ThumbnailLoads = {r1, r2}
  Images = {"i", "j"}
  Tokens = {"t", "u", "v"}
  MoonrakerTokens = {"v"}
  Releases = {1, 2, 3}
  MinimumRelease = 2
  OctoPrints = {"o", "p"}
  Moonrakers = {"m"}
  ApiUsers = {"u"}
  Batches <- SmallBatches
  MaxApiEvents = 2
  RoleCallers = {"r"}
  OwnerNames = {"a"}
  MaxRoleDocs = 4
  MaxStarts = 2
  IoClients = {"c", "d"}
  MaxMoments = 4
  FirmwareRequests = {"r", "s"}
  Scanned = {"p", "q"}
  MaxPublished = 1
  RowPrinters = {1, 2}
  PageSize = 2
  MaxPrintRows = 3
  PrintDays = {0, 1, 7}
  Windows = {1, 2, 7}
  ObjectQueries = {1}
  MaxUpdates = 3
  AccountRequests = {q1}
  AccountNames = {"x", "demo"}
  DemoNames = {"demo"}
  MaxAccounts = 3
  MaxBoots = 2
SPECIFICATION MCSpec
INVARIANTS
  ServicesTypeOK
  
  OneEndPerPrint
  TestsLeaveNothing
  ThumbnailFollowsFile
  EndedUploadsAreSettled
  BootServesClient
  SchemaAsDeclared
  BatchAnswersEach
  RolesAreInForce
  ScanTellsOfEach
  StatisticsAddUp
  QueryRepairs
  AccountsAsGranted
PROPERTIES
  TokensRunOut
  
  
  
  
  CallsDoAsNamed
  NeverShownOlder
SYMMETRY ServicesSymmetry
CHECK_DEADLOCK FALSE
