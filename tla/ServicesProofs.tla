--------------------------- MODULE ServicesProofs ---------------------------
(***************************************************************************)
(* What holds of the services in memory, of the calls to printers' APIs    *)
(* and of the schema of the database, for any number of requests, printers,*)
(* messages and runs of the migrations.  For each: its                     *)
(* inductive invariant, the lemma that its own steps keep it, and the      *)
(* theorem.  A step of another component leaves its variables alone, by    *)
(* Framed.                                                                 *)
(***************************************************************************)
EXTENDS MCServices, WellFoundedInduction, TLAPS

\* What each component needs of the constants.
LEMMA TestsAreNamed == "none" \notin Tests
BY ServicesAssumption
LEMMA PrintBounds == MaxPrints \in Nat /\ MaxLogged \in Nat
BY ServicesAssumption
LEMMA ReleasesAreNumbered == Releases \subseteq Nat \ {0} /\ MinimumRelease \in Nat \ {0}
BY ServicesAssumption
LEMMA MachinesAreApart ==
  /\ OctoPrints \cap Moonrakers = {} /\ OctoPrints \cup Moonrakers # {}
  /\ ApiUsers \cap (OctoPrints \cup Moonrakers) = {}
  /\ \A ps \in Batches : ps \in Seq(OctoPrints \cup Moonrakers)
BY ServicesAssumption
LEMMA RolesAreNamed == "boot" \notin RoleCallers /\ "nobody" \notin OwnerNames
BY ServicesAssumption
LEMMA TablesAreWellFormed ==
  MaxRowId \in Nat /\ \A tables \in Exports \cup Databases : Import!WellFormed(tables)
BY ServicesAssumption
LEMMA Bounds ==
  /\ {MaxUsers, MaxRoleRows, MaxPrints, MaxLogged, MaxRowId, MaxApiEvents, MaxRoleDocs,
      MaxPublished, MaxPrintRows, MaxUpdates, MaxBoots, PageSize} \subseteq Nat
  /\ MaxStarts \in Nat \ {0} /\ MaxMoments \in Nat /\ MaxMoments >= Watchers!FirstMoment
BY ServicesAssumption
LEMMA RenewalsBound == RefreshTokenAttempts \in Nat \cup {-1}
BY ServicesAssumption
LEMMA AccountBounds == MaxAccounts \in Nat \ {0} /\ DemoNames # {}
BY ServicesAssumption

\* A set of numbers has a least one.
LEMMA LeastIsThere ==
  ASSUME NEW S \in SUBSET Nat, S # {}
  PROVE  \E i \in S : \A j \in S : i <= j
<1> DEFINE R == OpToRel(<, Nat)
<1>1. PICK i \in S : \A j \in S : <<j, i>> \notin R
  <2>1. IsWellFoundedOn(R, Nat)
    BY NatLessThanWellFounded
  <2> HIDE DEF R
  <2> QED BY <2>1, WFMin
<1>2. \A j \in S : ~(j < i)
  BY <1>1 DEF OpToRel
<1> QED BY <1>2

\* In each component a step is one of its own, or stutters.
LEMMA Framed ==
  ASSUME [MCNext]_vars
  PROVE  /\ [Auth!AuthNext]_authVars /\ [Accounts!UsersNext]_usersVars
         /\ [Events!EventsNext]_eventsVars /\ [Prints!CompletionsNext]_printVars
         /\ [Testing!TestsNext]_testVars /\ [Patches!SettingsNext]_settingsVars
         /\ [Files!FilesNext]_filesVars /\ [Import!YamlNext]_yamlVars
         /\ [Thumbs!ThumbnailsNext]_thumbnailVars
         /\ [Sending!UploadsNext]_uploadVars /\ [Client!BundleNext]_bundleVars
         /\ [Machines!ApiNext]_apiVars /\ [Rights!RolesNext]_rolesVars
         /\ [Watchers!IoNext]_ioVars /\ [Updates!FirmwareNext]_firmwareVars
         /\ [Objects!KlipperNext]_klipperVars /\ [Profiles!AccountsNext]_accountVars
         /\ [Tables!SchemaNext]_schemaVars /\ [Counts!StatisticsNext]_printStatisticsVars
BY DEF MCNext, vars, AuthStep, AccountsStep, EventsStep, PrintsStep, TestingStep, PatchesStep,
       FilesStep, ImportStep, ThumbsStep, SendingStep, ClientStep, TablesStep, MachinesStep,
       RightsStep, WatchersStep, UpdatesStep, CountsStep, ObjectsStep, ProfilesStep,
       ButAuth, ButAccounts, ButEvents, ButPrints, ButTesting, ButPatches, ButFiles, ButImport,
       ButThumbs, ButSending, ButClient, ButTables, ButMachines, ButRights, ButWatchers,
       ButUpdates, ButCounts, ButObjects, ButProfiles

-----------------------------------------------------------------------------
(* Tests of connections. *)

Running(t) == testing[t] \in {"session", "polling", "waiting", "finally"}

\* While tests do not validate at once, one that validates finds no socket, so the open one,
\* if any, is the shared one, and a test is running that will close it.  Until tests run at
\* once the shared socket is the running test's own, and only that one listens.
TestsInv ==
  /\ Testing!TestsTypeOK
  /\ overlap # "validating" =>
       /\ \A t, u \in Tests : testing[t] = "validating" /\ testing[u] = "validating" => t = u
       /\ \A t \in Tests : testing[t] = "validating" => testSocket = "none"
       /\ \A t \in Tests : testSockets[t] = "open" => testSocket = t /\ \E o \in Tests : Running(o)
  /\ overlap = "none" =>
       /\ \A t, u \in Tests : testing[t] # "idle" /\ testing[u] # "idle" => t = u
       /\ \A t \in Tests : Running(t) => testSocket = t
       /\ \A t \in testListeners : Running(t)

LEMMA TestsKeep ==
  ASSUME TestsInv, [Testing!TestsNext]_testVars
  PROVE  TestsInv'
<1> USE TestsAreNamed DEF Testing!TestsTypeOK, Testing!NoSocket
<1>1. ASSUME NEW t \in Tests, Testing!StartTest(t) PROVE TestsInv'
  <2>1. overlap # "validating" => \A s \in Tests : testSockets'[s] # "open"
    BY <1>1 DEF TestsInv, Testing!StartTest, Testing!CutOff, Testing!Closing
  <2>2. /\ testing[t] = "idle" /\ testing' = [testing EXCEPT ![t] = "validating"]
        /\ testSocket' = "none" /\ UNCHANGED testListeners
        /\ testSockets' \in [Tests -> {"none", "made", "open", "closed"}]
    BY <1>1 DEF TestsInv, Testing!StartTest, Testing!CutOff, Testing!Closing, Testing!Moves
  <2>3. /\ overlap' \in {"none", "running", "validating"}
        /\ overlap' # "validating" => overlap # "validating" /\ \A o \in Tests : testing[o] # "validating"
        /\ overlap' = "none" => overlap = "none" /\ \A o \in Tests : testing[o] = "idle"
    BY <1>1 DEF TestsInv, Testing!StartTest
  <2> QED BY <2>1, <2>2, <2>3 DEF TestsInv, Running
<1>2. ASSUME NEW t \in Tests, Testing!CreateTestSocket(t) PROVE TestsInv'
  BY <1>2 DEF TestsInv, Running, Testing!CreateTestSocket, Testing!Moves
<1>3. ASSUME NEW t \in Tests, Testing!OpenTestSocket(t) PROVE TestsInv'
  BY <1>3 DEF TestsInv, Running, Testing!OpenTestSocket, Testing!Moves
<1>4. ASSUME NEW t \in Tests, Testing!TestEnds(t) PROVE TestsInv'
  BY <1>4 DEF TestsInv, Running, Testing!TestEnds, Testing!Moves
<1>5. ASSUME NEW t \in Tests, Testing!Finally(t) PROVE TestsInv'
  BY <1>5 DEF TestsInv, Running, Testing!Finally, Testing!Closing, Testing!Moves
<1>6. CASE UNCHANGED testVars
  BY <1>6 DEF TestsInv, Running, testVars
<1> QED BY <1>1, <1>2, <1>3, <1>4, <1>5, <1>6 DEF Testing!TestsNext

\* However many tests of connections overlap, each leaves no socket and no listener behind,
\* but for the two the store has no way to tell apart while they validate.
THEOREM TestsEndClean == MCSpec => []TestsLeaveNothing
<1>1. MCInit => TestsInv
  BY DEF MCInit, TestsInv, Running, Testing!TestsInit, Testing!TestsTypeOK, Testing!NoSocket
<1>2. TestsInv /\ [MCNext]_vars => TestsInv'
  BY Framed, TestsKeep
<1>3. TestsInv => TestsLeaveNothing
  BY DEF TestsInv, Running, TestsLeaveNothing, Testing!TestsLeaveNothing, Testing!TestsTypeOK
<1> QED BY <1>1, <1>2, <1>3, PTL DEF MCSpec

-----------------------------------------------------------------------------
(* Events of a printer. *)

\* A deleted printer's adapter emits nothing any more, and no call is under way.
EventsInv == ~printerThere => entry = Events!NoEvents /\ settingEvents = <<>> /\ ~adapterEmits

LEMMA EventsKeep ==
  ASSUME EventsInv, [Events!EventsNext]_eventsVars
  PROVE  EventsInv'
<1>1. ASSUME NEW l \in EventLabels, Events!ReceiveMessage(l) PROVE EventsInv'
  BY <1>1 DEF EventsInv, Events!ReceiveMessage, Events!Emit
<1>2. CASE Events!ResetSocketState \/ Events!RefreshPrinterSocket
  BY <1>2 DEF EventsInv, Events!ResetSocketState, Events!RefreshPrinterSocket
<1>3. CASE Events!PrintersDeleted
  BY <1>3 DEF EventsInv, Events!PrintersDeleted, Events!AfterDeleteSocket
<1>4. CASE Events!GetOrCreateEvents \/ Events!SetEvent
  BY <1>4 DEF EventsInv, Events!GetOrCreateEvents, Events!SetEvent
<1>5. CASE UNCHANGED eventsVars
  BY <1>5 DEF EventsInv, eventsVars
<1> QED BY <1>1, <1>2, <1>3, <1>4, <1>5 DEF Events!EventsNext

\* Whatever messages come of a printer and whichever of its calls interleave: once it is
\* deleted no events of it are kept.
THEOREM DeletedIsForgotten == MCSpec => []NothingOfDeleted
<1>1. MCInit => EventsInv
  BY DEF MCInit, EventsInv, Events!EventsInit
<1>2. EventsInv /\ [MCNext]_vars => EventsInv'
  BY Framed, EventsKeep
<1>3. EventsInv => NothingOfDeleted
  BY DEF EventsInv, NothingOfDeleted, Events!NothingOfDeleted
<1> QED BY <1>1, <1>2, <1>3, PTL DEF MCSpec

-----------------------------------------------------------------------------
(* Prints. *)

\* As long as no message overlapped the end of a print: the handler that saves an end is the
\* only one, and the context it ends is the one in memory, of a print that has no end yet.
PrintsInv ==
  /\ Prints!CompletionsTypeOK /\ DOMAIN handling = PrintHandlers /\ contextCache.id <= lastPrint
  /\ \A h \in PrintHandlers : handling[h].at = "start" => handling[h].context.id \in 1..lastPrint
  /\ ~endOverlapped =>
       /\ \A h, g \in PrintHandlers : handling[h].at = "end" /\ handling[g].at = "end" => h = g
       /\ \A h \in PrintHandlers : handling[h].at = "end" => handling[h].context = contextCache
       /\ contextCache.id # Prints!NoId => endRows[contextCache.id] = 0
       /\ \A p \in 1..MaxPrints : endRows[p] <= 1 /\ (p > lastPrint => endRows[p] = 0)

LEMMA PrintsKeep ==
  ASSUME PrintsInv, [Prints!CompletionsNext]_printVars
  PROVE  PrintsInv'
<1> USE PrintBounds DEF Prints!NoId, Prints!NoMessage, Prints!EmptyContext, Prints!CompletionsTypeOK
<1> DEFINE Handlings == {[at |-> "idle"]} \cup [at : {"start", "end", "find", "save"}, context : Prints!Contexts]
<1>1. CASE Prints!FirstRequest
  BY <1>1 DEF PrintsInv, Prints!FirstRequest
<1>2. CASE Prints!RestartServer
  <2>1. /\ contextCache' = [id |-> 0, logged |-> 0] /\ listening' = FALSE
        /\ handling' = [h \in PrintHandlers |-> [at |-> "idle"]]
        /\ UNCHANGED <<startRows, endRows, lastPrint, endOverlapped>>
    BY <1>2 DEF Prints!RestartServer
  <2>2. DOMAIN handling' = PrintHandlers /\ \A h \in PrintHandlers : handling'[h] = [at |-> "idle"]
    BY <2>1
  <2>3. contextCache' \in Prints!Contexts /\ contextCache'.id = 0
    BY <2>1 DEF Prints!Contexts
  <2>4. \A h \in PrintHandlers : handling'[h].at = "idle"
    BY <2>2
  <2>5. contextCache'.id <= lastPrint'
    BY <2>1, <2>3 DEF PrintsInv
  <2>6. Prints!CompletionsTypeOK'
    BY <2>1, <2>2, <2>3 DEF PrintsInv
  <2> HIDE DEF Prints!CompletionsTypeOK
  <2> QED BY <2>1, <2>2, <2>3, <2>4, <2>5, <2>6 DEF PrintsInv
<1>3. ASSUME NEW h \in PrintHandlers, NEW next \in Handlings, NEW context \in Prints!Contexts,
             Prints!Receive(h, next, context),
             lastPrint' \in {lastPrint, lastPrint + 1}, lastPrint' <= MaxPrints,
             context.id = contextCache.id \/ (lastPrint' = lastPrint + 1 /\ context.id = lastPrint'),
             next.at = "start" => next.context = context /\ context.id = lastPrint + 1 /\ lastPrint' = lastPrint + 1,
             next.at = "end" => next.context = context /\ context = contextCache
      PROVE  PrintsInv'
  <2>1. /\ handling' = [handling EXCEPT ![h] = next] /\ contextCache' = context
        /\ endOverlapped' = (endOverlapped \/ \E o \in PrintHandlers : handling[o].at = "end")
        /\ UNCHANGED <<listening, startRows, endRows>>
    BY <1>3 DEF Prints!Receive
  <2>2. /\ lastPrint \in Nat /\ lastPrint' \in 0..MaxPrints /\ lastPrint <= lastPrint'
        /\ contextCache'.id \in 0..MaxPrints /\ contextCache'.id <= lastPrint'
    BY <1>3, <2>1 DEF PrintsInv, Prints!Contexts
  <2>3. endOverlapped' \in BOOLEAN /\ (~endOverlapped' => ~endOverlapped /\ \A o \in PrintHandlers : handling[o].at # "end")
    BY <2>1 DEF PrintsInv
  <2>4. ~endOverlapped' /\ contextCache'.id # 0 => endRows[contextCache'.id] = 0
    BY <1>3, <2>1, <2>2, <2>3 DEF PrintsInv
  <2>5. \A p \in 1..MaxPrints : p > lastPrint' => p > lastPrint
    BY <2>2
  <2>6. DOMAIN handling' = PrintHandlers /\ \A o \in PrintHandlers : handling'[o] = IF o = h THEN next ELSE handling[o]
    BY <2>1 DEF PrintsInv
  <2>7. DOMAIN startRows \in SUBSET (1..lastPrint')
    BY <2>2 DEF PrintsInv
  <2>8. \A o \in PrintHandlers : handling'[o].at = "start" => handling'[o].context.id \in 1..lastPrint'
    BY <1>3, <2>2, <2>6 DEF PrintsInv
  <2>9. Prints!CompletionsTypeOK'
    BY <1>3, <2>1, <2>2, <2>3, <2>6, <2>7 DEF PrintsInv
  <2> HIDE DEF Prints!CompletionsTypeOK
  <2> QED BY <1>3, <2>1, <2>2, <2>3, <2>4, <2>5, <2>6, <2>8, <2>9 DEF PrintsInv
<1>4. ASSUME NEW h \in PrintHandlers, Prints!PrintStarted(h) PROVE PrintsInv'
  <2> DEFINE context == [id |-> lastPrint + 1, logged |-> 0]
             next == [at |-> "start", context |-> context]
  <2>1. Prints!Receive(h, next, context) /\ lastPrint < MaxPrints /\ lastPrint' = lastPrint + 1
    BY <1>4 DEF Prints!PrintStarted
  <2>2. lastPrint \in Nat /\ lastPrint + 1 \in 0..MaxPrints /\ 0 \in 0..MaxLogged
    BY <2>1 DEF PrintsInv
  <2>3. context \in Prints!Contexts /\ context.id = lastPrint + 1
    BY <2>2 DEF Prints!Contexts
  <2>4. lastPrint' \in {lastPrint, lastPrint + 1} /\ lastPrint' <= MaxPrints
    BY <2>1, <2>2
  <2> HIDE DEF context
  <2>5. next \in Handlings /\ next.at = "start" /\ next.context = context
    BY <2>3
  <2> HIDE DEF next
  <2> QED BY <1>3, <2>1, <2>3, <2>4, <2>5
<1>5. ASSUME NEW h \in PrintHandlers, Prints!PrintEnds(h) PROVE PrintsInv'
  <2> DEFINE next == [at |-> "end", context |-> contextCache]
  <2>1. Prints!Receive(h, next, contextCache) /\ UNCHANGED lastPrint
    BY <1>5 DEF Prints!PrintEnds
  <2>2. contextCache \in Prints!Contexts /\ lastPrint' \in {lastPrint, lastPrint + 1} /\ lastPrint' <= MaxPrints
    BY <2>1 DEF PrintsInv
  <2>3. next \in Handlings /\ next.at = "end" /\ next.context = contextCache
    BY <2>2
  <2> HIDE DEF next
  <2> QED BY <1>3, <2>1, <2>2, <2>3
<1>6. ASSUME NEW h \in PrintHandlers, Prints!OtherEvent(h) PROVE PrintsInv'
  <2> DEFINE context == [contextCache EXCEPT !.logged = @ + 1]
             next == IF context.id = 0 THEN [at |-> "idle"] ELSE [at |-> "find", context |-> context]
  <2>1. Prints!Receive(h, next, context) /\ contextCache.logged < MaxLogged /\ UNCHANGED lastPrint
    BY <1>6 DEF Prints!OtherEvent
  <2>2. context \in Prints!Contexts /\ context.id = contextCache.id
    BY <2>1 DEF PrintsInv, Prints!Contexts
  <2>3. lastPrint' \in {lastPrint, lastPrint + 1} /\ lastPrint' <= MaxPrints
    BY <2>1 DEF PrintsInv
  <2> HIDE DEF context
  <2>4. next \in Handlings /\ next.at \in {"idle", "find"}
    BY <2>2
  <2> HIDE DEF next
  <2> QED BY <1>3, <2>1, <2>2, <2>3, <2>4
<1>7. ASSUME NEW h \in PrintHandlers, NEW next \in Handlings, next.at \in {"idle", "save"},
             handling' = [handling EXCEPT ![h] = next],
             DOMAIN startRows' \in SUBSET (1..lastPrint), \A p \in DOMAIN startRows' : startRows'[p] \in 0..MaxLogged,
             UNCHANGED <<listening, contextCache, endRows, lastPrint, endOverlapped>>
      PROVE  PrintsInv'
  <2>1. DOMAIN handling' = PrintHandlers /\ \A o \in PrintHandlers : handling'[o] = IF o = h THEN next ELSE handling[o]
    BY <1>7 DEF PrintsInv
  <2> QED BY <1>7, <2>1 DEF PrintsInv
<1>8. ASSUME NEW h \in PrintHandlers, Prints!CreateStarted(h) PROVE PrintsInv'
  <2>1. handling[h].context \in Prints!Contexts /\ handling[h].context.id \in 1..lastPrint
    BY <1>8 DEF PrintsInv, Prints!CreateStarted
  <2> QED BY <1>7, <1>8, <2>1 DEF PrintsInv, Prints!CreateStarted, Prints!Done, Prints!Contexts
<1>9. ASSUME NEW h \in PrintHandlers, Prints!FindStarted(h) PROVE PrintsInv'
  BY <1>7, <1>9 DEF PrintsInv, Prints!FindStarted
<1>10. ASSUME NEW h \in PrintHandlers, Prints!SaveContext(h) PROVE PrintsInv'
  <2>1. handling[h].context \in Prints!Contexts
    BY <1>10 DEF PrintsInv, Prints!SaveContext
  <2> QED BY <1>7, <1>10, <2>1 DEF PrintsInv, Prints!SaveContext, Prints!Done, Prints!Contexts
<1>11. ASSUME NEW h \in PrintHandlers, Prints!CreateEnd(h) PROVE PrintsInv'
  <2> DEFINE id == handling[h].context.id
  <2>1. /\ handling[h].at = "end" /\ handling' = [handling EXCEPT ![h] = [at |-> "idle"]]
        /\ endRows' = [endRows EXCEPT ![id] = 1 + (IF @ > 1 THEN 1 ELSE @)]
        /\ contextCache' = [id |-> 0, logged |-> 0]
        /\ UNCHANGED <<listening, startRows, lastPrint, endOverlapped>>
    BY <1>11 DEF Prints!CreateEnd, Prints!Done, Prints!AfterEnd
  <2>2. handling[h].context \in Prints!Contexts /\ id \in 0..MaxPrints
    BY <2>1 DEF PrintsInv, Prints!Contexts
  <2>3. DOMAIN handling' = PrintHandlers /\ \A o \in PrintHandlers : handling'[o] = IF o = h THEN [at |-> "idle"] ELSE handling[o]
    BY <2>1 DEF PrintsInv
  <2>4. ~endOverlapped => id = contextCache.id
    BY <2>1 DEF PrintsInv
  <2>5. /\ endRows' \in [0..MaxPrints -> Nat] /\ \A p \in 0..MaxPrints : p # id => endRows'[p] = endRows[p]
        /\ endRows[id] = 0 => endRows'[id] = 1
    BY <2>1, <2>2 DEF PrintsInv
  <2>6. ~endOverlapped => \A p \in 1..MaxPrints : endRows'[p] <= 1 /\ (p > lastPrint => endRows'[p] = 0)
    <3> SUFFICES ASSUME ~endOverlapped, NEW p \in 1..MaxPrints
                 PROVE  endRows'[p] <= 1 /\ (p > lastPrint => endRows'[p] = 0)
      OBVIOUS
    <3>1. endRows[p] <= 1 /\ (p > lastPrint => endRows[p] = 0) /\ p \in 0..MaxPrints /\ p # 0
      BY DEF PrintsInv
    <3>2. id = contextCache.id /\ id <= lastPrint /\ (id # 0 => endRows[id] = 0)
      BY <2>4 DEF PrintsInv
    <3>3. lastPrint \in Nat
      BY DEF PrintsInv
    <3> HIDE DEF id
    <3>4. CASE p = id
      BY <2>5, <3>1, <3>2, <3>4, <3>3, <2>2
    <3>5. CASE p # id
      BY <2>5, <3>1, <3>5
    <3> QED BY <3>4, <3>5
  <2>7. [id |-> 0, logged |-> 0] \in Prints!Contexts
    BY DEF Prints!Contexts
  <2>8. Prints!CompletionsTypeOK'
    BY <2>1, <2>3, <2>5, <2>7 DEF PrintsInv
  <2> HIDE DEF id, Prints!CompletionsTypeOK
  <2> QED BY <2>1, <2>3, <2>6, <2>8 DEF PrintsInv, Prints!CompletionsTypeOK
<1>12. CASE UNCHANGED printVars
  BY <1>12 DEF PrintsInv, printVars
<1> QED BY <1>1, <1>2, <1>4, <1>5, <1>6, <1>8, <1>9, <1>10, <1>11, <1>12 DEF Prints!CompletionsNext

LEMMA PrintsStart == ASSUME MCInit PROVE PrintsInv
<1> SUFFICES ASSUME Prints!CompletionsInit PROVE PrintsInv
  BY DEF MCInit
<1> USE PrintBounds
<1>1. /\ listening = FALSE /\ contextCache = [id |-> 0, logged |-> 0] /\ lastPrint = 0
      /\ startRows = <<>> /\ endRows = [p \in 0..MaxPrints |-> 0]
      /\ handling = [h \in PrintHandlers |-> [at |-> "idle"]] /\ endOverlapped = FALSE
  BY DEF Prints!CompletionsInit, Prints!NoMessage, Prints!EmptyContext, Prints!NoId
<1>2. DOMAIN startRows = {}
  BY <1>1
<1>3. contextCache \in Prints!Contexts /\ contextCache.id = 0
  BY <1>1 DEF Prints!Contexts
<1>4. \A h \in PrintHandlers : handling[h].at = "idle"
  BY <1>1
<1>5. Prints!CompletionsTypeOK
  <2>1. DOMAIN startRows \in SUBSET (1..lastPrint) /\ \A p \in DOMAIN startRows : startRows[p] \in 0..MaxLogged
    BY <1>2
  <2>2. endRows \in [0..MaxPrints -> Nat] /\ lastPrint \in 0..MaxPrints
    BY <1>1
  <2>3. \A h \in PrintHandlers : handling[h] = Prints!NoMessage
    BY <1>1 DEF Prints!NoMessage
  <2> QED BY <1>1, <1>3, <2>1, <2>2, <2>3 DEF Prints!CompletionsTypeOK
<1>6. \A p \in 1..MaxPrints : endRows[p] = 0
  BY <1>1
<1> QED BY <1>1, <1>3, <1>4, <1>5, <1>6 DEF PrintsInv, Prints!NoId

\* However many prints and handlers: no print ends twice, if no message came while the end
\* of one was being saved.
THEOREM PrintsEndOnce == MCSpec => []OneEndPerPrint
<1>1. MCInit => PrintsInv
  BY PrintsStart
<1>2. PrintsInv /\ [MCNext]_vars => PrintsInv'
  BY Framed, PrintsKeep
<1>3. PrintsInv => OneEndPerPrint
  BY DEF PrintsInv, OneEndPerPrint, Prints!OneEndPerPrint
<1> QED BY <1>1, <1>2, <1>3, PTL DEF MCSpec

-----------------------------------------------------------------------------
(* Uploads. *)

\* Where an upload is decides in which lists it is and whether it has a listener.
UploadsInv ==
  /\ Sending!UploadsTypeOK
  /\ \A t \in Tokens :
       LET tracked == t \in currentUploads
           done    == t \in uploadsDone
           failed  == t \in uploadsFailed
           listens == t \in progressListeners
       IN  /\ uploading[t] = "none" => ~tracked /\ ~done /\ ~failed /\ ~listens
           /\ uploading[t] = "sending" => tracked /\ ~done /\ ~failed /\ listens
           /\ uploading[t] \in {"sent", "accepted"} => ~tracked /\ done /\ ~failed /\ ~listens
           /\ uploading[t] = "refused" =>
                \/ ~tracked /\ ~listens /\ (done <=> ~failed)
                \/ t \in MoonrakerTokens /\ ~done /\ ~failed

LEMMA UploadsKeep ==
  ASSUME UploadsInv, [Sending!UploadsNext]_uploadVars
  PROVE  UploadsInv'
<1> USE DEF Sending!UploadsTypeOK, Sending!UpdateUploadProgress, Sending!MarkUploadDone, Sending!Moved,
            Sending!UploadGoes
<1>1. ASSUME NEW t \in Tokens, Sending!AddUploadTracker(t) PROVE UploadsInv'
  BY <1>1 DEF UploadsInv, Sending!AddUploadTracker
<1>2. ASSUME NEW t \in Tokens, Sending!SendLast(t) PROVE UploadsInv'
  BY <1>2 DEF UploadsInv, Sending!SendLast
<1>3. ASSUME NEW t \in Tokens, Sending!Refuse(t) PROVE UploadsInv'
  BY <1>3 DEF UploadsInv, Sending!Refuse, Sending!Failure
<1>4. ASSUME NEW t \in Tokens, Sending!Accept(t) PROVE UploadsInv'
  BY <1>4 DEF UploadsInv, Sending!Accept
<1>5. CASE UNCHANGED uploadVars
  BY <1>5 DEF UploadsInv, uploadVars
<1> QED BY <1>1, <1>2, <1>3, <1>4, <1>5 DEF Sending!UploadsNext

\* However many uploads run side by side: one whose request ended is in one list of the
\* ended ones and its listener is gone, but for one to Moonraker that failed.
THEOREM UploadsSettle == MCSpec => []EndedUploadsAreSettled
<1>1. MCInit => UploadsInv
  BY DEF MCInit, UploadsInv, Sending!UploadsInit, Sending!UploadsTypeOK
<1>2. UploadsInv /\ [MCNext]_vars => UploadsInv'
  BY Framed, UploadsKeep
<1>3. UploadsInv => EndedUploadsAreSettled
  BY DEF UploadsInv, EndedUploadsAreSettled, Sending!EndedUploadsAreSettled, Sending!UploadsTypeOK
<1> QED BY <1>1, <1>2, <1>3, PTL DEF MCSpec

-----------------------------------------------------------------------------
(* Thumbnails. *)

\* Memory is as the file says.
Follows ==
  \/ thumbnail = Thumbs!LoadedCache(thumbnailSupport)
  \/ thumbnailSupport /\ thumbnail = "" /\ thumbnailFile = "none"

\* Until operations overlap there is one of them at most; a load is one with support, and
\* has written the file that it is about to show.
ThumbnailsInv ==
  /\ DOMAIN loading = ThumbnailLoads
  /\ thumbnailSupport \in BOOLEAN /\ switching \in BOOLEAN /\ thumbnailsOverlapped \in BOOLEAN
  /\ ~thumbnailsOverlapped =>
       /\ \A l \in ThumbnailLoads : loading[l] # Thumbs!NoLoad => thumbnailSupport /\ ~switching
       /\ \A l, k \in ThumbnailLoads : loading[l] # Thumbs!NoLoad /\ loading[k] # Thumbs!NoLoad => l = k
       /\ \A l \in ThumbnailLoads :
            loading[l].at = "set" => thumbnailFile = Thumbs!FileOf(loading[l].image)
       /\ ~Thumbs!ThumbnailsBusy => Follows
  /\ \A l \in ThumbnailLoads :
       /\ loading[l] \in [at : {"idle", "extract", "write", "set"}, image : Images \cup {"none", ""}]
       /\ loading[l].at = "idle" => loading[l] = Thumbs!NoLoad

LEMMA ThumbnailsKeep ==
  ASSUME ThumbnailsInv, [Thumbs!ThumbnailsNext]_thumbnailVars
  PROVE  ThumbnailsInv'
<1> USE DEF Thumbs!NoLoad, Thumbs!ThumbnailsBusy, Thumbs!LoadedCache, Thumbs!FileOf, Follows
<1> DEFINE Loads == [at : {"idle", "extract", "write", "set"}, image : Images \cup {"none", ""}]
           None == [at |-> "idle", image |-> "none"]
<1>1. CASE Thumbs!SwitchSupport
  BY <1>1 DEF ThumbnailsInv, Thumbs!SwitchSupport, Thumbs!Overlaps
<1>2. CASE Thumbs!ApplySupport
  BY <1>2 DEF ThumbnailsInv, Thumbs!ApplySupport
<1>3. CASE Thumbs!ThumbnailPrinterDeleted
  <2>1. ~thumbnailsOverlapped' => \A l \in ThumbnailLoads : loading[l] = None
    BY <1>3 DEF Thumbs!ThumbnailPrinterDeleted, Thumbs!Overlaps
  <2>2. /\ thumbnailSupport /\ thumbnailFile' = "none" /\ thumbnail' = "none"
        /\ UNCHANGED <<thumbnailSupport, loading, switching>>
    BY <1>3 DEF Thumbs!ThumbnailPrinterDeleted
  <2>3. Follows' /\ thumbnailsOverlapped' \in BOOLEAN
    BY <1>3, <2>2 DEF Thumbs!ThumbnailPrinterDeleted, Thumbs!Overlaps
  <2>4. None.at # "set"
    OBVIOUS
  <2> HIDE DEF Follows, Thumbs!ThumbnailsBusy, Thumbs!FileOf
  <2>5. \A l \in ThumbnailLoads : loading'[l] = loading[l]
    BY <2>2
  <2> QED BY <2>1, <2>2, <2>3, <2>4, <2>5 DEF ThumbnailsInv
<1>4. CASE Thumbs!ThumbnailsRestart
  BY <1>4 DEF ThumbnailsInv, Thumbs!ThumbnailsRestart
<1>5. ASSUME NEW l \in ThumbnailLoads, Thumbs!StartLoad(l) PROVE ThumbnailsInv'
  BY <1>5 DEF ThumbnailsInv, Thumbs!StartLoad, Thumbs!Overlaps
<1>6. ASSUME NEW l \in ThumbnailLoads, NEW x \in Loads, x.at = "idle" => x = None, loading[l] # None,
             loading' = [loading EXCEPT ![l] = x],
             x.at = "set" => thumbnailFile' = Thumbs!FileOf(x.image),
             x.at = "idle" /\ ~thumbnailsOverlapped => Follows',
             UNCHANGED <<thumbnailSupport, switching, thumbnailsOverlapped>>
      PROVE  ThumbnailsInv'
  <2>1. DOMAIN loading' = ThumbnailLoads /\ \A k \in ThumbnailLoads : loading'[k] = IF k = l THEN x ELSE loading[k]
    BY <1>6 DEF ThumbnailsInv
  <2>2. ~thumbnailsOverlapped => thumbnailSupport /\ ~switching /\ \A k \in ThumbnailLoads : k # l => loading[k] = None
    BY <1>6 DEF ThumbnailsInv
  <2>0. None.at = "idle"
    OBVIOUS
  <2>3. ~thumbnailsOverlapped' /\ ~Thumbs!ThumbnailsBusy' => x.at = "idle"
    <3>1. ~Thumbs!ThumbnailsBusy' => loading'[l] = None
      OBVIOUS
    <3> HIDE DEF None
    <3> QED BY <2>0, <2>1, <3>1
  <2>4. ~thumbnailsOverlapped' /\ ~Thumbs!ThumbnailsBusy' => Follows'
    BY <1>6, <2>3
  <2>5. \A k \in ThumbnailLoads : loading'[k] \in Loads /\ (loading'[k].at = "idle" => loading'[k] = None)
    BY <1>6, <2>1 DEF ThumbnailsInv
  <2>6. ~thumbnailsOverlapped =>
          \A k \in ThumbnailLoads : loading'[k].at = "set" => thumbnailFile' = Thumbs!FileOf(loading'[k].image)
    <3> HIDE DEF None, Thumbs!FileOf
    <3> QED BY <1>6, <2>0, <2>1, <2>2
  <2>7. ~thumbnailsOverlapped => \A k \in ThumbnailLoads : loading'[k] # None => k = l
    BY <2>1, <2>2
  <2> HIDE DEF Follows, Thumbs!ThumbnailsBusy, Thumbs!FileOf
  <2> QED BY <1>6, <2>1, <2>2, <2>4, <2>5, <2>6, <2>7 DEF ThumbnailsInv
<1>7. ASSUME NEW l \in ThumbnailLoads, NEW image \in Images \cup {""}, Thumbs!Extracted(l, image)
      PROVE  ThumbnailsInv'
  <2> DEFINE x == [at |-> "write", image |-> image]
  <2>1. /\ loading[l].at = "extract" /\ loading' = [loading EXCEPT ![l] = x]
        /\ UNCHANGED <<thumbnailSupport, switching, thumbnailsOverlapped>>
    BY <1>7 DEF Thumbs!Extracted
  <2>2. x \in Loads /\ x.at = "write"
    OBVIOUS
  <2>3. loading[l] # None
    <3>1. None.at = "idle"
      OBVIOUS
    <3> HIDE DEF None, x
    <3> QED BY <2>1, <3>1
  <2> HIDE DEF x, Follows, Thumbs!FileOf
  <2> QED BY <1>6, <2>1, <2>2, <2>3
<1>8. ASSUME NEW l \in ThumbnailLoads, Thumbs!LoadFails(l) PROVE ThumbnailsInv'
  <2>1. /\ loading[l].at \in {"extract", "write"} /\ loading' = [loading EXCEPT ![l] = None]
        /\ thumbnailFile' = "none" /\ thumbnail' = "none"
        /\ UNCHANGED <<thumbnailSupport, switching, thumbnailsOverlapped>>
    BY <1>8 DEF Thumbs!LoadFails
  <2>2. loading[l] # None
    BY <2>1
  <2>3. ~thumbnailsOverlapped => thumbnailSupport
    BY <2>2 DEF ThumbnailsInv
  <2>4. thumbnailSupport => Follows'
    BY <2>1
  <2>5. None \in Loads /\ None.at = "idle"
    OBVIOUS
  <2> HIDE DEF None, Follows, Thumbs!FileOf
  <2> QED BY <1>6, <2>1, <2>2, <2>3, <2>4, <2>5
<1>9. ASSUME NEW l \in ThumbnailLoads, Thumbs!WriteThumbnailFile(l) PROVE ThumbnailsInv'
  <2> DEFINE x == [loading[l] EXCEPT !.at = "set"]
  <2>1. /\ loading' = [loading EXCEPT ![l] = x] /\ loading[l].at = "write"
        /\ thumbnailFile' = Thumbs!FileOf(loading[l].image)
        /\ UNCHANGED <<thumbnailSupport, switching, thumbnailsOverlapped>>
    BY <1>9 DEF Thumbs!WriteThumbnailFile, ThumbnailsInv
  <2>2. x \in Loads /\ x.at = "set" /\ x.image = loading[l].image
    BY DEF ThumbnailsInv
  <2>3. loading[l] # None
    <3>1. None.at = "idle"
      OBVIOUS
    <3> HIDE DEF None, x
    <3> QED BY <2>1, <3>1
  <2> HIDE DEF x, Follows, Thumbs!FileOf
  <2> QED BY <1>6, <2>1, <2>2, <2>3
<1>10. ASSUME NEW l \in ThumbnailLoads, Thumbs!SetPrinterThumbnail(l) PROVE ThumbnailsInv'
  <2>1. /\ loading[l].at = "set" /\ loading' = [loading EXCEPT ![l] = None]
        /\ thumbnail' = loading[l].image
        /\ UNCHANGED <<thumbnailSupport, thumbnailFile, switching, thumbnailsOverlapped>>
    BY <1>10 DEF Thumbs!SetPrinterThumbnail
  <2>2. loading[l] # None
    BY <2>1
  <2>3. ~thumbnailsOverlapped => thumbnailSupport /\ thumbnailFile = Thumbs!FileOf(loading[l].image)
    BY <2>1, <2>2 DEF ThumbnailsInv
  <2>4. ~thumbnailsOverlapped => Follows'
    BY <2>1, <2>3
  <2>5. None \in Loads /\ None.at = "idle"
    OBVIOUS
  <2> HIDE DEF None, Follows, Thumbs!FileOf
  <2> QED BY <1>6, <2>1, <2>2, <2>4, <2>5
<1>11. CASE UNCHANGED thumbnailVars
  BY <1>11 DEF ThumbnailsInv, thumbnailVars
<1> QED BY <1>1, <1>2, <1>3, <1>4, <1>5, <1>7, <1>8, <1>9, <1>10, <1>11 DEF Thumbs!ThumbnailsNext

\* However loads, switches of the support, deletions and restarts follow each other: between
\* those that did not overlap memory shows what the file says.
THEOREM ThumbnailsFollow == MCSpec => []ThumbnailFollowsFile
<1>1. MCInit => ThumbnailsInv
  <2> SUFFICES ASSUME Thumbs!ThumbnailsInit PROVE ThumbnailsInv
    BY DEF MCInit
  <2>1. \A l \in ThumbnailLoads : loading[l] = Thumbs!NoLoad
    BY DEF Thumbs!ThumbnailsInit
  <2>2. thumbnail = Thumbs!LoadedCache(thumbnailSupport)
    BY DEF Thumbs!ThumbnailsInit, Thumbs!LoadedCache
  <2>3. Thumbs!NoLoad.at = "idle"
        /\ Thumbs!NoLoad \in [at : {"idle", "extract", "write", "set"}, image : Images \cup {"none", ""}]
    BY DEF Thumbs!NoLoad
  <2> QED BY <2>1, <2>2, <2>3 DEF ThumbnailsInv, Follows, Thumbs!ThumbnailsInit
<1>2. ThumbnailsInv /\ [MCNext]_vars => ThumbnailsInv'
  BY Framed, ThumbnailsKeep
<1>3. ThumbnailsInv => ThumbnailFollowsFile
  BY DEF ThumbnailsInv, Follows, ThumbnailFollowsFile, Thumbs!ThumbnailFollowsFile
<1> QED BY <1>1, <1>2, <1>3, PTL DEF MCSpec

-----------------------------------------------------------------------------
(* What clients are shown. *)

\* No client is shown a moment that is yet to come.
WatchersInv ==
  /\ moment \in Nat /\ moment >= Watchers!FirstMoment
  /\ shown \in [IoClients -> Nat] /\ \A c \in IoClients : shown[c] <= moment

\* What a step may do to what clients are shown.
ShownLater == \A c \in IoClients : shown'[c] # Watchers!NotConnected => shown'[c] >= shown[c]

LEMMA WatchersKeep ==
  ASSUME WatchersInv, [Watchers!IoNext]_ioVars
  PROVE  WatchersInv' /\ ShownLater
<1> USE DEF Watchers!FirstMoment, Watchers!NotConnected, Watchers!NothingYet
<1>1. CASE Watchers!StateChanges
  BY <1>1 DEF WatchersInv, ShownLater, Watchers!StateChanges
<1>2. CASE Watchers!FloorsDeleted \/ Watchers!AttachServer \/ UNCHANGED ioVars
  BY <1>2 DEF WatchersInv, ShownLater, Watchers!FloorsDeleted, Watchers!AttachServer, ioVars
<1>3. ASSUME NEW to \in [IoClients -> Nat], NEW begun,
             \A c \in IoClients : to[c] <= moment /\ to[c] >= shown[c],
             shown' = to \/ Watchers!Send(to, begun), UNCHANGED moment
      PROVE  WatchersInv' /\ ShownLater
  BY <1>3 DEF WatchersInv, ShownLater, Watchers!Send, Watchers!ReadAt
<1>4. CASE Watchers!Run
  BY <1>3, <1>4 DEF WatchersInv, Watchers!Run, Watchers!SendUpdate
<1>5. ASSUME NEW c \in IoClients, Watchers!OnConnect(c) PROVE WatchersInv' /\ ShownLater
  <2> DEFINE to == [shown EXCEPT ![c] = 1]
  <2>1. to \in [IoClients -> Nat] /\ \A o \in IoClients : to[o] <= moment /\ to[o] >= shown[o]
    BY <1>5 DEF WatchersInv, Watchers!OnConnect
  <2>2. (shown' = to \/ Watchers!Send(to, moment)) /\ UNCHANGED moment
    BY <1>5 DEF Watchers!OnConnect, Watchers!SendUpdate
  <2> HIDE DEF to
  <2> QED BY <1>3, <2>1, <2>2
<1>6. ASSUME NEW c \in IoClients, Watchers!Disconnect(c) PROVE WatchersInv' /\ ShownLater
  BY <1>6 DEF WatchersInv, ShownLater, Watchers!Disconnect
<1>7. ASSUME NEW a \in Watchers!Askers, Watchers!FloorsLoaded(a) \/ Watchers!FloorsFail(a)
      PROVE  WatchersInv' /\ ShownLater
  <2>1. (shown' = shown \/ Watchers!Send(shown, stateUpdate[a])) /\ UNCHANGED moment
    BY <1>7 DEF Watchers!FloorsLoaded, Watchers!FloorsFail
  <2> QED BY <1>3, <2>1 DEF WatchersInv
<1> QED BY <1>1, <1>2, <1>4, <1>5, <1>6, <1>7 DEF Watchers!IoNext

\* However many clients come and go and however updates overtake each other: none that stays
\* is shown an older state than before.
THEOREM ShownNeverOlder == MCSpec => NeverShownOlder
<1>1. MCInit => WatchersInv
  BY DEF MCInit, WatchersInv, Watchers!IoInit, Watchers!FirstMoment, Watchers!NotConnected
<1>2. WatchersInv /\ [MCNext]_vars => WatchersInv'
  BY Framed, WatchersKeep
<1>3. WatchersInv /\ [MCNext]_vars => [ShownLater]_Watchers!ioVars
  BY Framed, WatchersKeep
<1> QED BY <1>1, <1>2, <1>3, PTL DEF MCSpec, NeverShownOlder, Watchers!NeverShownOlder, ShownLater

-----------------------------------------------------------------------------
(* Scans for firmware. *)

\* Each printer of a scan is left, is asked, or has its answer.
Scans ==
  {c \in [kind : {"scan"}, at : {"next", "plugin", "version"}, printers : SUBSET Scanned,
          left : SUBSET Scanned, asked : SUBSET Scanned, states : SUBSET Scanned, failures : SUBSET Scanned] :
     /\ c.printers = c.left \cup c.asked \cup c.states \cup c.failures
     /\ c.left \cap (c.asked \cup c.states \cup c.failures) = {}
     /\ c.asked \cap (c.states \cup c.failures) = {} /\ c.states \cap c.failures = {}
     /\ c.at = "next" => c.asked = {}}

UpdatesInv ==
  /\ DOMAIN firmwareCall = FirmwareRequests /\ scannable \in SUBSET Scanned
  /\ \A r \in FirmwareRequests : firmwareCall[r].kind = "scan" => firmwareCall[r] \in Scans
  /\ Updates!ScanTellsOfEach

LEMMA UpdatesKeep ==
  ASSUME UpdatesInv, [Updates!FirmwareNext]_firmwareVars
  PROVE  UpdatesInv'
<1> USE DEF Updates!NoCall
<1>1. ASSUME NEW r \in FirmwareRequests, NEW call, call.kind = "scan" => call \in Scans,
             Updates!Calls(r, call), UNCHANGED <<scannable, scanOutcome>>
      PROVE  UpdatesInv'
  BY <1>1 DEF UpdatesInv, Updates!Calls, Updates!ScanTellsOfEach
<1>2. CASE Updates!Publish \/ Updates!QueryReleases \/ UNCHANGED firmwareVars
  BY <1>2 DEF UpdatesInv, Updates!Publish, Updates!QueryReleases, firmwareVars, Updates!ScanTellsOfEach
<1>3. ASSUME NEW p \in Scanned, Updates!PrinterForgotten(p) PROVE UpdatesInv'
  BY <1>3 DEF UpdatesInv, Updates!PrinterForgotten, Updates!ScanTellsOfEach
<1>4. ASSUME NEW r \in FirmwareRequests,
             \/ Updates!DownloadFirmware(r) \/ Updates!DownloadEnds(r) \/ Updates!PrinterAnswers(r)
             \/ \E p \in Scanned : Updates!InstallPlugin(r, p) \/ Updates!FlashFirmware(r, p)
      PROVE  UpdatesInv'
  <2> PICK call : Updates!Calls(r, call) /\ call.kind # "scan" /\ UNCHANGED <<scannable, scanOutcome>>
    BY <1>4 DEF Updates!DownloadFirmware, Updates!DownloadEnds, Updates!PrinterAnswers,
                Updates!InstallPlugin, Updates!FlashFirmware
  <2> QED BY <1>1
<1>5. ASSUME NEW r \in FirmwareRequests, Updates!StartScan(r) PROVE UpdatesInv'
  <2> DEFINE call == [kind |-> "scan", at |-> "next", printers |-> scannable, left |-> scannable,
                      asked |-> {}, states |-> {}, failures |-> {}]
  <2>1. call \in Scans
    BY DEF Scans, UpdatesInv
  <2>2. Updates!Calls(r, call) /\ UNCHANGED <<scannable, scanOutcome>>
    BY <1>5 DEF Updates!StartScan
  <2> HIDE DEF call
  <2> QED BY <1>1, <2>1, <2>2
<1>6. ASSUME NEW call \in Scans
      PROVE  Updates!AfterFailure(call) \in Scans /\ Updates!AfterSuccess(call) \in Scans
  BY DEF Scans, Updates!AfterFailure, Updates!AfterSuccess
<1>7. ASSUME NEW r \in FirmwareRequests, NEW p \in Scanned, Updates!ScanNext(r, p) PROVE UpdatesInv'
  <2> DEFINE call == firmwareCall[r]
             asking == [call EXCEPT !.at = "plugin", !.asked = {p}, !.left = @ \ {p}]
  <2>1. call \in Scans /\ call.at = "next" /\ p \in call.left
    BY <1>7 DEF UpdatesInv, Updates!ScanNext
  <2>2. asking \in Scans
    <3> HIDE DEF call
    <3>0. call \in [kind : {"scan"}, at : {"next", "plugin", "version"}, printers : SUBSET Scanned,
                    left : SUBSET Scanned, asked : SUBSET Scanned, states : SUBSET Scanned, failures : SUBSET Scanned]
      BY <2>1 DEF Scans
    <3>1. /\ asking \in [kind : {"scan"}, at : {"next", "plugin", "version"}, printers : SUBSET Scanned,
                        left : SUBSET Scanned, asked : SUBSET Scanned, states : SUBSET Scanned, failures : SUBSET Scanned]
          /\ asking.at = "plugin" /\ asking.printers = call.printers /\ asking.left = call.left \ {p}
          /\ asking.asked = {p} /\ asking.states = call.states /\ asking.failures = call.failures
      BY <3>0
    <3>2. /\ call.printers = call.left \cup call.states \cup call.failures /\ p \in call.left
          /\ call.left \cap (call.states \cup call.failures) = {} /\ call.states \cap call.failures = {}
          /\ call.printers \in SUBSET Scanned /\ call.left \in SUBSET Scanned
          /\ call.states \in SUBSET Scanned /\ call.failures \in SUBSET Scanned
      BY <2>1 DEF Scans
    <3> HIDE DEF asking
    <3> QED BY <3>1, <3>2 DEF Scans
  <2>3. Updates!Calls(r, IF p \in scannable THEN asking ELSE Updates!AfterFailure(asking))
        /\ UNCHANGED <<scannable, scanOutcome>>
    BY <1>7 DEF Updates!ScanNext
  <2> HIDE DEF asking
  <2>4. (IF p \in scannable THEN asking ELSE Updates!AfterFailure(asking)) \in Scans
    BY <1>6, <2>2
  <2> QED BY <1>1, <2>3, <2>4
<1>8. ASSUME NEW r \in FirmwareRequests, Updates!ScanAnswered(r) PROVE UpdatesInv'
  <2> DEFINE call == firmwareCall[r]
  <2>1. call \in Scans /\ call.at # "next"
    BY <1>8 DEF UpdatesInv, Updates!ScanAnswered
  <2>2. call.at = "plugin" => [call EXCEPT !.at = "version"] \in Scans
    <3> HIDE DEF call
    <3> QED BY <2>1 DEF Scans
  <2>3. /\ \/ Updates!Calls(r, Updates!AfterFailure(call)) \/ Updates!Calls(r, Updates!AfterSuccess(call))
           \/ call.at = "plugin" /\ Updates!Calls(r, [call EXCEPT !.at = "version"])
        /\ UNCHANGED <<scannable, scanOutcome>>
    BY <1>8 DEF Updates!ScanAnswered
  <2> HIDE DEF call
  <2> QED BY <1>1, <1>6, <2>1, <2>2, <2>3
<1>9. ASSUME NEW r \in FirmwareRequests, Updates!ScanEnds(r) PROVE UpdatesInv'
  <2> DEFINE call == firmwareCall[r]
  <2>1. /\ call \in Scans /\ call.at = "next" /\ call.left = {}
        /\ firmwareCall' = [firmwareCall EXCEPT ![r] = [kind |-> "none"]]
        /\ scanOutcome' = [printers |-> call.printers, states |-> call.states, failures |-> call.failures]
        /\ UNCHANGED scannable
    BY <1>9 DEF UpdatesInv, Updates!ScanEnds, Updates!Calls
  <2>2. call.states \cup call.failures = call.printers /\ call.states \cap call.failures = {}
    <3> HIDE DEF call
    <3> QED BY <2>1 DEF Scans
  <2> HIDE DEF call
  <2>3. Updates!ScanTellsOfEach'
    BY <2>1, <2>2 DEF Updates!ScanTellsOfEach
  <2> QED BY <2>1, <2>3 DEF UpdatesInv
<1> QED BY <1>2, <1>3, <1>4, <1>5, <1>7, <1>8, <1>9 DEF Updates!FirmwareNext

LEMMA UpdatesStart == ASSUME MCInit PROVE UpdatesInv
BY DEF MCInit, UpdatesInv, Updates!FirmwareInit, Updates!NoCall, Updates!NoOutcome,
   Updates!ScanTellsOfEach

\* However many printers a scan asks, whichever fail or are deleted, and however scans
\* overlap: the outcome tells of every printer of its scan, once.
THEOREM ScansAreWhole == MCSpec => []ScanTellsOfEach
<1>1. MCInit => UpdatesInv
  BY UpdatesStart
<1>2. UpdatesInv /\ [MCNext]_vars => UpdatesInv'
  BY Framed, UpdatesKeep
<1>3. UpdatesInv => ScanTellsOfEach
  BY DEF UpdatesInv, ScanTellsOfEach
<1> QED BY <1>1, <1>2, <1>3, PTL DEF MCSpec

-----------------------------------------------------------------------------
(* Calls of printers' APIs. *)

MachineOps == Machines!UserOps

\* What a printer of either type does of what it is asked is what the name of the call says.
LEMMA DoesAsNamed ==
  ASSUME NEW op \in MachineOps, NEW p \in Machines!ApiPrinters, machine \in [Machines!ApiPrinters -> Machines!Machines],
         ~Machines!Throws(op, p), NEW d \in Machines!Does(op, p)
  PROVE  d \in Machines!Machines /\ d.job \in Machines!Interface!Outcomes(op, machine[p].job)
<1> DEFINE m == machine[p]
<1>1. m \in Machines!Machines /\ m.up \in BOOLEAN /\ m.job \in {"idle", "printing", "paused"} /\ m.last \in BOOLEAN
  BY DEF Machines!Machines
<1>2. /\ Machines!Started(m) = IF m.up /\ m.job = "idle" THEN {[m EXCEPT !.job = "printing", !.last = TRUE]} ELSE {}
      /\ \A up \in BOOLEAN : Machines!Idle(m, up) \in Machines!Machines /\ Machines!Idle(m, up).job = "idle"
      /\ \A j \in {"idle", "printing", "paused"} : Machines!To(m, j) \in Machines!Machines /\ Machines!To(m, j).job = j
      /\ [m EXCEPT !.up = TRUE] \in Machines!Machines /\ [m EXCEPT !.up = TRUE].job = m.job
  BY <1>1 DEF Machines!Started, Machines!Idle, Machines!To, Machines!Machines
<1>3. \A s \in Machines!Started(m) : s \in Machines!Machines /\ m.job = "idle" /\ s.job = "printing"
  <2> DEFINE s == [m EXCEPT !.job = "printing", !.last = TRUE]
  <2>1. s \in Machines!Machines /\ s.job = "printing"
    BY <1>1 DEF Machines!Machines
  <2> HIDE DEF s
  <2>2. Machines!Started(m) = IF m.up /\ m.job = "idle" THEN {s} ELSE {}
    BY <1>2 DEF s
  <2> QED BY <2>1, <2>2
<1> HIDE DEF m
<1>4. CASE p \in OctoPrints
  <2>1. d \in Machines!OctoPrintDoes(Machines!OctoPrintCommands(op), m)
    BY <1>4 DEF Machines!Does, m
  <2> USE DEF Machines!OctoPrintCommands, Machines!OctoPrintDoes, Machines!JobCommands, Machines!ConnectionCommands,
              Machines!OctoPrintOthers, Machines!Interface!Outcomes
  <2>2. CASE op = "startPrint"
    BY <1>1, <1>3, <2>1, <2>2 DEF m
  <2>3. CASE op = "pausePrint"
    BY <1>1, <1>2, <2>1, <2>3 DEF m
  <2>4. CASE op = "resumePrint"
    BY <1>1, <1>2, <2>1, <2>4 DEF m
  <2>5. CASE op = "cancelPrint"
    BY <1>1, <1>2, <2>1, <2>5 DEF m
  <2>6. CASE op = "quickStop"
    BY <1>1, <1>2, <2>1, <2>6 DEF m
  <2>7. CASE op = "connect"
    BY <1>1, <1>2, <2>1, <2>7 DEF m
  <2>8. CASE op = "disconnect"
    BY <1>1, <1>2, <2>1, <2>8 DEF m
  <2>9. CASE op = "restartServer"
    BY <1>1, <1>2, <2>1, <2>9 DEF m
  <2>10. CASE op = "uploadFile"
    BY <1>1, <1>3, <2>1, <2>10 DEF m
  <2>11. CASE op = "homeAxes"
    BY <1>1, <1>2, <2>1, <2>11 DEF m
  <2>12. CASE op = "getVersion"
    BY <1>1, <1>2, <2>1, <2>12 DEF m
  <2> QED BY <2>2, <2>3, <2>4, <2>5, <2>6, <2>7, <2>8, <2>9, <2>10, <2>11, <2>12 DEF MachineOps,
                                                                                     Machines!UserOps
<1>5. CASE p \notin OctoPrints
  <2>1. d \in Machines!MoonrakerDoes(Machines!MoonrakerCommands(op), m) /\ op \notin {"connect", "disconnect"}
    BY <1>5 DEF Machines!Does, Machines!Throws, Machines!ApiPrinters, m
  <2> USE DEF Machines!MoonrakerCommands, Machines!MoonrakerDoes, Machines!PrintCommands,
              Machines!MoonrakerOthers, Machines!Interface!Outcomes
  <2>2. CASE op = "startPrint"
    BY <1>1, <1>3, <2>1, <2>2 DEF m
  <2>3. CASE op = "pausePrint"
    BY <1>1, <1>2, <2>1, <2>3 DEF m
  <2>4. CASE op = "resumePrint"
    BY <1>1, <1>2, <2>1, <2>4 DEF m
  <2>5. CASE op = "cancelPrint"
    BY <1>1, <1>2, <2>1, <2>5 DEF m
  <2>6. CASE op = "quickStop"
    BY <1>1, <1>2, <2>1, <2>6 DEF m
  <2>7. CASE op = "restartServer"
    BY <1>1, <2>1, <2>7 DEF m
  <2>8. CASE op = "uploadFile"
    BY <1>1, <2>1, <2>8 DEF m
  <2>9. CASE op = "homeAxes"
    BY <1>1, <2>1, <2>9 DEF m
  <2>10. CASE op = "getVersion"
    BY <1>1, <2>1, <2>10 DEF m
  <2> QED BY <2>1, <2>2, <2>3, <2>4, <2>5, <2>6, <2>7, <2>8, <2>9, <2>10 DEF MachineOps,
                                                                             Machines!UserOps
<1> QED BY <1>4, <1>5

\* A printer's instance of the API is its own.  A part of a batch asks that printer and no
\* other, and is sent only as what the batch is.
ApiInv ==
  /\ machine \in [Machines!ApiPrinters -> Machines!Machines]
  /\ cachedPrinters \subseteq Machines!ApiPrinters /\ DOMAIN apiLogin = Machines!ApiInstances
  /\ DOMAIN userCall = ApiUsers
  /\ \A u \in ApiUsers : userCall[u] # Machines!NoApiCall =>
       /\ userCall[u] \in [op : MachineOps, printer : Machines!ApiPrinters]
       /\ ~Machines!Throws(userCall[u].op, userCall[u].printer)
  /\ batch \in [op : {"none", "list", "startPrint", "connect"}, todo : Seq(Machines!ApiPrinters),
                ended : {"none", "answered", "error"}]
  /\ batch.op \in {"none", "list"} => batch.todo = <<>>
  /\ batch.op = "list" => batch.ended # "error"
  /\ batchCall \in [Machines!ApiPrinters ->
                      [step : {"none", "login", "first", "second", "sent", "done"}, of : SUBSET Machines!ApiPrinters,
                       ready : BOOLEAN, result : {"none", "success", "failure", "unavailable", "noLast", "last"}]]
  /\ \A p \in Machines!ApiPrinters :
       /\ batchCall[p].of \subseteq {p}
       /\ batchCall[p].step \in {"first", "second"} => apiLogin[p] = p
       /\ batchCall[p].step = "sent" => batch.op \in {"startPrint", "connect"} /\ ~Machines!Throws(batch.op, p)
       /\ batchCall[p].step = "done" => batchCall[p].result # "none"

\* The state of the interface, and what a step of it is.
Jobs == [p \in Machines!ApiPrinters |-> machine[p].job]
Made == {[id |-> u, op |-> userCall[u].op, printer |-> userCall[u].printer] :
           u \in {v \in ApiUsers : userCall[v] # Machines!NoApiCall}}
        \cup {[id |-> p, op |-> batch.op, printer |-> p] :
                p \in {q \in Machines!ApiPrinters : batchCall[q].step = "sent"}}
InterfaceStep ==
  \/ \E c \in Made' \ Made : Made' = Made \cup {[id |-> c.id, op |-> c.op, printer |-> c.printer]} /\ UNCHANGED Jobs
  \/ \E c \in Made : /\ Made' = Made \ {c}
                     /\ \E job \in Machines!Interface!Outcomes(c.op, Jobs[c.printer]) : Jobs' = [Jobs EXCEPT ![c.printer] = job]
  \/ \E p \in Machines!ApiPrinters : /\ \E job \in {"idle", "printing"} : Jobs[p] # "paused" /\ Jobs' = [Jobs EXCEPT ![p] = job]
                                     /\ UNCHANGED Made
  \/ UNCHANGED <<Jobs, Made>>


LEMMA InterfaceSteps == ASSUME InterfaceStep PROVE [Machines!Interface!Next]_(Machines!Interface!vars)
BY DEF InterfaceStep, Machines!Interface!Next, Machines!Interface!vars, Machines!Interface!Make,
       Machines!Interface!Return, Machines!Interface!ByItself, Jobs, Made

LEMMA ApiKeep ==
  ASSUME ApiInv, [Machines!ApiNext]_apiVars
  PROVE  ApiInv' /\ InterfaceStep
<1> USE MachinesAreApart
<1> DEFINE Printers == Machines!ApiPrinters
           Results == {"none", "success", "failure", "unavailable", "noLast", "last"}
           Parts == [step : {"none", "login", "first", "second", "sent", "done"}, of : SUBSET Printers,
                     ready : BOOLEAN, result : Results]
           Sent(p) == batchCall[p].step = "sent"
           PartOK(p) == /\ batchCall[p].of \subseteq {p}
                        /\ batchCall[p].step \in {"first", "second"} => apiLogin[p] = p
                        /\ Sent(p) => batch.op \in {"startPrint", "connect"} /\ ~Machines!Throws(batch.op, p)
                        /\ batchCall[p].step = "done" => batchCall[p].result # "none"
           OtherBatch == [op : {"none", "list", "startPrint", "connect"}, todo : Seq(Printers),
                          ended : {"none", "answered", "error"}]
<1>1. /\ \A p \in Printers : p \in Machines!ApiInstances /\ Machines!ApiOf(p, p) = p
      /\ \A p \in Printers, u \in ApiUsers : p # u
      /\ MachineOps = Machines!UserOps /\ "startPrint" \in MachineOps /\ "connect" \in MachineOps
  BY DEF Machines!ApiInstances, Machines!ApiOf, Machines!ApiPrinters, MachineOps, Machines!UserOps
<1>2. UNCHANGED machine => UNCHANGED Jobs
  BY DEF Jobs
<1>3. batchCall \in [Printers -> Parts] /\ batch \in OtherBatch /\ \A p \in Printers : PartOK(p)
  BY DEF ApiInv
<1> HIDE DEF Printers, Results, Parts, OtherBatch
\* Made depends on the calls of users, the parts that are sent, and what the batch is.
<1>4. ASSUME UNCHANGED userCall, \A p \in Printers : Sent(p)' <=> Sent(p), batch'.op = batch.op \/ \A p \in Printers : ~Sent(p)
      PROVE  UNCHANGED Made
  BY <1>4 DEF Made, Printers
\* The part of one printer goes on, what was sent stays sent.
<1>5. ASSUME NEW p \in Printers, NEW x \in Parts, batchCall' = [batchCall EXCEPT ![p] = x], PartOK(p)',
             UNCHANGED <<cachedPrinters, userCall>>, machine' \in [Printers -> Machines!Machines],
             DOMAIN apiLogin' = Machines!ApiInstances, \A q \in Printers : apiLogin'[q] = apiLogin[q] \/ q = p,
             batch' \in OtherBatch, batch'.op = batch.op, batch.op \in {"none", "list"} => UNCHANGED batch
      PROVE  ApiInv'
  <2>1. batchCall' \in [Printers -> Parts] /\ \A q \in Printers : q # p => batchCall'[q] = batchCall[q]
    BY <1>3, <1>5
  <2>2. \A q \in Printers : PartOK(q)'
    BY <1>3, <1>5, <2>1
  <2>3. /\ batch'.op \in {"none", "list"} => batch'.todo = <<>>
        /\ batch'.op = "list" => batch'.ended # "error"
    BY <1>5 DEF ApiInv
  <2> QED BY <1>5, <2>1, <2>2, <2>3 DEF ApiInv, Printers, Parts, Results, OtherBatch
<1>6. ASSUME NEW p \in Printers, NEW x \in Parts, batchCall' = [batchCall EXCEPT ![p] = x], ~Sent(p), x.step # "sent"
      PROVE  \A q \in Printers : Sent(q)' <=> Sent(q)
  BY <1>3, <1>6
<1>7. ASSUME UNCHANGED batchCall PROVE \A q \in Printers : Sent(q)' <=> Sent(q)
  BY <1>7
<1>8. ASSUME NEW p \in Printers, NEW x \in Parts, Machines!InBatch(p, x), ~Sent(p), x.step # "sent",
             x.of \subseteq {p}, x.step \in {"first", "second"} => apiLogin[p] = p, x.step = "done" => x.result # "none",
             UNCHANGED <<cachedPrinters, machine, apiLogin, userCall, batch>>
      PROVE  ApiInv' /\ InterfaceStep
  <2>1. batchCall' = [batchCall EXCEPT ![p] = x] /\ batchCall'[p] = x
    BY <1>3, <1>8 DEF Machines!InBatch
  <2>2. ApiInv'
    BY <1>3, <1>5, <1>8, <2>1 DEF ApiInv, Printers
  <2>3. UNCHANGED <<Jobs, Made>>
    BY <1>2, <1>4, <1>6, <1>8, <2>1
  <2> QED BY <2>2, <2>3 DEF InterfaceStep
\* Calls of users are made, and return.
<1>9. ASSUME NEW u \in ApiUsers, NEW p \in Printers, NEW op \in MachineOps, Machines!UserCalls(u, op, p)
      PROVE  ApiInv' /\ InterfaceStep
  <2> DEFINE c == [op |-> op, printer |-> p]
             call == [id |-> u, op |-> op, printer |-> p]
  <2>1. /\ userCall[u] = Machines!NoApiCall /\ ~Machines!Throws(op, p) /\ userCall' = [userCall EXCEPT ![u] = c]
        /\ UNCHANGED <<moonrakerSupport, cachedPrinters, machine, apiLogin, batch, batchCall>>
    BY <1>9 DEF Machines!UserCalls
  <2>2. c # Machines!NoApiCall /\ c \in [op : MachineOps, printer : Printers]
    BY DEF Machines!NoApiCall, MachineOps, Machines!UserOps
  <2>3. DOMAIN userCall' = ApiUsers /\ \A v \in ApiUsers : userCall'[v] = IF v = u THEN c ELSE userCall[v]
    BY <2>1 DEF ApiInv
  <2>4. ApiInv'
    BY <2>1, <2>2, <2>3 DEF ApiInv, Printers
  <2>5. Made' = Made \cup {call} /\ call \notin Made
    <3>1. call \notin Made
      BY <1>1, <2>1 DEF Made, Printers
    <3>2. call \in Made'
      BY <2>2, <2>3 DEF Made
    <3>3. \A x \in Made : x \in Made'
      BY <2>1, <2>2, <2>3 DEF Made
    <3>4. \A x \in Made' : x = call \/ x \in Made
      BY <2>1, <2>2, <2>3 DEF Made
    <3> QED BY <3>1, <3>2, <3>3, <3>4
  <2>6. call.id = u /\ call.op = op /\ call.printer = p
    OBVIOUS
  <2> HIDE DEF call
  <2>7. InterfaceStep
    BY <1>2, <2>1, <2>5, <2>6 DEF InterfaceStep, call
  <2> QED BY <2>4, <2>7
\* What a printer does of a call, answered or not.
<1>10. ASSUME NEW p \in Printers, NEW op \in MachineOps, NEW ok \in BOOLEAN, ~Machines!Throws(op, p), Machines!Served(op, p, ok)
       PROVE  /\ machine' \in [Printers -> Machines!Machines]
              /\ \E job \in Machines!Interface!Outcomes(op, Jobs[p]) : Jobs' = [Jobs EXCEPT ![p] = job]
  <2>1. machine \in [Printers -> Machines!Machines]
    BY DEF ApiInv, Printers
  <2>2. CASE UNCHANGED machine
    <3>1. Jobs[p] \in Machines!Interface!Outcomes(op, Jobs[p])
      BY DEF Machines!Interface!Outcomes
    <3>2. Jobs' = [Jobs EXCEPT ![p] = Jobs[p]]
      BY <2>2 DEF Jobs
    <3> QED BY <2>1, <2>2, <3>1, <3>2
  <2>3. ASSUME NEW d \in Machines!Does(op, p), machine' = [machine EXCEPT ![p] = d]
        PROVE  /\ machine' \in [Printers -> Machines!Machines]
               /\ \E job \in Machines!Interface!Outcomes(op, Jobs[p]) : Jobs' = [Jobs EXCEPT ![p] = job]
    <3>1. d \in Machines!Machines /\ d.job \in Machines!Interface!Outcomes(op, machine[p].job)
      BY <1>10, <2>1, DoesAsNamed DEF Printers
    <3>2. Jobs[p] = machine[p].job /\ Jobs' = [Jobs EXCEPT ![p] = d.job]
      BY <2>1, <2>3 DEF Jobs, Printers
    <3> QED BY <2>1, <2>3, <3>1, <3>2
  <2> QED BY <1>10, <2>2, <2>3 DEF Machines!Served
<1>11. ASSUME NEW u \in ApiUsers, NEW ok \in BOOLEAN, Machines!UserAnswered(u, ok)
       PROVE  ApiInv' /\ InterfaceStep
  <2> DEFINE call == [id |-> u, op |-> userCall[u].op, printer |-> userCall[u].printer]
  <2>1. /\ userCall[u] # Machines!NoApiCall /\ Machines!Served(userCall[u].op, userCall[u].printer, ok)
        /\ userCall' = [userCall EXCEPT ![u] = Machines!NoApiCall]
        /\ UNCHANGED <<cachedPrinters, apiLogin, batch, batchCall>>
    BY <1>11 DEF Machines!UserAnswered
  <2>2. /\ userCall[u].op \in MachineOps /\ userCall[u].printer \in Printers
        /\ ~Machines!Throws(userCall[u].op, userCall[u].printer)
    BY <2>1 DEF ApiInv, Printers
  <2>3. DOMAIN userCall' = ApiUsers /\ \A v \in ApiUsers : userCall'[v] = IF v = u THEN Machines!NoApiCall ELSE userCall[v]
    BY <2>1 DEF ApiInv
  <2>4. ApiInv'
    BY <1>10, <2>1, <2>2, <2>3 DEF ApiInv, Printers
  <2>5. Made' = Made \ {call} /\ call \in Made
    BY <1>1, <2>1, <2>3 DEF Made, Printers
  <2>6. call.op = userCall[u].op /\ call.printer = userCall[u].printer
    OBVIOUS
  <2> HIDE DEF call
  <2>7. \E job \in Machines!Interface!Outcomes(call.op, Jobs[call.printer]) : Jobs' = [Jobs EXCEPT ![call.printer] = job]
    BY <1>10, <2>1, <2>2, <2>6
  <2>8. InterfaceStep
    BY <2>5, <2>7 DEF InterfaceStep
  <2> QED BY <2>4, <2>8
\* A printer by itself.
<1>12. ASSUME NEW p \in Printers, Machines!PrinterActs(p) PROVE ApiInv' /\ InterfaceStep
  <2>1. machine \in [Printers -> Machines!Machines] /\ machine[p] \in Machines!Machines
    BY DEF ApiInv, Printers
  <2>2. PICK d \in Machines!Machines : /\ machine' = [machine EXCEPT ![p] = d]
                                       /\ d.job = machine[p].job \/ d.job \in {"idle", "printing"}
    <3> DEFINE m == machine[p]
    <3>1. /\ [m EXCEPT !.up = TRUE] \in Machines!Machines /\ [m EXCEPT !.up = TRUE].job = m.job
          /\ Machines!Idle(m, TRUE) \in Machines!Machines /\ Machines!Idle(m, TRUE).job = "idle"
      BY <2>1 DEF Machines!Machines, Machines!Idle
    <3>2. [m EXCEPT !.job = "printing", !.last = TRUE] \in Machines!Machines /\ [m EXCEPT !.job = "printing", !.last = TRUE].job = "printing"
      BY <2>1 DEF Machines!Machines
    <3>3. machine' = [machine EXCEPT ![p] =
             IF ~m.up THEN [m EXCEPT !.up = TRUE]
             ELSE IF m.job = "idle" THEN [m EXCEPT !.job = "printing", !.last = TRUE] ELSE Machines!Idle(m, TRUE)]
      BY <1>12, <2>1 DEF Machines!PrinterActs
    <3> HIDE DEF m
    <3>4. CASE ~m.up
      <4>1. machine' = [machine EXCEPT ![p] = [m EXCEPT !.up = TRUE]]
        BY <3>3, <3>4
      <4> QED BY <3>1, <4>1 DEF m
    <3>5. CASE m.up /\ m.job = "idle"
      <4>1. machine' = [machine EXCEPT ![p] = [m EXCEPT !.job = "printing", !.last = TRUE]]
        BY <3>3, <3>5
      <4> QED BY <3>2, <4>1
    <3>6. CASE m.up /\ m.job # "idle"
      <4>1. machine' = [machine EXCEPT ![p] = Machines!Idle(m, TRUE)]
        BY <3>3, <3>6
      <4> QED BY <3>1, <4>1
    <3> QED BY <3>4, <3>5, <3>6
  <2>3. machine[p].job # "paused" /\ UNCHANGED <<cachedPrinters, apiLogin, userCall, batch, batchCall>>
    BY <1>12 DEF Machines!PrinterActs
  <2>4. ApiInv'
    BY <2>1, <2>2, <2>3 DEF ApiInv, Printers
  <2>5. UNCHANGED Made
    BY <1>4, <1>7, <2>3
  <2>6. Jobs' = [Jobs EXCEPT ![p] = d.job] /\ Jobs[p] = machine[p].job
    BY <2>1, <2>2 DEF Jobs, Printers
  <2>7. d.job \in {"idle", "printing"}
    BY <2>1, <2>2, <2>3 DEF Machines!Machines
  <2>8. InterfaceStep
    BY <2>3, <2>5, <2>6, <2>7 DEF InterfaceStep, Printers
  <2> QED BY <2>4, <2>8
<1>13. ASSUME NEW p \in Printers, Machines!PrinterDeleted(p) PROVE ApiInv' /\ InterfaceStep
  <2>1. cachedPrinters' \subseteq cachedPrinters /\ UNCHANGED <<machine, apiLogin, userCall, batch, batchCall>>
    BY <1>13 DEF Machines!PrinterDeleted
  <2>2. ApiInv'
    BY <2>1 DEF ApiInv
  <2>3. UNCHANGED <<Jobs, Made>>
    BY <1>2, <1>4, <1>7, <2>1
  <2> QED BY <2>2, <2>3 DEF InterfaceStep
\* The batch.
<1>14. ASSUME NEW op \in {"list", "startPrint", "connect"}, NEW ps \in Batches, Machines!StartBatch(op, ps)
       PROVE  ApiInv' /\ InterfaceStep
  <2>1. /\ batch.op = "none" /\ batch' = [op |-> op, todo |-> IF op = "list" THEN <<>> ELSE ps, ended |-> "none"]
        /\ batchCall' = [p \in Printers |->
             IF op = "list" /\ \E i \in DOMAIN ps : ps[i] = p THEN [Machines!NoPart EXCEPT !.step = "login"] ELSE Machines!NoPart]
        /\ UNCHANGED <<cachedPrinters, machine, apiLogin, userCall>>
    BY <1>14 DEF Machines!StartBatch, Printers
  <2>2. /\ Machines!NoPart \in Parts /\ Machines!NoPart.step = "none" /\ Machines!NoPart.of = {}
        /\ [Machines!NoPart EXCEPT !.step = "login"] \in Parts /\ [Machines!NoPart EXCEPT !.step = "login"].step = "login"
        /\ [Machines!NoPart EXCEPT !.step = "login"].of = {}
    BY DEF Machines!NoPart, Parts, Results
  <2>3. batchCall' \in [Printers -> Parts] /\ \A p \in Printers : batchCall'[p].step \in {"none", "login"} /\ batchCall'[p].of = {}
    BY <2>1, <2>2
  <2>4. batch' \in OtherBatch /\ (batch'.op = "list" => batch'.todo = <<>>) /\ batch'.ended = "none"
    <3>1. ps \in Seq(Printers) /\ <<>> \in Seq(Printers)
      BY DEF Printers, Machines!ApiPrinters
    <3> QED BY <2>1, <3>1 DEF OtherBatch
  <2>5. ApiInv'
    BY <2>1, <2>3, <2>4 DEF ApiInv, Printers, Parts, Results, OtherBatch
  <2>6. \A p \in Printers : ~Sent(p) /\ ~Sent(p)'
    BY <1>3, <2>1, <2>3
  <2>7. UNCHANGED <<Jobs, Made>>
    BY <1>2, <1>4, <2>1, <2>6
  <2> QED BY <2>5, <2>7 DEF InterfaceStep
<1>15. ASSUME NEW p \in Printers, Machines!ReprintStarts(p) PROVE ApiInv' /\ InterfaceStep
  <2> DEFINE x == [batchCall[p] EXCEPT !.step = "first", !.of = {p}]
             y == [batchCall[p] EXCEPT !.step = "done", !.result = "unavailable"]
  <2>1. batchCall[p] \in Parts /\ batchCall[p].step = "login" /\ batchCall[p].of \subseteq {p}
    BY <1>3, <1>15 DEF Machines!ReprintStarts
  <2>2. x \in Parts /\ x.step = "first" /\ x.of = {p}
    BY <2>1 DEF Parts
  <2>3. y \in Parts /\ y.step = "done" /\ y.result = "unavailable" /\ y.of = batchCall[p].of
    BY <2>1 DEF Parts, Results
  <2>4. UNCHANGED <<cachedPrinters, machine, userCall, batch>>
    BY <1>15 DEF Machines!ReprintStarts
  <2>5. CASE p \notin cachedPrinters
    <3>1. Machines!InBatch(p, y) /\ UNCHANGED apiLogin
      BY <1>15, <2>5 DEF Machines!ReprintStarts
    <3> HIDE DEF y
    <3> QED BY <1>8, <2>1, <2>3, <2>4, <3>1
  <2>6. CASE p \in cachedPrinters
    <3>1. batchCall' = [batchCall EXCEPT ![p] = x] /\ apiLogin' = [apiLogin EXCEPT ![p] = p]
      BY <1>1, <1>15, <2>6 DEF Machines!ReprintStarts, Machines!InBatch
    <3> HIDE DEF x, y
    <3>2. /\ DOMAIN apiLogin' = Machines!ApiInstances /\ apiLogin'[p] = p
          /\ \A q \in Printers : apiLogin'[q] = apiLogin[q] \/ q = p
      BY <1>1, <3>1 DEF ApiInv
    <3>3. PartOK(p)'
      BY <1>3, <2>2, <3>1, <3>2
    <3>4. ApiInv'
      BY <1>3, <1>5, <2>2, <2>4, <3>1, <3>2, <3>3 DEF ApiInv, Printers
    <3>5. UNCHANGED <<Jobs, Made>>
      BY <1>2, <1>4, <1>6, <2>1, <2>2, <2>4, <3>1
    <3> QED BY <3>4, <3>5 DEF InterfaceStep
  <2> QED BY <2>5, <2>6
<1>16. ASSUME NEW p \in Printers, Machines!FirstAnswered(p) PROVE ApiInv' /\ InterfaceStep
  <2> DEFINE ready == p \in Moonrakers /\ machine[p].up
             x == [batchCall[p] EXCEPT !.step = "second", !.ready = ready, !.of = @ \cup {apiLogin[p]}]
  <2>1. batchCall[p] \in Parts /\ batchCall[p].step = "first" /\ batchCall[p].of \subseteq {p} /\ apiLogin[p] = p
    BY <1>3, <1>16 DEF Machines!FirstAnswered
  <2>2. ready \in BOOLEAN
    OBVIOUS
  <2>3. Machines!InBatch(p, x) /\ UNCHANGED <<cachedPrinters, machine, apiLogin, userCall, batch>>
    BY <1>1, <1>16 DEF Machines!FirstAnswered
  <2> HIDE DEF ready
  <2>4. x \in Parts /\ x.step = "second" /\ x.of \subseteq {p}
    BY <2>1, <2>2 DEF Parts
  <2> HIDE DEF x
  <2> QED BY <1>8, <2>1, <2>3, <2>4
<1>17. ASSUME NEW p \in Printers, Machines!SecondAnswered(p) \/ Machines!ReprintFails(p)
       PROVE  ApiInv' /\ InterfaceStep
  <2>1. PICK result \in {"last", "noLast", "unavailable"} :
          Machines!InBatch(p, [batchCall[p] EXCEPT !.step = "done", !.ready = FALSE, !.result = result])
    BY <1>17 DEF Machines!SecondAnswered, Machines!ReprintFails
  <2> DEFINE x == [batchCall[p] EXCEPT !.step = "done", !.ready = FALSE, !.result = result]
  <2>2. batchCall[p] \in Parts /\ batchCall[p].step \in {"first", "second"} /\ batchCall[p].of \subseteq {p}
    BY <1>3, <1>17 DEF Machines!SecondAnswered, Machines!ReprintFails
  <2>3. UNCHANGED <<cachedPrinters, machine, apiLogin, userCall, batch>>
    BY <1>17 DEF Machines!SecondAnswered, Machines!ReprintFails
  <2>4. x \in Parts /\ x.step = "done" /\ x.of = batchCall[p].of /\ x.result = result
    BY <2>2 DEF Parts, Results
  <2>5. Machines!InBatch(p, x)
    BY <2>1
  <2> HIDE DEF x
  <2> QED BY <1>8, <2>2, <2>3, <2>4, <2>5
<1>18. CASE Machines!BatchTurn
  <2> PICK p : p = Head(batch.todo)
    OBVIOUS
  <2>1. batch.todo # <<>> /\ batch.ended = "none" /\ UNCHANGED <<cachedPrinters, machine, userCall>>
    BY <1>18 DEF Machines!BatchTurn
  <2>2. batch.op # "list" /\ batch.todo \in Seq(Printers)
    BY <1>3, <2>1 DEF ApiInv, OtherBatch
  <2>3. CASE p \notin cachedPrinters
    <3>1. batch' = [batch EXCEPT !.ended = "error"] /\ UNCHANGED <<apiLogin, batchCall>>
      BY <1>18, <2>3 DEF Machines!BatchTurn
    <3>2. batch' \in OtherBatch /\ batch'.op = batch.op
      BY <1>3, <3>1 DEF OtherBatch
    <3>3. ApiInv'
      BY <2>1, <2>2, <3>1, <3>2 DEF ApiInv, OtherBatch, Printers
    <3>4. UNCHANGED <<Jobs, Made>>
      BY <1>2, <1>4, <1>7, <2>1, <3>1, <3>2
    <3> QED BY <3>3, <3>4 DEF InterfaceStep
  <2>4. CASE p \in cachedPrinters
    <3>1. p \in Printers
      BY <2>4 DEF ApiInv, Printers
    <3> DEFINE thrown == [Machines!NoPart EXCEPT !.step = "done", !.result = "failure"]
               sent == [Machines!NoPart EXCEPT !.step = "sent", !.of = {p}]
               x == IF Machines!Throws(batch.op, p) THEN thrown ELSE sent
               call == [id |-> p, op |-> batch.op, printer |-> p]
    <3>2. batch' = [batch EXCEPT !.todo = Tail(@)] /\ apiLogin' = [apiLogin EXCEPT ![p] = p] /\ batchCall' = [batchCall EXCEPT ![p] = x]
      BY <1>1, <1>18, <2>4, <3>1 DEF Machines!BatchTurn, Machines!InBatch
    <3>3. Tail(batch.todo) \in Seq(Printers)
      BY <2>1, <2>2
    <3>4. batch' \in OtherBatch /\ batch'.op = batch.op
      BY <1>3, <3>2, <3>3 DEF OtherBatch
    <3>5. /\ thrown \in Parts /\ thrown.step = "done" /\ thrown.result = "failure" /\ thrown.of = {}
          /\ sent \in Parts /\ sent.step = "sent" /\ sent.of = {p}
      BY <3>1 DEF Parts, Results, Machines!NoPart
    <3> HIDE DEF thrown, sent
    <3>6. /\ DOMAIN apiLogin' = Machines!ApiInstances
          /\ \A q \in Printers : apiLogin'[q] = apiLogin[q] \/ q = p
      BY <1>1, <3>1, <3>2 DEF ApiInv
    <3>7. x \in Parts /\ (x.step = "sent" => ~Machines!Throws(batch.op, p)) /\ x.step \in {"sent", "done"}
          /\ x.of \subseteq {p} /\ (x.step = "done" => x.result # "none")
      BY <3>5
    <3>8. batchCall'[p] = x /\ \A q \in Printers : q # p => batchCall'[q] = batchCall[q]
      BY <1>3, <3>1, <3>2
    <3> HIDE DEF x
    <3>9. batch.op \in {"startPrint", "connect"} \/ batch.op = "none"
      BY <1>3, <2>2 DEF OtherBatch
    <3>10. batch.op # "none"
      BY <2>1 DEF ApiInv
    <3>11. PartOK(p)'
      BY <3>4, <3>7, <3>8, <3>9, <3>10
    <3>12. ApiInv'
      BY <1>5, <2>1, <2>2, <3>1, <3>2, <3>4, <3>6, <3>7, <3>11 DEF ApiInv, Printers
    <3>13. CASE Sent(p) <=> x.step = "sent"
      <4>1. \A q \in Printers : Sent(q)' <=> Sent(q)
        BY <3>8, <3>13
      <4>2. UNCHANGED <<Jobs, Made>>
        BY <1>2, <1>4, <2>1, <3>4, <4>1
      <4> QED BY <3>12, <4>2 DEF InterfaceStep
    <3>14. CASE ~(Sent(p) <=> x.step = "sent")
      <4>1. ~Sent(p) /\ x.step = "sent"
        BY <1>3, <3>1, <3>5, <3>14 DEF x
      <4>2. Made' = Made \cup {call} /\ call \notin Made
        BY <1>1, <2>1, <3>1, <3>4, <3>8, <4>1 DEF Made, Printers
      <4>3. call.id = p /\ call.op = batch.op /\ call.printer = p
        OBVIOUS
      <4> HIDE DEF call
      <4>4. InterfaceStep
        BY <1>2, <2>1, <4>2, <4>3 DEF InterfaceStep, call
      <4> QED BY <3>12, <4>4
    <3> QED BY <3>13, <3>14
  <2> QED BY <2>3, <2>4
<1>19. ASSUME NEW p \in Printers, NEW ok \in BOOLEAN, Machines!BatchCallAnswered(p, ok)
       PROVE  ApiInv' /\ InterfaceStep
  <2> DEFINE x == [batchCall[p] EXCEPT !.step = "done", !.result = IF ok THEN "success" ELSE "failure"]
             call == [id |-> p, op |-> batch.op, printer |-> p]
  <2>1. /\ Sent(p) /\ Machines!Served(batch.op, p, ok) /\ batchCall' = [batchCall EXCEPT ![p] = x]
        /\ UNCHANGED <<cachedPrinters, apiLogin, userCall, batch>>
    BY <1>19 DEF Machines!BatchCallAnswered, Machines!InBatch
  <2>2. batchCall[p] \in Parts /\ batchCall[p].of \subseteq {p} /\ batch.op \in MachineOps /\ ~Machines!Throws(batch.op, p)
    BY <1>1, <1>3, <2>1
  <2>3. x \in Parts /\ x.step = "done" /\ x.of \subseteq {p} /\ x.result # "none"
    BY <2>2 DEF Parts, Results
  <2> HIDE DEF x
  <2>4. batchCall'[p] = x /\ \A q \in Printers : q # p => batchCall'[q] = batchCall[q]
    BY <1>3, <2>1
  <2>5. PartOK(p)'
    BY <2>3, <2>4
  <2>6. /\ machine' \in [Printers -> Machines!Machines]
        /\ \E job \in Machines!Interface!Outcomes(batch.op, Jobs[p]) : Jobs' = [Jobs EXCEPT ![p] = job]
    BY <1>10, <2>1, <2>2
  <2>7. ApiInv'
    BY <1>3, <1>5, <2>1, <2>3, <2>5, <2>6 DEF ApiInv
  <2>8. Made' = Made \ {call} /\ call \in Made
    BY <1>1, <2>1, <2>3, <2>4 DEF Made, Printers
  <2>9. call.op = batch.op /\ call.printer = p
    OBVIOUS
  <2> HIDE DEF call
  <2>10. InterfaceStep
    BY <2>6, <2>8, <2>9 DEF InterfaceStep
  <2> QED BY <2>7, <2>10
<1>20. CASE Machines!BatchEnds
  <2>1. batch' = [batch EXCEPT !.ended = "answered"] /\ UNCHANGED <<cachedPrinters, machine, apiLogin, userCall, batchCall>>
    BY <1>20 DEF Machines!BatchEnds
  <2>2. batch' \in OtherBatch /\ batch'.op = batch.op /\ batch'.todo = batch.todo /\ batch'.ended = "answered"
    BY <1>3, <2>1 DEF OtherBatch
  <2>3. ApiInv'
    BY <2>1, <2>2 DEF ApiInv, OtherBatch, Printers
  <2>4. UNCHANGED <<Jobs, Made>>
    BY <1>2, <1>4, <1>7, <2>1, <2>2
  <2> QED BY <2>3, <2>4 DEF InterfaceStep
<1>21. CASE UNCHANGED apiVars
  <2>1. UNCHANGED <<cachedPrinters, machine, apiLogin, userCall, batch, batchCall>>
    BY <1>21 DEF apiVars
  <2>2. ApiInv'
    BY <2>1 DEF ApiInv
  <2>3. UNCHANGED <<Jobs, Made>>
    BY <1>2, <1>4, <1>7, <2>1
  <2> QED BY <2>2, <2>3 DEF InterfaceStep
<1>22. ASSUME NEW u \in ApiUsers, NEW p \in Printers, Machines!TestPrintApiConnection(u, p)
       PROVE  ApiInv' /\ InterfaceStep
  <2>1. "getVersion" \in MachineOps
    BY DEF MachineOps, Machines!UserOps
  <2> QED BY <1>9, <1>22, <2>1 DEF Machines!TestPrintApiConnection
<1> DEFINE Kept == ApiInv' /\ InterfaceStep
<1> HIDE DEF Kept
<1>23. ASSUME NEW p \in Printers,
              \/ Machines!PrinterActs(p) \/ Machines!PrinterDeleted(p) \/ Machines!ReprintStarts(p)
              \/ Machines!FirstAnswered(p) \/ Machines!SecondAnswered(p) \/ Machines!ReprintFails(p)
       PROVE  Kept
  BY <1>12, <1>13, <1>15, <1>16, <1>17, <1>23 DEF Kept
<1>24. ASSUME NEW p \in Printers, NEW u \in ApiUsers, NEW op \in Machines!UserOps \ {"getVersion"}, Machines!UserCalls(u, op, p)
       PROVE  Kept
  BY <1>1, <1>9, <1>24 DEF Kept
<1>25. Kept
  BY <1>11, <1>14, <1>18, <1>19, <1>20, <1>21, <1>22, <1>23, <1>24 DEF Machines!ApiNext, Kept, Printers
<1> QED BY <1>25 DEF Kept

LEMMA ApiStarts == ASSUME MCInit PROVE ApiInv
<1> USE MachinesAreApart
<1>1. Machines!ApiInit
  BY DEF MCInit
<1>2. cachedPrinters \subseteq Machines!ApiPrinters
  <2>1. \A ps \in Batches : \A i \in DOMAIN ps : ps[i] \in Machines!ApiPrinters
    BY DEF Machines!ApiPrinters
  <2> QED BY <1>1, <2>1 DEF Machines!ApiInit
<1>3. [up |-> TRUE, job |-> "idle", last |-> FALSE] \in Machines!Machines
  BY DEF Machines!Machines
<1>4. machine \in [Machines!ApiPrinters -> Machines!Machines]
  BY <1>1, <1>3 DEF Machines!ApiInit
<1>5. batch \in [op : {"none", "list", "startPrint", "connect"}, todo : Seq(Machines!ApiPrinters),
                 ended : {"none", "answered", "error"}]
      /\ batch.op = "none" /\ batch.todo = <<>>
  <2>1. <<>> \in Seq(Machines!ApiPrinters)
    OBVIOUS
  <2> QED BY <1>1, <2>1 DEF Machines!ApiInit
<1>6. /\ batchCall \in [Machines!ApiPrinters ->
                      [step : {"none", "login", "first", "second", "sent", "done"}, of : SUBSET Machines!ApiPrinters,
                       ready : BOOLEAN, result : {"none", "success", "failure", "unavailable", "noLast", "last"}]]
      /\ \A p \in Machines!ApiPrinters : batchCall[p].step = "none" /\ batchCall[p].of = {}
  BY <1>1 DEF Machines!ApiInit, Machines!NoPart
<1> QED BY <1>1, <1>2, <1>4, <1>5, <1>6 DEF ApiInv, Machines!ApiInit

\* However the requests to printers interleave, and whichever are cached: each printer's answer is
\* about that printer, and an answered batch has one of each.
THEOREM BatchesAnswerEach == MCSpec => []BatchAnswersEach
<1>1. ApiInv /\ [MCNext]_vars => ApiInv'
  BY Framed, ApiKeep
<1>2. ApiInv => BatchAnswersEach
  BY DEF ApiInv, BatchAnswersEach, Machines!BatchAnswersEach
<1> QED BY <1>1, <1>2, ApiStarts, PTL DEF MCSpec

\* PrinterApi implements IPrinterApi: whatever printers of both types do by themselves, and
\* whoever calls them at a time, a call does to the print what its name says, or nothing.
THEOREM ApiImplements == MCSpec => CallsDoAsNamed
<1>1. MCInit => Machines!Interface!Init
  <2> SUFFICES ASSUME Machines!ApiInit PROVE Machines!Interface!Init
    BY DEF MCInit
  <2> QED BY DEF Machines!ApiInit, Machines!Interface!Init, Machines!NoPart
<1>2. ApiInv /\ [MCNext]_vars => ApiInv' /\ [Machines!Interface!Next]_(Machines!Interface!vars)
  BY Framed, ApiKeep, InterfaceSteps
<1> QED BY <1>1, <1>2, ApiStarts, PTL DEF MCSpec, CallsDoAsNamed, Machines!CallsDoAsNamed,
                                          Machines!Interface!Spec

-----------------------------------------------------------------------------
(* What is believed of Klipper. *)

Names == {"webhooks", "print_stats", "idle_timeout"}

\* Objects are told apart by their fields, and one field may be taken from others.
LEMMA ObjectsByField ==
  /\ \A o \in Objects!Objects : DOMAIN o = Names /\ o # Objects!Down /\ o # Objects!Nothing
  /\ \A o, k \in Objects!Objects : (\A n \in Names : o[n] = k[n]) => o = k
  /\ \A o, k \in Objects!Objects, n \in Names :
       /\ [o EXCEPT ![n] = k[n]] \in Objects!Objects
       /\ \A m \in Names : [o EXCEPT ![n] = k[n]][m] = IF m = n THEN k[n] ELSE o[m]
<1> USE DEF Objects!Objects, Names
<1>1. ASSUME NEW o \in Objects!Objects PROVE DOMAIN o = Names
  BY <1>1
<1>2. ASSUME NEW o \in Objects!Objects PROVE o # Objects!Down /\ o # Objects!Nothing
  BY <1>2 DEF Objects!Down, Objects!Nothing
<1>3. ASSUME NEW o \in Objects!Objects, NEW k \in Objects!Objects, \A n \in Names : o[n] = k[n]
      PROVE  o = k
  <2>1. o.webhooks = k.webhooks /\ o.print_stats = k.print_stats /\ o.idle_timeout = k.idle_timeout
    BY <1>3
  <2> QED BY <2>1
<1>4. ASSUME NEW o \in Objects!Objects, NEW k \in Objects!Objects, NEW n \in Names
      PROVE  /\ [o EXCEPT ![n] = k[n]] \in Objects!Objects
             /\ \A m \in Names : [o EXCEPT ![n] = k[n]][m] = IF m = n THEN k[n] ELSE o[m]
  <2>1. CASE n = "webhooks"
    BY <2>1
  <2>2. CASE n = "print_stats"
    BY <2>2
  <2>3. CASE n = "idle_timeout"
    BY <2>3
  <2> QED BY <2>1, <2>2, <2>3
<1> QED BY <1>1, <1>2, <1>3, <1>4

\* Messages of a changed object, and the others.
Changes == {[object |-> n, value |-> o[n]] : n \in Names, o \in Objects!Objects}
Notices == [notify : {"notify_klippy_ready", "notify_klippy_disconnected"}]
OfObject(u) == "object" \in DOMAIN u

\* No later message is of the same object.
LastOf(us, i) ==
  OfObject(us[i]) /\ \A j \in DOMAIN us : j > i /\ OfObject(us[j]) => us[j].object # us[i].object
Pending(us, n) == \E i \in DOMAIN us : OfObject(us[i]) /\ us[i].object = n

\* As long as Moonraker sends changes, the last one of each object tells how it is; an answer
\* that is of Klipper as it is differs from it only by what messages are about to repeat.
ObjectsInv ==
  /\ klipper \in Objects!Objects \cup {Objects!Down}
  /\ printerObjects \in Objects!Objects \cup {Objects!Nothing}
  /\ current = Objects!FlagsOf(printerObjects)
  /\ DOMAIN queries = ObjectQueries /\ subscribed \in BOOLEAN
  /\ \A q \in ObjectQueries :
       queries[q].at = "served" =>
         /\ queries[q] \in [at : {"served"}, status : Objects!Objects \cup {Objects!Down}, now : BOOLEAN]
         /\ queries[q].now => queries[q].status = klipper
  /\ updates \in Seq(Changes \cup Notices)
  /\ subscribed => klipper # Objects!Down
  /\ subscribed => \A i \in DOMAIN updates : LastOf(updates, i) => updates[i].value = klipper[updates[i].object]
  /\ asOf /\ subscribed => /\ printerObjects # Objects!Nothing
                          /\ \A n \in Names : Pending(updates, n) \/ printerObjects[n] = klipper[n]
  /\ asOf /\ ~subscribed => printerObjects = IF klipper = Objects!Down THEN Objects!Nothing ELSE klipper

\* What the first message was about is what a later one is about, or it was the last.
LEMMA TakingOne ==
  ASSUME NEW us \in Seq(Changes \cup Notices), us # <<>>
  PROVE  /\ Head(us) \in Changes \cup Notices /\ Tail(us) \in Seq(Changes \cup Notices)
         /\ OfObject(Head(us)) => /\ Head(us) \in Changes
                                  /\ LastOf(us, 1) \/ Pending(Tail(us), Head(us).object)
         /\ \A n \in Names : Pending(us, n) => Pending(Tail(us), n) \/ (OfObject(Head(us)) /\ Head(us).object = n)
         /\ \A i \in DOMAIN Tail(us) : /\ i + 1 \in DOMAIN us /\ us[i + 1] = Tail(us)[i]
                                      /\ LastOf(Tail(us), i) => LastOf(us, i + 1)
<1>1. /\ Len(us) \in Nat \ {0} /\ DOMAIN us = 1..Len(us) /\ Head(us) = us[1] /\ us[1] \in Changes \cup Notices
      /\ Tail(us) \in Seq(Changes \cup Notices) /\ DOMAIN Tail(us) = 1..(Len(us) - 1)
      /\ \A i \in DOMAIN Tail(us) : Tail(us)[i] = us[i + 1]
  OBVIOUS
<1>2. \A j \in DOMAIN us : j = 1 \/ (j - 1 \in DOMAIN Tail(us) /\ Tail(us)[j - 1] = us[j])
  BY <1>1
<1>3. \A i \in DOMAIN Tail(us) : i + 1 \in DOMAIN us /\ (LastOf(Tail(us), i) => LastOf(us, i + 1))
  <2> SUFFICES ASSUME NEW i \in DOMAIN Tail(us), LastOf(Tail(us), i)
               PROVE  LastOf(us, i + 1)
    BY <1>1
  <2>1. Tail(us)[i] = us[i + 1] /\ OfObject(us[i + 1]) /\ i \in Nat
    BY <1>1 DEF LastOf
  <2>2. ASSUME NEW j \in DOMAIN us, j > i + 1, OfObject(us[j]) PROVE us[j].object # us[i + 1].object
    <3>1. j - 1 \in DOMAIN Tail(us) /\ Tail(us)[j - 1] = us[j] /\ j - 1 > i
      BY <1>1, <1>2, <2>1, <2>2
    <3> QED BY <2>1, <2>2, <3>1 DEF LastOf
  <2> QED BY <2>1, <2>2 DEF LastOf
<1>4. LastOf(us, 1) \/ ~OfObject(us[1]) \/ Pending(Tail(us), us[1].object)
  BY <1>1, <1>2 DEF LastOf, Pending
<1>5. OfObject(us[1]) => us[1] \in Changes
  BY <1>1 DEF OfObject, Notices
<1>6. \A n \in Names : Pending(us, n) => Pending(Tail(us), n) \/ (OfObject(us[1]) /\ us[1].object = n)
  BY <1>1, <1>2 DEF Pending
<1> QED BY <1>1, <1>3, <1>4, <1>5, <1>6

LEMMA SendingOne ==
  ASSUME NEW us \in Seq(Changes \cup Notices), NEW u \in Changes \cup Notices
  PROVE  /\ Append(us, u) \in Seq(Changes \cup Notices)
         /\ OfObject(u) => Pending(Append(us, u), u.object)
         /\ \A n \in Names : Pending(us, n) => Pending(Append(us, u), n)
         /\ \A i \in DOMAIN Append(us, u) :
              LastOf(Append(us, u), i) =>
                IF i \in DOMAIN us
                THEN Append(us, u)[i] = us[i] /\ LastOf(us, i) /\ (OfObject(u) => u.object # us[i].object)
                ELSE Append(us, u)[i] = u
<1>1. /\ Len(us) \in Nat /\ DOMAIN us = 1..Len(us) /\ Append(us, u) \in Seq(Changes \cup Notices)
      /\ DOMAIN Append(us, u) = 1..(Len(us) + 1) /\ Append(us, u)[Len(us) + 1] = u
      /\ \A i \in DOMAIN us : Append(us, u)[i] = us[i]
  OBVIOUS
<1> QED BY <1>1 DEF LastOf, Pending

LEMMA ObjectsKeep ==
  ASSUME ObjectsInv, [Objects!KlipperNext]_klipperVars
  PROVE  ObjectsInv'
<1> DEFINE Fields == DOMAIN Objects!AtStart
<1>0. Fields = Names /\ Objects!AtStart \in Objects!Objects /\ Objects!NoQuery.at # "served" /\ Objects!Waiting.at # "served"
  BY DEF Names, Objects!AtStart, Objects!Objects, Objects!NoQuery, Objects!Waiting
<1> HIDE DEF Fields
\* Klipper changes, with the messages us on their way.
<1>1. ASSUME NEW k \in Objects!Objects \cup {Objects!Down}, Objects!Becomes(k),
             updates' \in Seq(Changes \cup Notices), subscribed' \in BOOLEAN,
             subscribed' => /\ k # Objects!Down
                            /\ \A i \in DOMAIN updates' : LastOf(updates', i) => updates'[i].value = k[updates'[i].object],
             UNCHANGED <<printerObjects, current>>
      PROVE  ObjectsInv'
  <2>1. klipper' = k /\ asOf' = FALSE /\ queries' = Objects!Outdated
    BY <1>1 DEF Objects!Becomes
  <2>2. DOMAIN queries' = ObjectQueries
    BY <2>1 DEF Objects!Outdated
  <2>3. ASSUME NEW q \in ObjectQueries, queries'[q].at = "served"
        PROVE  /\ queries'[q] \in [at : {"served"}, status : Objects!Objects \cup {Objects!Down}, now : BOOLEAN]
               /\ ~queries'[q].now
    <3>1. queries[q].at = "served" => queries'[q] = [queries[q] EXCEPT !.now = FALSE]
      BY <2>1 DEF Objects!Outdated
    <3>2. queries[q].at # "served" => queries'[q] = queries[q]
      BY <2>1 DEF Objects!Outdated
    <3>3. queries[q] \in [at : {"served"}, status : Objects!Objects \cup {Objects!Down}, now : BOOLEAN]
      BY <2>3, <3>2 DEF ObjectsInv
    <3> QED BY <3>1, <3>3
  <2> QED BY <1>1, <2>1, <2>2, <2>3 DEF ObjectsInv
\* The adapter takes over objects, or nothing.
<1>2. CASE UNCHANGED klipperVars
  BY <1>2 DEF ObjectsInv, klipperVars
<1>3. ASSUME NEW n \in Fields, Objects!ObjectChanges(n) PROVE ObjectsInv'
  <2> PICK o \in Objects!Objects : /\ Objects!Becomes(o) /\ \A m \in DOMAIN o \ {n} : o[m] = klipper[m]
                                  /\ updates' = IF subscribed THEN Append(updates, [object |-> n, value |-> o[n]]) ELSE updates
    BY <1>3 DEF Objects!ObjectChanges
  <2> DEFINE u == [object |-> n, value |-> o[n]]
  <2>1. u \in Changes /\ OfObject(u) /\ u.object = n /\ u.value = o[n]
    BY <1>0 DEF Changes, OfObject
  <2>2. updates \in Seq(Changes \cup Notices) /\ UNCHANGED <<subscribed, printerObjects, current>>
    BY <1>3 DEF ObjectsInv, Objects!ObjectChanges
  <2>3. \A m \in Names \ {n} : o[m] = klipper[m]
    BY ObjectsByField
  <2> HIDE DEF u
  <2>4. ASSUME subscribed, NEW i \in DOMAIN updates', LastOf(updates', i)
        PROVE  updates'[i].value = o[updates'[i].object]
    <3>1. updates' = Append(updates, u)
      BY <2>4 DEF u
    <3>2. CASE i \in DOMAIN updates
      <4>1. updates'[i] = updates[i] /\ LastOf(updates, i) /\ n # updates[i].object
        BY <2>1, <2>2, <2>4, <3>1, <3>2, SendingOne
      <4>2. updates[i] \in Changes
        BY <2>2, <4>1 DEF LastOf, OfObject, Notices
      <4>3. updates[i].object \in Names
        BY <4>2 DEF Changes
      <4> QED BY <2>3, <2>4, <4>1, <4>3 DEF ObjectsInv
    <3>3. CASE i \notin DOMAIN updates
      BY <2>1, <2>2, <2>4, <3>1, <3>3, SendingOne
    <3> QED BY <3>2, <3>3
  <2>5. updates' \in Seq(Changes \cup Notices)
    BY <2>1, <2>2, SendingOne DEF u
  <2> QED BY <1>1, <2>2, <2>4, <2>5, ObjectsByField DEF ObjectsInv
<1>4. CASE Objects!Disconnects \/ Objects!Returns
  <2>1. /\ [notify |-> "notify_klippy_ready"] \in Changes \cup Notices
        /\ [notify |-> "notify_klippy_disconnected"] \in Changes \cup Notices
    BY DEF Notices
  <2>2. updates \in Seq(Changes \cup Notices)
    BY DEF ObjectsInv
  <2>3. updates' \in Seq(Changes \cup Notices) /\ UNCHANGED <<printerObjects, current>>
    <3>1. \A u \in Changes \cup Notices : Append(updates, u) \in Seq(Changes \cup Notices)
      BY <2>2
    <3> QED BY <1>4, <2>1, <3>1 DEF Objects!Disconnects, Objects!Returns
  <2>4. CASE Objects!Disconnects
    BY <1>1, <2>3, <2>4 DEF Objects!Disconnects
  <2>5. CASE Objects!Returns
    <3>1. ~subscribed /\ UNCHANGED subscribed /\ Objects!Becomes(Objects!AtStart)
      BY <2>5 DEF ObjectsInv, Objects!Returns
    <3>2. ~subscribed' /\ subscribed' \in BOOLEAN
      BY <3>1 DEF ObjectsInv
    <3> QED BY <1>0, <1>1, <2>3, <3>1, <3>2
  <2> QED BY <1>4, <2>4, <2>5
\* A query begins, ends, or is answered by Moonraker.
<1>5. ASSUME NEW q \in ObjectQueries, NEW x, queries' = [queries EXCEPT ![q] = x],
             x.at # "served" \/ x = [at |-> "served", status |-> klipper, now |-> TRUE],
             UNCHANGED <<klipper, subscribed, updates, printerObjects, current, asOf>>
      PROVE  ObjectsInv'
  <2>1. DOMAIN queries' = ObjectQueries /\ \A r \in ObjectQueries : queries'[r] = IF r = q THEN x ELSE queries[r]
    BY <1>5 DEF ObjectsInv
  <2> DEFINE States == Objects!Objects \cup {Objects!Down}
  <2>2. klipper \in States
    BY DEF ObjectsInv
  <2> HIDE DEF States
  <2>3. x.at = "served" => x \in [at : {"served"}, status : States, now : BOOLEAN] /\ x.status = klipper
    <3>1. CASE x = [at |-> "served", status |-> klipper, now |-> TRUE]
      <4>1. [at |-> "served", status |-> klipper, now |-> TRUE] \in [at : {"served"}, status : States, now : BOOLEAN]
        BY <2>2
      <4> QED BY <3>1, <4>1
    <3> QED BY <1>5, <3>1
  <2> QED BY <1>5, <2>1, <2>3 DEF ObjectsInv, States
<1>6. ASSUME NEW q \in ObjectQueries, Objects!Asked(q), UNCHANGED <<klipper, subscribed, updates, printerObjects, current, asOf>>
      PROVE  ObjectsInv'
  BY <1>0, <1>5, <1>6 DEF Objects!Asked
<1>7. ASSUME NEW q \in ObjectQueries, Objects!QueryObjects(q) \/ Objects!Served(q) \/ Objects!QueryFails(q)
      PROVE  ObjectsInv'
  BY <1>0, <1>5, <1>6, <1>7 DEF Objects!QueryObjects, Objects!Served, Objects!QueryFails
<1>8. ASSUME NEW q \in ObjectQueries, Objects!QueryAnswered(q) PROVE ObjectsInv'
  <2> DEFINE status == IF queries[q].status = Objects!Down THEN Objects!Nothing ELSE queries[q].status
  <2>1. /\ queries[q].at = "served" /\ queries' = [queries EXCEPT ![q] = Objects!NoQuery]
        /\ printerObjects' = status /\ current' = Objects!FlagsOf(status) /\ asOf' = queries[q].now
        /\ UNCHANGED <<klipper, subscribed, updates>>
    BY <1>8 DEF Objects!QueryAnswered, Objects!EmitCurrent, Objects!Unavailable
  <2>2. status \in Objects!Objects \cup {Objects!Nothing}
    BY <2>1 DEF ObjectsInv
  <2>3. queries[q].now => status = IF klipper = Objects!Down THEN Objects!Nothing ELSE klipper
    BY <2>1 DEF ObjectsInv
  <2>4. DOMAIN queries' = ObjectQueries /\ \A r \in ObjectQueries : queries'[r] = IF r = q THEN Objects!NoQuery ELSE queries[r]
    BY <2>1 DEF ObjectsInv
  <2> HIDE DEF status
  <2> QED BY <1>0, <2>1, <2>2, <2>3, <2>4, ObjectsByField DEF ObjectsInv
\* The first message is taken.
<1>9. ASSUME updates # <<>>, updates' = Tail(updates), subscribed
      PROVE  \A i \in DOMAIN updates' : LastOf(updates', i) => updates'[i].value = klipper[updates'[i].object]
  <2>1. updates \in Seq(Changes \cup Notices)
    BY DEF ObjectsInv
  <2> QED BY <1>9, <2>1, TakingOne DEF ObjectsInv
<1>10. CASE Objects!StatusUpdate
  <2> DEFINE u == Head(updates)
             us == Tail(updates)
  <2>1. /\ updates # <<>> /\ OfObject(u) /\ updates' = us
        /\ IF printerObjects # Objects!Nothing
           THEN Objects!EmitCurrent(Objects!Merged(u)) /\ asOf' = (asOf /\ subscribed)
           ELSE UNCHANGED <<printerObjects, current, asOf>>
        /\ UNCHANGED <<klipper, subscribed, queries>>
    BY <1>10 DEF Objects!StatusUpdate, OfObject
  <2>2. updates \in Seq(Changes \cup Notices)
    BY DEF ObjectsInv
  <2>3. u \in Changes /\ us \in Seq(Changes \cup Notices) /\ (LastOf(updates, 1) \/ Pending(us, u.object))
        /\ \A n \in Names : Pending(updates, n) => Pending(us, n) \/ u.object = n
    BY <2>1, <2>2, TakingOne
  <2>4. updates # <<>> /\ updates \in Seq(Changes \cup Notices) => u = updates[1] /\ 1 \in DOMAIN updates
    OBVIOUS
  <2> HIDE DEF u, us
  <2> PICK n \in Names, k \in Objects!Objects : u = [object |-> n, value |-> k[n]]
    BY <2>3 DEF Changes
  <2>5. u.object = n /\ u.value = k[n]
    OBVIOUS
  <2>6. CASE printerObjects = Objects!Nothing
    <3>1. UNCHANGED <<printerObjects, current, asOf, klipper, subscribed, queries>>
      BY <2>1, <2>6
    <3>2. ~(asOf /\ subscribed)
      BY <2>6 DEF ObjectsInv
    <3> QED BY <1>9, <2>1, <2>3, <3>1, <3>2 DEF us, ObjectsInv
  <2>7. CASE printerObjects # Objects!Nothing
    <3> DEFINE new == [printerObjects EXCEPT ![n] = k[n]]
    <3>1. /\ printerObjects' = new /\ current' = Objects!FlagsOf(new) /\ asOf' = (asOf /\ subscribed)
          /\ UNCHANGED <<klipper, subscribed, queries>>
      BY <2>1, <2>5, <2>7 DEF Objects!EmitCurrent, Objects!Merged
    <3>2. printerObjects \in Objects!Objects
      BY <2>7 DEF ObjectsInv
    <3>3. new \in Objects!Objects /\ \A m \in Names : new[m] = IF m = n THEN k[n] ELSE printerObjects[m]
      BY <3>2, ObjectsByField
    <3>4. subscribed => Pending(us, n) \/ k[n] = klipper[n]
      BY <2>1, <2>2, <2>3, <2>4, <2>5 DEF ObjectsInv
    <3> HIDE DEF new
    <3>5. asOf /\ subscribed => \A m \in Names : Pending(us, m) \/ new[m] = klipper[m]
      BY <2>3, <2>5, <3>3, <3>4 DEF ObjectsInv
    <3>6. new # Objects!Nothing
      BY <3>3, ObjectsByField
    <3>7. updates' = us /\ (asOf' => asOf /\ subscribed)
      BY <2>1, <3>1
    <3>8. subscribed =>
            \A i \in DOMAIN updates' : LastOf(updates', i) => updates'[i].value = klipper[updates'[i].object]
      BY <1>9, <2>1 DEF us
    <3> QED BY <2>3, <3>1, <3>3, <3>5, <3>6, <3>7, <3>8 DEF ObjectsInv
  <2> QED BY <2>6, <2>7
<1>11. CASE Objects!KlippyNotified
  <2>1. /\ updates # <<>> /\ ~OfObject(Head(updates)) /\ updates' = Tail(updates)
        /\ UNCHANGED <<klipper, subscribed, printerObjects, current, asOf>>
        /\ \/ UNCHANGED queries
           \/ \E q \in ObjectQueries : queries[q] = Objects!NoQuery /\ queries' = [queries EXCEPT ![q] = Objects!Waiting]
    <3>1. updates \in Seq(Changes \cup Notices) /\ updates # <<>> => Head(updates) \in Changes \cup Notices
      OBVIOUS
    <3>2. updates # <<>> /\ "notify" \in DOMAIN Head(updates)
      BY <1>11 DEF Objects!KlippyNotified
    <3>3. Head(updates) \notin Changes
      BY <3>2 DEF Changes
    <3>4. Head(updates) \in Notices
      BY <3>1, <3>2, <3>3 DEF ObjectsInv
    <3>5. ~OfObject(Head(updates))
      BY <3>4 DEF Notices, OfObject
    <3> QED BY <1>11, <3>5 DEF Objects!KlippyNotified, Objects!Asked
  <2>2. updates \in Seq(Changes \cup Notices)
    BY DEF ObjectsInv
  <2>3. updates' \in Seq(Changes \cup Notices) /\ \A n \in Names : Pending(updates, n) => Pending(updates', n)
    BY <2>1, <2>2, TakingOne
  <2>4. DOMAIN queries' = ObjectQueries
    BY <2>1 DEF ObjectsInv
  <2>5. \A q \in ObjectQueries : queries'[q].at = "served" => queries'[q] = queries[q]
    BY <1>0, <2>1 DEF ObjectsInv
  <2> QED BY <1>9, <2>1, <2>3, <2>4, <2>5 DEF ObjectsInv
<1> QED BY <1>0, <1>2, <1>3, <1>4, <1>7, <1>8, <1>10, <1>11 DEF Objects!KlipperNext, Fields

LEMMA ObjectsStart == ASSUME MCInit PROVE ObjectsInv
<1> SUFFICES ASSUME Objects!KlipperInit PROVE ObjectsInv
  BY DEF MCInit
<1>1. Objects!AtStart \in Objects!Objects
  BY DEF Objects!AtStart, Objects!Objects
<1>2. \A q \in ObjectQueries : queries[q].at # "served"
  BY DEF Objects!KlipperInit, Objects!NoQuery
<1>3. updates \in Seq(Changes \cup Notices) /\ DOMAIN updates = {}
  BY DEF Objects!KlipperInit
<1> QED BY <1>1, <1>2, <1>3, ObjectsByField DEF ObjectsInv, Objects!KlipperInit

\* However many updates are on their way and however queries overlap them and each other: an
\* answer given since Klipper last changed makes the flags right.
THEOREM QueriesRepair == MCSpec => []QueryRepairs
<1>1. MCInit => ObjectsInv
  BY ObjectsStart
<1>2. ObjectsInv /\ [MCNext]_vars => ObjectsInv'
  BY Framed, ObjectsKeep
<1>3. ObjectsInv => QueryRepairs
  <2> SUFFICES ASSUME ObjectsInv, asOf, updates = <<>>
               PROVE  current = IF klipper = Objects!Down THEN Objects!NoFlags ELSE Objects!FlagsOf(klipper)
    BY DEF QueryRepairs, Objects!QueryRepairs
  <2>1. \A n \in Names : ~Pending(updates, n)
    BY DEF Pending
  <2>2. subscribed => printerObjects = klipper
    BY <2>1, ObjectsByField DEF ObjectsInv
  <2>3. printerObjects = IF klipper = Objects!Down THEN Objects!Nothing ELSE klipper
    BY <2>2 DEF ObjectsInv
  <2>4. Objects!FlagsOf(Objects!Nothing) = Objects!NoFlags
    BY DEF Objects!FlagsOf
  <2> QED BY <2>3, <2>4 DEF ObjectsInv
<1> QED BY <1>1, <1>2, <1>3, PTL DEF MCSpec

-----------------------------------------------------------------------------
(* The schema of the database. *)

Changed == DOMAIN Tables!Temporary
Declared == DOMAIN Tables!Entities \cup {"printer_file"}
Keyed(r) == r = Tables!Fk(r.column, r.to, r.onDelete)
IsRule(r) == Keyed(r) \/ r = Tables!Unique(r.unique)
IsTable(x) == x = Tables!Table(x.columns, x.rules) /\ \A r \in x.rules : IsRule(r)

\* The table that a name stands for.
Meant(name) ==
  IF \E t \in Changed : Tables!Temporary[t] = name THEN CHOOSE t \in Changed : Tables!Temporary[t] = name
  ELSE name

\* A table as it would be if no reference had followed a table that was renamed.
SettledRule(r) == IF Tables!IsFk(r) THEN Tables!Fk(r.column, Meant(r.to), r.onDelete) ELSE r
Settled(table) == Tables!Table(table.columns, {SettledRule(r) : r \in table.rules})

\* The tables s are the tables ts, except that references may have followed.
Fits(s, ts) ==
  /\ s = [u \in DOMAIN ts |-> s[u]]
  /\ \A u \in DOMAIN ts : IsTable(s[u]) /\ Settled(s[u]) = ts[u]

LEMMA NamesOfTables ==
  /\ Changed \subseteq Declared
  /\ \A t \in Changed : Tables!Temporary[t] \notin Declared
  /\ \A t, u \in Changed : Tables!Temporary[t] = Tables!Temporary[u] => t = u
<1>1. Changed = {"print_completion", "printer_file", "floor_position", "refresh_token", "user_role",
                 "camera_stream", "printer_group", "role", "printer"}
  BY DEF Changed, Tables!Temporary
<1>2. Declared = {"floor", "floor_position", "printer", "settings", "user", "camera_stream",
                  "custom_gcode", "role", "permission", "refresh_token", "print_completion",
                  "user_role", "group", "printer_group", "printer_file"}
  BY DEF Declared, Tables!Entities
<1>3. /\ Tables!Temporary["print_completion"] = "temporary_print_completion"
      /\ Tables!Temporary["printer_file"] = "temporary_printer_file"
      /\ Tables!Temporary["floor_position"] = "temporary_floor_position"
      /\ Tables!Temporary["refresh_token"] = "temporary_refresh_token"
      /\ Tables!Temporary["user_role"] = "temporary_user_role"
      /\ Tables!Temporary["camera_stream"] = "temporary_camera_stream"
      /\ Tables!Temporary["printer_group"] = "temporary_printer_group"
      /\ Tables!Temporary["role"] = "temporary_role"
      /\ Tables!Temporary["printer"] = "temporary_printer"
  BY DEF Tables!Temporary
<1>4. Changed \subseteq Declared
  BY <1>1, <1>2, Zenon
<1>5. \A t \in Changed : Tables!Temporary[t] \notin Declared
  <2>2. Tables!Temporary["print_completion"] \notin Declared
    BY <1>2, <1>3
  <2>3. Tables!Temporary["printer_file"] \notin Declared
    BY <1>2, <1>3
  <2>4. Tables!Temporary["floor_position"] \notin Declared
    BY <1>2, <1>3
  <2>5. Tables!Temporary["refresh_token"] \notin Declared
    BY <1>2, <1>3
  <2>6. Tables!Temporary["user_role"] \notin Declared
    BY <1>2, <1>3
  <2>7. Tables!Temporary["camera_stream"] \notin Declared
    BY <1>2, <1>3
  <2>8. Tables!Temporary["printer_group"] \notin Declared
    BY <1>2, <1>3
  <2>9. Tables!Temporary["role"] \notin Declared
    BY <1>2, <1>3
  <2>10. Tables!Temporary["printer"] \notin Declared
    BY <1>2, <1>3
  <2> HIDE DEF Declared
  <2> QED BY <1>1, <2>2, <2>3, <2>4, <2>5, <2>6, <2>7, <2>8, <2>9, <2>10
<1>6. \A t, u \in Changed : Tables!Temporary[t] = Tables!Temporary[u] => t = u
  BY <1>1, <1>3
<1> QED BY <1>4, <1>5, <1>6

LEMMA NamesMeant ==
  /\ \A t \in Changed : Meant(Tables!Temporary[t]) = t
  /\ \A t \in Declared : Meant(t) = t
BY NamesOfTables DEF Meant

LEMMA KindsOfRules ==
  /\ \A r : IsRule(r) => (Tables!IsFk(r) <=> Keyed(r))
  /\ \A r : IsRule(r) /\ ~Keyed(r) => r = Tables!Unique(r.unique)
  /\ \A c : IsRule(Tables!Unique(c)) /\ ~Keyed(Tables!Unique(c)) /\ ~Tables!IsFk(Tables!Unique(c))
  /\ \A c, t, d : /\ IsRule(Tables!Fk(c, t, d)) /\ Keyed(Tables!Fk(c, t, d)) /\ Tables!IsFk(Tables!Fk(c, t, d))
                  /\ Tables!Fk(c, t, d).column = c /\ Tables!Fk(c, t, d).to = t /\ Tables!Fk(c, t, d).onDelete = d
<1>1. "to" # "unique"
  OBVIOUS
<1>2. \A c : DOMAIN Tables!Unique(c) = {"unique"} /\ Tables!Unique(c).unique = c
  BY DEF Tables!Unique
<1>3. \A c, t, d : DOMAIN Tables!Fk(c, t, d) = {"column", "to", "onDelete"}
  BY DEF Tables!Fk
<1>4. \A c, t, d : Tables!Fk(c, t, d).column = c /\ Tables!Fk(c, t, d).to = t /\ Tables!Fk(c, t, d).onDelete = d
  BY DEF Tables!Fk
<1>5. \A c, t, d : Keyed(Tables!Fk(c, t, d)) /\ Tables!IsFk(Tables!Fk(c, t, d))
  BY <1>3, <1>4 DEF Keyed, Tables!IsFk
<1>6. \A c : ~Tables!IsFk(Tables!Unique(c))
  BY <1>1, <1>2 DEF Tables!IsFk
<1>7. \A r : Keyed(r) => Tables!IsFk(r)
  BY <1>5 DEF Keyed
<1>8. \A r : r = Tables!Unique(r.unique) => ~Tables!IsFk(r)
  BY <1>6
<1> QED BY <1>2, <1>4, <1>5, <1>6, <1>7, <1>8 DEF IsRule

\* A rename between a table and its copy settles nothing else.
LEMMA RenamedMeansTheSame ==
  ASSUME NEW x \in Changed, NEW t, NEW new, NEW r, IsRule(r),
         \/ t = x /\ new = Tables!Temporary[x]
         \/ t = Tables!Temporary[x] /\ new = x
  PROVE  IsRule(Tables!Renamed(r, t, new)) /\ SettledRule(Tables!Renamed(r, t, new)) = SettledRule(r)
<1>1. Meant(t) = x /\ Meant(new) = x
  BY NamesMeant, NamesOfTables
<1>2. CASE Tables!IsFk(r) /\ r.to = t
  <2>1. Keyed(r)
    BY <1>2, KindsOfRules
  <2>2. Tables!Renamed(r, t, new) = [r EXCEPT !.to = new]
    BY <1>2 DEF Tables!Renamed, Tables!IsFk
  <2>3. [r EXCEPT !.to = new] = Tables!Fk(r.column, new, r.onDelete)
    BY <2>1 DEF Keyed, Tables!Fk
  <2>4. IsRule(Tables!Renamed(r, t, new))
    BY <2>2, <2>3, KindsOfRules
  <2>5. SettledRule(Tables!Fk(r.column, new, r.onDelete)) = Tables!Fk(r.column, x, r.onDelete)
    BY <1>1, KindsOfRules DEF SettledRule
  <2>6. SettledRule(r) = Tables!Fk(r.column, x, r.onDelete)
    BY <1>1, <1>2 DEF SettledRule
  <2> QED BY <2>2, <2>3, <2>4, <2>5, <2>6
<1>3. CASE ~(Tables!IsFk(r) /\ r.to = t)
  BY <1>3 DEF Tables!Renamed, Tables!IsFk
<1> QED BY <1>2, <1>3

LEMMA TableParts == \A c, rules : Tables!Table(c, rules).columns = c /\ Tables!Table(c, rules).rules = rules
BY DEF Tables!Table

LEMMA RenamedTable ==
  ASSUME NEW x \in Changed, NEW t, NEW new, NEW table, IsTable(table),
         \/ t = x /\ new = Tables!Temporary[x]
         \/ t = Tables!Temporary[x] /\ new = x
  PROVE  LET moved == [table EXCEPT !.rules = {Tables!Renamed(r, t, new) : r \in @}]
         IN  /\ IsTable(moved) /\ Settled(moved) = Settled(table)
             /\ moved.rules = {Tables!Renamed(r, t, new) : r \in table.rules}
<1> DEFINE moved == [table EXCEPT !.rules = {Tables!Renamed(r, t, new) : r \in @}]
           after == {Tables!Renamed(r, t, new) : r \in table.rules}
<1>1. moved = Tables!Table(table.columns, after)
  <2>1. DOMAIN table = {"columns", "rules"} /\ DOMAIN moved = DOMAIN table
    BY DEF IsTable, Tables!Table
  <2>2. moved.columns = table.columns /\ moved.rules = after
    BY <2>1
  <2>3. moved = [k \in DOMAIN moved |-> moved[k]]
    OBVIOUS
  <2> HIDE DEF moved, after
  <2> QED BY <2>1, <2>2, <2>3 DEF Tables!Table
<1>2. moved.columns = table.columns /\ moved.rules = after
  BY <1>1, TableParts
<1>3. \A r \in table.rules : /\ IsRule(Tables!Renamed(r, t, new))
                             /\ SettledRule(Tables!Renamed(r, t, new)) = SettledRule(r)
  BY RenamedMeansTheSame DEF IsTable
<1>4. \A r \in after : IsRule(r)
  BY <1>3
<1>5. {SettledRule(r) : r \in after} = {SettledRule(r) : r \in table.rules}
  BY <1>3
<1> HIDE DEF moved, after
<1>6. IsTable(moved)
  BY <1>1, <1>2, <1>4 DEF IsTable
<1>7. Settled(moved) = Settled(table)
  BY <1>2, <1>5 DEF Settled
<1> QED BY <1>2, <1>6, <1>7 DEF moved, after

LEMMA CreateFits ==
  ASSUME NEW s, NEW ts, NEW t, NEW table, Fits(s, ts), t \notin DOMAIN ts, IsTable(table)
  PROVE  Fits(Tables!Create(s, t, table), Tables!Add(ts, t, Settled(table)))
<1>1. DOMAIN s = DOMAIN ts
  BY DEF Fits
<1>2. Tables!Create(s, t, table) = [u \in DOMAIN ts \cup {t} |-> IF u = t THEN table ELSE s[u]]
  BY <1>1 DEF Tables!Create, Tables!Add
<1> DEFINE after == [u \in DOMAIN ts \cup {t} |-> IF u = t THEN table ELSE s[u]]
           others == Tables!Add(ts, t, Settled(table))
<1>3. DOMAIN others = DOMAIN ts \cup {t} /\ \A u \in DOMAIN ts : u # t => others[u] = ts[u]
  BY DEF Tables!Add
<1>4. others[t] = Settled(table)
  BY DEF Tables!Add
<1>5. \A u \in DOMAIN ts \cup {t} : after[u] = IF u = t THEN table ELSE s[u]
  OBVIOUS
<1>6. after = [u \in DOMAIN others |-> after[u]]
  BY <1>3
<1> HIDE DEF after, others
<1>7. \A u \in DOMAIN others : IsTable(after[u]) /\ Settled(after[u]) = others[u]
  BY <1>3, <1>4, <1>5 DEF Fits
<1>8. Fits(after, others)
  BY <1>6, <1>7 DEF Fits
<1> QED BY <1>2, <1>8 DEF after, others

Less(ts, t) == [u \in DOMAIN ts \ {t} |-> ts[u]]

LEMMA DropFits ==
  ASSUME NEW s, NEW ts, NEW t, Fits(s, ts), t \in DOMAIN ts
  PROVE  Fits(Tables!Drop(s, t), Less(ts, t))
<1>1. DOMAIN s = DOMAIN ts
  BY DEF Fits
<1> DEFINE after == [u \in DOMAIN ts \ {t} |-> s[u]]
           others == Less(ts, t)
<1>2. Tables!Drop(s, t) = after
  BY <1>1 DEF Tables!Drop
<1>3. DOMAIN others = DOMAIN ts \ {t} /\ \A u \in DOMAIN ts \ {t} : others[u] = ts[u]
  BY DEF Less
<1>4. \A u \in DOMAIN ts \ {t} : after[u] = s[u]
  OBVIOUS
<1>5. after = [u \in DOMAIN others |-> after[u]]
  BY <1>3
<1> HIDE DEF after, others
<1>6. Fits(after, others)
  BY <1>3, <1>4, <1>5 DEF Fits
<1> QED BY <1>2, <1>6 DEF after, others

LEMMA RenameFits ==
  ASSUME NEW s, NEW ts, NEW x \in Changed, NEW t, NEW new, Fits(s, ts),
         \/ t = x /\ new = Tables!Temporary[x]
         \/ t = Tables!Temporary[x] /\ new = x,
         t \in DOMAIN ts, new \notin DOMAIN ts
  PROVE  Fits(Tables!Rename(s, t, new), Tables!Add(Less(ts, t), new, ts[t]))
<1>1. DOMAIN s = DOMAIN ts
  BY DEF Fits
<1> DEFINE Moved(table) == [table EXCEPT !.rules = {Tables!Renamed(r, t, new) : r \in @}]
           after == Tables!Rename(s, t, new)
           others == Tables!Add(Less(ts, t), new, ts[t])
<1>2. after = [u \in (DOMAIN ts \ {t}) \cup {new} |-> Moved(s[IF u = new THEN t ELSE u])]
  BY <1>1 DEF Tables!Rename
<1>3. /\ DOMAIN others = (DOMAIN ts \ {t}) \cup {new} /\ others[new] = ts[t]
      /\ \A u \in DOMAIN ts \ {t} : u # new => others[u] = ts[u]
  BY DEF Tables!Add, Less
<1>4. \A u \in DOMAIN ts : IsTable(Moved(s[u])) /\ Settled(Moved(s[u])) = ts[u]
  <2> SUFFICES ASSUME NEW u \in DOMAIN ts PROVE IsTable(Moved(s[u])) /\ Settled(Moved(s[u])) = ts[u]
    OBVIOUS
  <2>1. IsTable(s[u]) /\ Settled(s[u]) = ts[u]
    BY DEF Fits
  <2> QED BY <2>1, RenamedTable
<1> HIDE DEF Moved, others, after
<1>5. DOMAIN after = DOMAIN others /\ after[new] = Moved(s[t])
  BY <1>2, <1>3
<1>6. \A u \in DOMAIN ts \ {t} : after[u] = Moved(s[u])
  BY <1>2
<1>7. after = [u \in DOMAIN others |-> after[u]]
  BY <1>2, <1>3
<1>8. \A u \in DOMAIN others : IsTable(after[u]) /\ Settled(after[u]) = others[u]
  BY <1>3, <1>4, <1>5, <1>6
<1>9. Fits(after, others)
  BY <1>7, <1>8 DEF Fits
<1> QED BY <1>9 DEF after, others

\* Tables that are the same, one by one.
LEMMA SameFits ==
  ASSUME NEW s, NEW ts, NEW us, Fits(s, ts), DOMAIN us = DOMAIN ts, \A u \in DOMAIN ts : us[u] = ts[u]
  PROVE  Fits(s, us)
BY DEF Fits

LEMMA RebuildFits ==
  ASSUME NEW s, NEW ts, NEW x \in Changed, NEW table, Fits(s, ts), DOMAIN ts \subseteq Declared,
         x \in DOMAIN ts, IsTable(table)
  PROVE  /\ Fits(Tables!Rebuild(s, x, table), [ts EXCEPT ![x] = Settled(table)])
         /\ Fits(Tables!Restore(s, x, table), [ts EXCEPT ![x] = Settled(table)])
<1> DEFINE copy == Tables!Temporary[x]
           new == Settled(table)
           us == [ts EXCEPT ![x] = new]
<1>1. copy \notin DOMAIN ts /\ copy # x
  BY NamesOfTables
<1>2. DOMAIN us = DOMAIN ts /\ us[x] = new /\ \A u \in DOMAIN ts : u # x => us[u] = ts[u]
  OBVIOUS
<1> HIDE DEF copy, us, new
<1>3. Fits(Tables!Rebuild(s, x, table), us)
  <2> DEFINE a == Tables!Create(s, copy, table)
             as == Tables!Add(ts, copy, new)
             b == Tables!Drop(a, x)
             bs == Less(as, x)
             c == Tables!Rename(b, copy, x)
             cs == Tables!Add(Less(bs, copy), x, bs[copy])
  <2>1. Fits(a, as)
    BY <1>1, CreateFits DEF new
  <2>2. DOMAIN as = DOMAIN ts \cup {copy} /\ as[copy] = new /\ \A u \in DOMAIN ts : as[u] = ts[u]
    BY <1>1 DEF Tables!Add
  <2> HIDE DEF a, as
  <2>3. Fits(b, bs)
    BY <2>1, <2>2, DropFits
  <2>4. /\ DOMAIN bs = (DOMAIN ts \ {x}) \cup {copy} /\ bs[copy] = new
        /\ \A u \in DOMAIN ts \ {x} : bs[u] = ts[u]
    BY <1>1, <2>2 DEF Less
  <2> HIDE DEF b, bs
  <2>5. Fits(c, cs)
    <3>1. copy \in DOMAIN bs /\ x \notin DOMAIN bs
      BY <1>1, <2>4
    <3> QED BY <2>3, <3>1, RenameFits DEF copy
  <2>6. DOMAIN cs = DOMAIN ts /\ cs[x] = new /\ \A u \in DOMAIN ts \ {x} : cs[u] = ts[u]
    BY <1>1, <2>4 DEF Less, Tables!Add
  <2> HIDE DEF c, cs
  <2>7. \A u \in DOMAIN cs : us[u] = cs[u]
    BY <1>2, <2>6
  <2>8. Fits(c, us)
    BY <1>2, <2>5, <2>6, <2>7, SameFits
  <2> QED BY <2>8 DEF Tables!Rebuild, a, b, c, copy
<1>4. Fits(Tables!Restore(s, x, table), us)
  <2> DEFINE a == Tables!Rename(s, x, copy)
             as == Tables!Add(Less(ts, x), copy, ts[x])
             b == Tables!Create(a, x, table)
             bs == Tables!Add(as, x, new)
             c == Tables!Drop(b, copy)
             cs == Less(bs, copy)
  <2>1. Fits(a, as)
    BY <1>1, RenameFits DEF copy
  <2>2. DOMAIN as = (DOMAIN ts \ {x}) \cup {copy} /\ \A u \in DOMAIN ts \ {x} : as[u] = ts[u]
    BY <1>1 DEF Tables!Add, Less
  <2> HIDE DEF a, as
  <2>3. Fits(b, bs)
    BY <1>1, <2>1, <2>2, CreateFits DEF new
  <2>4. /\ DOMAIN bs = DOMAIN ts \cup {copy} /\ bs[x] = new
        /\ \A u \in DOMAIN ts \ {x} : bs[u] = ts[u]
    BY <1>1, <2>2 DEF Tables!Add
  <2> HIDE DEF b, bs
  <2>5. Fits(c, cs)
    BY <2>3, <2>4, DropFits
  <2>6. DOMAIN cs = DOMAIN ts /\ cs[x] = new /\ \A u \in DOMAIN ts \ {x} : cs[u] = ts[u]
    BY <1>1, <2>4 DEF Less
  <2> HIDE DEF c, cs
  <2>7. \A u \in DOMAIN cs : us[u] = cs[u]
    BY <1>2, <2>6
  <2>8. Fits(c, us)
    BY <1>2, <2>5, <2>6, <2>7, SameFits
  <2> QED BY <2>8 DEF Tables!Restore, a, b, c, copy
<1> QED BY <1>3, <1>4 DEF us, new

FirstNames == {"print_completion", "printer_file", "printer", "floor_position", "floor", "settings",
               "refresh_token", "role", "user_role", "user", "permission", "camera_stream",
               "custom_gcode"}

LEMMA FirstNamed == DOMAIN Tables!FirstTables = FirstNames
BY DEF Tables!FirstTables, FirstNames

LEMMA NamesDeclared ==
  /\ Declared = FirstNames \cup {"group", "printer_group"}
  /\ Changed = {"print_completion", "printer_file", "floor_position", "refresh_token", "user_role",
                "camera_stream", "printer_group", "role", "printer"}
<1>1. Declared = {"floor", "floor_position", "printer", "settings", "user", "camera_stream",
                  "custom_gcode", "role", "permission", "refresh_token", "print_completion",
                  "user_role", "group", "printer_group", "printer_file"}
  BY DEF Declared, Tables!Entities
<1>2. Changed = {"print_completion", "printer_file", "floor_position", "refresh_token", "user_role",
                 "camera_stream", "printer_group", "role", "printer"}
  BY DEF Changed, Tables!Temporary
<1>3. {"floor", "floor_position", "printer", "settings", "user", "camera_stream",
       "custom_gcode", "role", "permission", "refresh_token", "print_completion",
       "user_role", "group", "printer_group", "printer_file"} = FirstNames \cup {"group", "printer_group"}
  BY Zenon DEF FirstNames
<1> QED BY <1>1, <1>2, <1>3

\* A rule, a table that refers only to the tables that keys are of, and to no copy.
Referred == {"printer", "floor", "user", "role", "group"}
PlainRule(r) == IsRule(r) /\ SettledRule(r) = r /\ (Tables!IsFk(r) => r.to \in Referred)
Plain(table) == IsTable(table) /\ Settled(table) = table /\ \A r \in table.rules : PlainRule(r)

LEMMA PlainRules ==
  /\ \A c : PlainRule(Tables!Unique(c))
  /\ \A c, d : \A t \in Referred : PlainRule(Tables!Fk(c, t, d))
<1>1. Referred \subseteq Declared
  BY NamesDeclared DEF FirstNames, Referred
<1> QED BY <1>1, KindsOfRules, NamesMeant DEF PlainRule, SettledRule

LEMMA PlainTable ==
  ASSUME NEW c, NEW rules, \A r \in rules : PlainRule(r) PROVE Plain(Tables!Table(c, rules))
<1>1. {SettledRule(r) : r \in rules} = rules
  BY DEF PlainRule
<1> QED BY <1>1, TableParts DEF Plain, IsTable, Settled, PlainRule

LEMMA WithRules ==
  ASSUME NEW table, IsTable(table), NEW keys, \A r \in keys : PlainRule(r)
  PROVE  /\ Tables!With(table, keys) = Tables!Table(table.columns, table.rules \cup keys)
         /\ IsTable(Tables!With(table, keys))
         /\ Settled(Tables!With(table, keys)) = Tables!With(Settled(table), keys)
         /\ Plain(table) => Plain(Tables!With(table, keys))
<1>1. \A c, rules : Tables!With(Tables!Table(c, rules), keys) = Tables!Table(c, rules \cup keys)
  <2> SUFFICES ASSUME NEW c, NEW rules
               PROVE  Tables!With(Tables!Table(c, rules), keys) = Tables!Table(c, rules \cup keys)
    OBVIOUS
  <2> QED BY DEF Tables!With, Tables!Table
<1>2. Tables!With(table, keys) = Tables!Table(table.columns, table.rules \cup keys)
  BY <1>1 DEF IsTable
<1>3. IsTable(Tables!With(table, keys))
  BY <1>2, TableParts DEF IsTable, PlainRule
<1>4. {SettledRule(r) : r \in table.rules \cup keys} = {SettledRule(r) : r \in table.rules} \cup keys
  BY DEF PlainRule
<1>5. Settled(Tables!With(table, keys)) = Tables!With(Settled(table), keys)
  BY <1>1, <1>2, <1>4, TableParts DEF Settled
<1>6. Plain(table) => Plain(Tables!With(table, keys))
  <2>1. Tables!With(table, keys).rules = table.rules \cup keys
    BY <1>2, TableParts
  <2> QED BY <1>3, <1>5, <2>1 DEF Plain
<1> QED BY <1>2, <1>3, <1>5, <1>6

\* The tables ts, with keys of t.
Keying(ts, t, keys) == [ts EXCEPT ![t] = Tables!With(ts[t], keys)]

LEMMA AddKeysFits ==
  ASSUME NEW s, NEW ts, NEW t \in Changed, NEW keys, Fits(s, ts), DOMAIN ts \subseteq Declared,
         t \in DOMAIN ts, \A r \in keys : PlainRule(r)
  PROVE  Fits(Tables!AddKeys(s, t, keys), Keying(ts, t, keys))
<1>1. IsTable(s[t]) /\ Settled(s[t]) = ts[t]
  BY DEF Fits
<1>2. IsTable(Tables!With(s[t], keys)) /\ Settled(Tables!With(s[t], keys)) = Tables!With(ts[t], keys)
  BY <1>1, WithRules
<1> DEFINE table == Tables!With(s[t], keys)
<1>3. Fits(Tables!Rebuild(s, t, table), [ts EXCEPT ![t] = Settled(table)])
  <2> HIDE DEF table
  <2> QED BY <1>2, RebuildFits DEF table
<1> QED BY <1>2, <1>3 DEF Tables!AddKeys, Keying

LEMMA DropKeysFits ==
  ASSUME NEW s, NEW ts, NEW t \in Changed, Fits(s, ts), DOMAIN ts \subseteq Declared, t \in DOMAIN ts
  PROVE  \E us : Fits(Tables!DropKeys(s, t), us) /\ DOMAIN us = DOMAIN ts
<1>1. IsTable(s[t])
  BY DEF Fits
<1> DEFINE table == Tables!WithoutFks(s[t])
           fewer == {r \in s[t].rules : ~Tables!IsFk(r)}
<1>2. IsTable(table)
  <2>1. \A c, rules : [Tables!Table(c, rules) EXCEPT !.rules = {r \in @ : ~Tables!IsFk(r)}]
                        = Tables!Table(c, {r \in rules : ~Tables!IsFk(r)})
    <3> SUFFICES ASSUME NEW c, NEW rules
                 PROVE  [Tables!Table(c, rules) EXCEPT !.rules = {r \in @ : ~Tables!IsFk(r)}]
                          = Tables!Table(c, {r \in rules : ~Tables!IsFk(r)})
      OBVIOUS
    <3> QED BY DEF Tables!Table
  <2>2. table = Tables!Table(s[t].columns, fewer)
    BY <1>1, <2>1 DEF IsTable, Tables!WithoutFks
  <2>3. \A r \in fewer : IsRule(r)
    BY <1>1 DEF IsTable
  <2> HIDE DEF table, fewer
  <2> QED BY <2>2, <2>3, TableParts DEF IsTable
<1> HIDE DEF table
<1> DEFINE us == [ts EXCEPT ![t] = Settled(table)]
<1>3. Fits(Tables!Restore(s, t, table), us)
  BY <1>2, RebuildFits
<1>4. DOMAIN us = DOMAIN ts
  OBVIOUS
<1> QED BY <1>3, <1>4 DEF Tables!DropKeys, table

LEMMA FirstPlain == \A t \in FirstNames : Plain(Tables!FirstTables[t])
<1>1. \A c : Plain(Tables!Table(c, {}))
  BY PlainTable
<1>2. \A c, k : Plain(Tables!Table(c, {Tables!Unique(k)}))
  BY PlainTable, PlainRules
<1>3. \A c, k, l : Plain(Tables!Table(c, {Tables!Unique(k), Tables!Unique(l)}))
  <2> SUFFICES ASSUME NEW c, NEW k, NEW l PROVE Plain(Tables!Table(c, {Tables!Unique(k), Tables!Unique(l)}))
    OBVIOUS
  <2>1. \A r \in {Tables!Unique(k), Tables!Unique(l)} : PlainRule(r)
    BY PlainRules
  <2> QED BY <2>1, PlainTable
<1>4. Plain(Tables!FirstTables["print_completion"])
  BY <1>1 DEF Tables!FirstTables
<1>5. Plain(Tables!FirstTables["printer_file"])
  BY <1>1 DEF Tables!FirstTables
<1>6. Plain(Tables!FirstTables["printer"])
  BY <1>1 DEF Tables!FirstTables
<1>7. Plain(Tables!FirstTables["floor_position"])
  BY <1>3 DEF Tables!FirstTables
<1>8. Plain(Tables!FirstTables["floor"])
  BY <1>2 DEF Tables!FirstTables
<1>9. Plain(Tables!FirstTables["settings"])
  BY <1>1 DEF Tables!FirstTables
<1>10. Plain(Tables!FirstTables["refresh_token"])
  BY <1>1 DEF Tables!FirstTables
<1>11. Plain(Tables!FirstTables["role"])
  BY <1>1 DEF Tables!FirstTables
<1>12. Plain(Tables!FirstTables["user_role"])
  BY <1>2 DEF Tables!FirstTables
<1>13. Plain(Tables!FirstTables["user"])
  BY <1>1 DEF Tables!FirstTables
<1>14. Plain(Tables!FirstTables["permission"])
  BY <1>1 DEF Tables!FirstTables
<1>15. Plain(Tables!FirstTables["camera_stream"])
  BY <1>2 DEF Tables!FirstTables
<1>16. Plain(Tables!FirstTables["custom_gcode"])
  BY <1>1 DEF Tables!FirstTables
<1> QED BY <1>4, <1>5, <1>6, <1>7, <1>8, <1>9, <1>10, <1>11, <1>12, <1>13, <1>14, <1>15, <1>16
        DEF FirstNames

\* The tables after n migrations.
KeyTo(column, t, onDelete) == {Tables!Fk(column, t, onDelete)}
At1 ==
  Keying(Keying(Keying(Keying(Keying(Keying(Tables!FirstTables,
    "print_completion", KeyTo("printerId", "printer", "SET NULL")),
    "printer_file", KeyTo("printerId", "printer", "CASCADE")),
    "floor_position", KeyTo("floorId", "floor", "CASCADE") \cup KeyTo("printerId", "printer", "CASCADE")),
    "refresh_token", KeyTo("userId", "user", "CASCADE")),
    "user_role", KeyTo("roleId", "role", "CASCADE") \cup KeyTo("userId", "user", "CASCADE")),
    "camera_stream", KeyTo("printerId", "printer", "NO ACTION"))
GroupKeys == KeyTo("printerId", "printer", "CASCADE") \cup KeyTo("groupId", "group", "CASCADE")
At2 ==
  Tables!Add(Tables!Add(At1, "group", Tables!Table({"id", "name"}, {})),
    "printer_group", Tables!With(Tables!PrinterGroupTable, GroupKeys))
At3 == [At2 EXCEPT !["print_completion"] = Tables!Completion("CASCADE")]
At4 == [At3 EXCEPT !["role"] = Tables!NamedOnce]
At5 == [At4 EXCEPT !["printer"] = Tables!TypedPrinter]
At6 == Less(At5, "printer_file")

LEMMA PlainKeys ==
  \A c, d : \A t \in {"printer", "floor", "user", "role", "group"} : \A r \in KeyTo(c, t, d) : PlainRule(r)
BY PlainRules DEF KeyTo, Referred

LEMMA TablesAt1 ==
  LET f == Tables!FirstTables
  IN  /\ DOMAIN At1 = FirstNames
      /\ At1["print_completion"] = Tables!With(f["print_completion"], KeyTo("printerId", "printer", "SET NULL"))
      /\ At1["printer_file"] = Tables!With(f["printer_file"], KeyTo("printerId", "printer", "CASCADE"))
      /\ At1["floor_position"] = Tables!With(f["floor_position"],
           KeyTo("floorId", "floor", "CASCADE") \cup KeyTo("printerId", "printer", "CASCADE"))
      /\ At1["refresh_token"] = Tables!With(f["refresh_token"], KeyTo("userId", "user", "CASCADE"))
      /\ At1["user_role"] = Tables!With(f["user_role"],
           KeyTo("roleId", "role", "CASCADE") \cup KeyTo("userId", "user", "CASCADE"))
      /\ At1["camera_stream"] = Tables!With(f["camera_stream"], KeyTo("printerId", "printer", "NO ACTION"))
      /\ \A t \in {"printer", "floor", "settings", "role", "user", "permission", "custom_gcode"} : At1[t] = f[t]
<1>1. \A ts, t, keys : /\ DOMAIN Keying(ts, t, keys) = DOMAIN ts
                       /\ t \in DOMAIN ts => Keying(ts, t, keys)[t] = Tables!With(ts[t], keys)
                       /\ \A u \in DOMAIN ts : u # t => Keying(ts, t, keys)[u] = ts[u]
  BY DEF Keying
<1> DEFINE f == Tables!FirstTables
           k1 == KeyTo("printerId", "printer", "SET NULL")
           k2 == KeyTo("printerId", "printer", "CASCADE")
           k3 == KeyTo("floorId", "floor", "CASCADE") \cup KeyTo("printerId", "printer", "CASCADE")
           k4 == KeyTo("userId", "user", "CASCADE")
           k5 == KeyTo("roleId", "role", "CASCADE") \cup KeyTo("userId", "user", "CASCADE")
           k6 == KeyTo("printerId", "printer", "NO ACTION")
           a1 == Keying(f, "print_completion", k1)
           a2 == Keying(a1, "printer_file", k2)
           a3 == Keying(a2, "floor_position", k3)
           a4 == Keying(a3, "refresh_token", k4)
           a5 == Keying(a4, "user_role", k5)
           a6 == Keying(a5, "camera_stream", k6)
<1>2. At1 = a6
  BY DEF At1
<1> HIDE DEF k1, k2, k3, k4, k5, k6
<1>3. DOMAIN f = FirstNames
  BY FirstNamed
<1> HIDE DEF f
<1>4. /\ DOMAIN a1 = FirstNames /\ a1["print_completion"] = Tables!With(f["print_completion"], k1)
      /\ \A t \in FirstNames \ {"print_completion"} : a1[t] = f[t]
  BY <1>1, <1>3 DEF FirstNames
<1> HIDE DEF a1
<1>5. /\ DOMAIN a2 = FirstNames /\ a2["printer_file"] = Tables!With(a1["printer_file"], k2)
      /\ \A t \in FirstNames \ {"printer_file"} : a2[t] = a1[t]
  BY <1>1, <1>4 DEF FirstNames
<1> HIDE DEF a2
<1>6. /\ DOMAIN a3 = FirstNames /\ a3["floor_position"] = Tables!With(a2["floor_position"], k3)
      /\ \A t \in FirstNames \ {"floor_position"} : a3[t] = a2[t]
  BY <1>1, <1>5 DEF FirstNames
<1> HIDE DEF a3
<1>7. /\ DOMAIN a4 = FirstNames /\ a4["refresh_token"] = Tables!With(a3["refresh_token"], k4)
      /\ \A t \in FirstNames \ {"refresh_token"} : a4[t] = a3[t]
  BY <1>1, <1>6 DEF FirstNames
<1> HIDE DEF a4
<1>8. /\ DOMAIN a5 = FirstNames /\ a5["user_role"] = Tables!With(a4["user_role"], k5)
      /\ \A t \in FirstNames \ {"user_role"} : a5[t] = a4[t]
  BY <1>1, <1>7 DEF FirstNames
<1> HIDE DEF a5
<1>9. /\ DOMAIN a6 = FirstNames /\ a6["camera_stream"] = Tables!With(a5["camera_stream"], k6)
      /\ \A t \in FirstNames \ {"camera_stream"} : a6[t] = a5[t]
  BY <1>1, <1>8 DEF FirstNames
<1> HIDE DEF a6
<1>10. /\ a6["print_completion"] = Tables!With(f["print_completion"], k1)
       /\ a6["printer_file"] = Tables!With(f["printer_file"], k2)
  BY <1>4, <1>5, <1>6, <1>7, <1>8, <1>9 DEF FirstNames
<1>11. /\ a6["floor_position"] = Tables!With(f["floor_position"], k3)
       /\ a6["refresh_token"] = Tables!With(f["refresh_token"], k4)
  BY <1>4, <1>5, <1>6, <1>7, <1>8, <1>9 DEF FirstNames
<1>12. /\ a6["user_role"] = Tables!With(f["user_role"], k5)
       /\ a6["camera_stream"] = Tables!With(f["camera_stream"], k6)
  BY <1>4, <1>5, <1>6, <1>7, <1>8, <1>9 DEF FirstNames
<1>13. \A t \in {"printer", "floor", "settings", "role", "user", "permission", "custom_gcode"} : a6[t] = f[t]
  BY <1>4, <1>5, <1>6, <1>7, <1>8, <1>9 DEF FirstNames
<1> QED BY <1>2, <1>9, <1>10, <1>11, <1>12, <1>13 DEF f, k1, k2, k3, k4, k5, k6

LEMMA TablesAtEnds ==
  /\ DOMAIN At2 = Declared /\ DOMAIN At3 = Declared /\ DOMAIN At4 = Declared /\ DOMAIN At5 = Declared
  /\ DOMAIN At6 = Declared \ {"printer_file"}
  /\ \A t \in FirstNames : At2[t] = At1[t]
  /\ At2["group"] = Tables!Table({"id", "name"}, {})
  /\ At2["printer_group"] = Tables!With(Tables!PrinterGroupTable, GroupKeys)
  /\ At3["print_completion"] = Tables!Completion("CASCADE")
  /\ \A t \in Declared \ {"print_completion"} : At3[t] = At2[t]
  /\ At4["role"] = Tables!NamedOnce /\ \A t \in Declared \ {"role"} : At4[t] = At3[t]
  /\ At5["printer"] = Tables!TypedPrinter /\ \A t \in Declared \ {"printer"} : At5[t] = At4[t]
  /\ \A t \in Declared \ {"printer_file"} : At6[t] = At5[t]
<1>1. DOMAIN At1 = FirstNames /\ "group" \notin FirstNames /\ "printer_group" \notin FirstNames
  BY TablesAt1 DEF FirstNames
<1>2. {"print_completion", "role", "printer", "printer_file"} \subseteq Declared
  BY NamesDeclared DEF FirstNames
<1>3. DOMAIN At2 = Declared /\ \A t \in FirstNames : At2[t] = At1[t]
  BY <1>1, NamesDeclared DEF At2, Tables!Add
<1>4. At2["group"] = Tables!Table({"id", "name"}, {}) /\ At2["printer_group"] = Tables!With(Tables!PrinterGroupTable, GroupKeys)
  BY <1>1 DEF At2, Tables!Add
<1>5. /\ DOMAIN At3 = Declared /\ At3["print_completion"] = Tables!Completion("CASCADE")
      /\ \A t \in Declared \ {"print_completion"} : At3[t] = At2[t]
  BY <1>2, <1>3 DEF At3
<1>6. DOMAIN At4 = Declared /\ At4["role"] = Tables!NamedOnce /\ \A t \in Declared \ {"role"} : At4[t] = At3[t]
  BY <1>2, <1>5 DEF At4
<1>7. DOMAIN At5 = Declared /\ At5["printer"] = Tables!TypedPrinter /\ \A t \in Declared \ {"printer"} : At5[t] = At4[t]
  BY <1>2, <1>6 DEF At5
<1>8. DOMAIN At6 = Declared \ {"printer_file"} /\ \A t \in Declared \ {"printer_file"} : At6[t] = At5[t]
  BY <1>7 DEF At6, Less
<1> QED BY <1>3, <1>4, <1>5, <1>6, <1>7, <1>8

LEMMA PlainLater ==
  /\ Plain(Tables!PrinterGroupTable) /\ Plain(Tables!With(Tables!PrinterGroupTable, GroupKeys))
  /\ Plain(Tables!FirstTables["print_completion"])
  /\ Plain(Tables!Completion("CASCADE")) /\ Plain(Tables!Completion("SET NULL"))
  /\ Plain(Tables!FirstTables["role"]) /\ Plain(Tables!NamedOnce)
  /\ Plain(Tables!FirstTables["printer"]) /\ Plain(Tables!TypedPrinter)
  /\ Plain(Tables!Table({"id", "name"}, {}))
  /\ Plain(Tables!With(Tables!FirstTables["printer_file"], KeyTo("printerId", "printer", "CASCADE")))
<1>0. {"print_completion", "role", "printer", "printer_file"} \subseteq FirstNames
  BY DEF FirstNames
<1>1. /\ Plain(Tables!FirstTables["print_completion"]) /\ Plain(Tables!FirstTables["role"])
      /\ Plain(Tables!FirstTables["printer"]) /\ Plain(Tables!FirstTables["printer_file"])
  BY <1>0, FirstPlain
<1>2. Plain(Tables!Table({"id", "name"}, {})) /\ Plain(Tables!PrinterGroupTable)
  <2>1. Plain(Tables!Table({"id", "name"}, {}))
    BY PlainTable
  <2>2. Plain(Tables!PrinterGroupTable)
    BY PlainTable, PlainRules DEF Tables!PrinterGroupTable
  <2> QED BY <2>1, <2>2
<1>3. \A table : Plain(table) => \A keys : (\A r \in keys : PlainRule(r)) => Plain(Tables!With(table, keys))
  BY WithRules DEF Plain
<1>4. \A r \in GroupKeys : PlainRule(r)
  BY PlainKeys DEF GroupKeys
<1>5. \A d : \A r \in KeyTo("printerId", "printer", d) : PlainRule(r)
  BY PlainKeys
<1>6. \A d : Tables!Completion(d) = Tables!With(Tables!FirstTables["print_completion"], KeyTo("printerId", "printer", d))
  BY DEF Tables!Completion, KeyTo
<1>7. Plain(Tables!NamedOnce)
  BY <1>1, <1>3, PlainRules DEF Tables!NamedOnce
<1>8. Plain(Tables!TypedPrinter)
  <2>1. \A c, rules : [Tables!Table(c, rules) EXCEPT !.columns = @ \cup {"printerType"}]
                        = Tables!Table(c \cup {"printerType"}, rules)
    BY DEF Tables!Table
  <2>2. PICK c, rules : Tables!FirstTables["printer"] = Tables!Table(c, rules) /\ \A r \in rules : PlainRule(r)
    BY DEF Tables!FirstTables
  <2>3. Tables!TypedPrinter = Tables!Table(c \cup {"printerType"}, rules)
    BY <2>1, <2>2 DEF Tables!TypedPrinter
  <2> QED BY <2>2, <2>3, PlainTable
<1> QED BY <1>1, <1>2, <1>3, <1>4, <1>5, <1>6, <1>7, <1>8

At0 == [t \in {} |-> Tables!Table({}, {})]

\* Of a rebuilt table that had a plain one.
LEMMA PlainRebuildFits ==
  ASSUME NEW s, NEW ts, NEW x \in Changed, NEW table, Fits(s, ts), DOMAIN ts \subseteq Declared,
         x \in DOMAIN ts, Plain(table)
  PROVE  /\ Fits(Tables!Rebuild(s, x, table), [ts EXCEPT ![x] = table])
         /\ Fits(Tables!Restore(s, x, table), [ts EXCEPT ![x] = table])
         /\ DOMAIN [ts EXCEPT ![x] = table] = DOMAIN ts
BY RebuildFits DEF Plain

LEMMA UpFirst == ASSUME NEW s, Fits(s, At0) PROVE Fits(Tables!UpInitSqlite(s), At1)
<1> DEFINE k1 == KeyTo("printerId", "printer", "SET NULL")
           k2 == KeyTo("printerId", "printer", "CASCADE")
           k3 == KeyTo("floorId", "floor", "CASCADE") \cup KeyTo("printerId", "printer", "CASCADE")
           k4 == KeyTo("userId", "user", "CASCADE")
           k5 == KeyTo("roleId", "role", "CASCADE") \cup KeyTo("userId", "user", "CASCADE")
           k6 == KeyTo("printerId", "printer", "NO ACTION")
           f == Tables!FirstTables
           a1 == Keying(f, "print_completion", k1)
           a2 == Keying(a1, "printer_file", k2)
           a3 == Keying(a2, "floor_position", k3)
           a4 == Keying(a3, "refresh_token", k4)
           a5 == Keying(a4, "user_role", k5)
           a6 == Keying(a5, "camera_stream", k6)
           s0 == Tables!CreateFirstTables(s)
           s1 == Tables!AddKeys(s0, "print_completion", k1)
           s2 == Tables!AddKeys(s1, "printer_file", k2)
           s3 == Tables!AddKeys(s2, "floor_position", k3)
           s4 == Tables!AddKeys(s3, "refresh_token", k4)
           s5 == Tables!AddKeys(s4, "user_role", k5)
           s6 == Tables!AddKeys(s5, "camera_stream", k6)
<1>1. At1 = a6
  BY DEF At1
<1>2. Tables!UpInitSqlite(s) = s6
  <2>1. /\ k3 = {Tables!Fk("floorId", "floor", "CASCADE"), Tables!Fk("printerId", "printer", "CASCADE")}
        /\ k5 = {Tables!Fk("roleId", "role", "CASCADE"), Tables!Fk("userId", "user", "CASCADE")}
    BY DEF KeyTo
  <2>2. /\ k1 = {Tables!Fk("printerId", "printer", "SET NULL")} /\ k2 = {Tables!Fk("printerId", "printer", "CASCADE")}
        /\ k4 = {Tables!Fk("userId", "user", "CASCADE")} /\ k6 = {Tables!Fk("printerId", "printer", "NO ACTION")}
    BY DEF KeyTo
  <2> HIDE DEF k1, k2, k3, k4, k5, k6, s0
  <2> QED BY <2>1, <2>2, Zenon DEF Tables!UpInitSqlite, Tables!AddPrinterKeys, Tables!AddOtherKeys, s0
<1>3. DOMAIN f = FirstNames /\ FirstNames \subseteq Declared
  BY FirstNamed, NamesDeclared
<1>4. Fits(s0, f)
  <2>1. DOMAIN s = {}
    BY DEF Fits, At0
  <2>2. s0 = [t \in DOMAIN f |-> f[t]]
    BY <2>1 DEF Tables!CreateFirstTables
  <2>3. \A t \in DOMAIN f : s0[t] = f[t]
    BY <2>2
  <2>4. s0 = [t \in DOMAIN f |-> s0[t]]
    BY <2>2
  <2>5. \A t \in DOMAIN f : IsTable(f[t]) /\ Settled(f[t]) = f[t]
    BY <1>3, FirstPlain DEF Plain
  <2> HIDE DEF s0, f
  <2> QED BY <2>3, <2>4, <2>5 DEF Fits
<1>5. /\ \A r \in k1 \cup k2 \cup k3 \cup k4 \cup k5 \cup k6 : PlainRule(r)
      /\ {"print_completion", "printer_file", "floor_position", "refresh_token", "user_role",
          "camera_stream"} \subseteq Changed \cap FirstNames
  <2>1. \A r \in k1 \cup k2 \cup k3 \cup k4 \cup k5 \cup k6 : PlainRule(r)
    BY PlainKeys
  <2>2. {"print_completion", "printer_file", "floor_position", "refresh_token", "user_role",
         "camera_stream"} \subseteq Changed \cap FirstNames
    BY NamesDeclared DEF FirstNames
  <2> QED BY <2>1, <2>2
<1> HIDE DEF k1, k2, k3, k4, k5, k6
<1>6. \A ts, t, keys : DOMAIN Keying(ts, t, keys) = DOMAIN ts
  BY DEF Keying
<1> HIDE DEF s0, f
<1>7. Fits(s1, a1) /\ DOMAIN a1 = FirstNames
  BY <1>3, <1>4, <1>5, <1>6, AddKeysFits
<1> HIDE DEF s1, a1
<1>8. Fits(s2, a2) /\ DOMAIN a2 = FirstNames
  BY <1>3, <1>7, <1>5, <1>6, AddKeysFits
<1> HIDE DEF s2, a2
<1>9. Fits(s3, a3) /\ DOMAIN a3 = FirstNames
  BY <1>3, <1>8, <1>5, <1>6, AddKeysFits
<1> HIDE DEF s3, a3
<1>10. Fits(s4, a4) /\ DOMAIN a4 = FirstNames
  BY <1>3, <1>9, <1>5, <1>6, AddKeysFits
<1> HIDE DEF s4, a4
<1>11. Fits(s5, a5) /\ DOMAIN a5 = FirstNames
  BY <1>3, <1>10, <1>5, <1>6, AddKeysFits
<1> HIDE DEF s5, a5
<1>12. Fits(s6, a6)
  BY <1>3, <1>11, <1>5, <1>6, AddKeysFits
<1> QED BY <1>1, <1>2, <1>12

LEMMA DownFirst == ASSUME NEW s, Fits(s, At1) PROVE Fits(Tables!DownInitSqlite(s), At0)
<1> DEFINE Named(x) == \E us : Fits(x, us) /\ DOMAIN us = FirstNames
           s1 == Tables!DropKeys(s, "camera_stream")
           s2 == Tables!DropKeys(s1, "user_role")
           s3 == Tables!DropKeys(s2, "refresh_token")
           s4 == Tables!DropKeys(s3, "floor_position")
           s5 == Tables!DropKeys(s4, "printer_file")
           s6 == Tables!DropKeys(s5, "print_completion")
<1>1. Named(s)
  BY TablesAt1
<1>2. \A t \in {"print_completion", "printer_file", "floor_position", "refresh_token", "user_role",
                "camera_stream"} : \A x : Named(x) => Named(Tables!DropKeys(x, t))
  <2>1. {"print_completion", "printer_file", "floor_position", "refresh_token", "user_role",
         "camera_stream"} \subseteq Changed \cap FirstNames
    BY NamesDeclared DEF FirstNames
  <2>2. FirstNames \subseteq Declared
    BY NamesDeclared
  <2> QED BY <2>1, <2>2, DropKeysFits
<1> HIDE DEF Named
<1>3. Named(s1)
  BY <1>1, <1>2
<1>4. Named(s2)
  BY <1>3, <1>2
<1>5. Named(s3)
  BY <1>4, <1>2
<1>6. Named(s4)
  BY <1>5, <1>2
<1>7. Named(s5)
  BY <1>6, <1>2
<1>8. Named(s6)
  BY <1>7, <1>2
<1>9. Tables!DownInitSqlite(s) = Tables!DropFirstTables(s6)
  BY DEF Tables!DownInitSqlite, Tables!DropOtherKeys, Tables!DropPrinterKeys
<1> HIDE DEF s6
<1>10. DOMAIN s6 = FirstNames
  BY <1>8 DEF Named, Fits
<1>11. Tables!DropFirstTables(s6) = [t \in {} |-> s6[t]]
  <2>1. DOMAIN s6 \ DOMAIN Tables!FirstTables = {}
    BY <1>10, FirstNamed
  <2> QED BY <1>10, <2>1, FirstNamed DEF Tables!DropFirstTables
<1>12. Fits([t \in {} |-> s6[t]], At0)
  BY DEF Fits, At0
<1> QED BY <1>9, <1>11, <1>12

LEMMA UpAndDownGroups ==
  /\ \A s : Fits(s, At1) => Fits(Tables!UpPrinterGroup(s), At2)
  /\ \A s : Fits(s, At2) => Fits(Tables!DownPrinterGroup(s), At1)
<1> DEFINE group == Tables!Table({"id", "name"}, {})
           keyed == Tables!With(Tables!PrinterGroupTable, GroupKeys)
<1>1. /\ Plain(group) /\ Plain(Tables!PrinterGroupTable) /\ Plain(keyed)
      /\ DOMAIN At1 = FirstNames /\ DOMAIN At2 = Declared
      /\ \A t \in FirstNames : At2[t] = At1[t]
      /\ At2["group"] = group /\ At2["printer_group"] = keyed
  BY PlainLater, TablesAt1, TablesAtEnds
<1>2. /\ "group" \notin FirstNames /\ "printer_group" \notin FirstNames /\ "printer_group" \in Changed
      /\ Declared = FirstNames \cup {"group", "printer_group"}
  BY NamesDeclared DEF FirstNames
<1>3. keyed = Tables!With(Tables!PrinterGroupTable,
                {Tables!Fk("printerId", "printer", "CASCADE"), Tables!Fk("groupId", "group", "CASCADE")})
  <2>1. GroupKeys = {Tables!Fk("printerId", "printer", "CASCADE"), Tables!Fk("groupId", "group", "CASCADE")}
    BY DEF GroupKeys, KeyTo
  <2> QED BY <2>1
<1> HIDE DEF group, keyed
<1>4. ASSUME NEW s, Fits(s, At1) PROVE Fits(Tables!UpPrinterGroup(s), At2)
  <2> DEFINE b == Tables!Add(At1, "group", group)
             c == Tables!Add(b, "printer_group", Tables!PrinterGroupTable)
             d == [c EXCEPT !["printer_group"] = keyed]
             s1 == Tables!Create(s, "group", group)
             s2 == Tables!Create(s1, "printer_group", Tables!PrinterGroupTable)
             s3 == Tables!Rebuild(s2, "printer_group", keyed)
  <2>1. Fits(s1, b)
    BY <1>1, <1>2, <1>4, CreateFits DEF Plain
  <2>2. DOMAIN b = FirstNames \cup {"group"} /\ b["group"] = group /\ \A t \in FirstNames : b[t] = At1[t]
    BY <1>1, <1>2 DEF Tables!Add
  <2> HIDE DEF s1, b
  <2>3. Fits(s2, c)
    BY <1>1, <1>2, <2>1, <2>2, CreateFits DEF Plain
  <2>4. DOMAIN c = Declared /\ \A t \in FirstNames \cup {"group"} : c[t] = b[t]
    BY <1>2, <2>2 DEF Tables!Add
  <2> HIDE DEF s2, c
  <2>5. Fits(s3, d)
    BY <1>1, <1>2, <2>3, <2>4, PlainRebuildFits
  <2>6. DOMAIN d = Declared /\ \A t \in Declared : At2[t] = d[t]
    BY <1>1, <1>2, <2>2, <2>4
  <2> HIDE DEF s3, d
  <2>7. Fits(s3, At2)
    BY <1>1, <2>5, <2>6, SameFits
  <2> QED BY <1>3, <2>7 DEF Tables!UpPrinterGroup, s1, s2, s3, group
<1>5. ASSUME NEW s, Fits(s, At2) PROVE Fits(Tables!DownPrinterGroup(s), At1)
  <2> DEFINE b == [At2 EXCEPT !["printer_group"] = Tables!PrinterGroupTable]
             c == Less(b, "printer_group")
             d == Less(c, "group")
             s1 == Tables!Restore(s, "printer_group", Tables!PrinterGroupTable)
             s2 == Tables!Drop(s1, "printer_group")
             s3 == Tables!Drop(s2, "group")
  <2>1. Fits(s1, b)
    BY <1>1, <1>2, <1>5, PlainRebuildFits
  <2>2. DOMAIN b = Declared /\ \A t \in FirstNames \cup {"group"} : b[t] = At2[t]
    BY <1>1, <1>2
  <2> HIDE DEF s1, b
  <2>3. Fits(s2, c)
    BY <1>2, <2>1, <2>2, DropFits
  <2>4. DOMAIN c = FirstNames \cup {"group"} /\ \A t \in FirstNames \cup {"group"} : c[t] = b[t]
    BY <1>2, <2>2 DEF Less
  <2> HIDE DEF s2, c
  <2>5. Fits(s3, d)
    BY <2>3, <2>4, DropFits
  <2>6. DOMAIN d = FirstNames /\ \A t \in FirstNames : At1[t] = d[t]
    BY <1>1, <1>2, <2>2, <2>4 DEF Less
  <2> HIDE DEF s3, d
  <2>7. Fits(s3, At1)
    BY <1>1, <2>5, <2>6, SameFits
  <2> QED BY <2>7 DEF Tables!DownPrinterGroup, s1, s2, s3
<1> QED BY <1>4, <1>5

\* A key of the tables s follows the copy of x.
Trails(s, x) ==
  \E u \in DOMAIN s : \E r \in s[u].rules : Tables!IsFk(r) /\ r.to = Tables!Temporary[x]

LEMMA MeantIsNoCopy == \A name : \A x \in Changed : Meant(name) # Tables!Temporary[x]
<1> SUFFICES ASSUME NEW name, NEW x \in Changed PROVE Meant(name) # Tables!Temporary[x]
  OBVIOUS
<1>1. CASE \E t \in Changed : Tables!Temporary[t] = name
  <2>1. PICK t \in Changed : Tables!Temporary[t] = name
    BY <1>1
  <2>2. Meant(name) = t
    BY <2>1, NamesMeant
  <2> QED BY <2>2, NamesOfTables
<1>2. CASE ~\E t \in Changed : Tables!Temporary[t] = name
  BY <1>2 DEF Meant
<1> QED BY <1>1, <1>2

\* A rebuilt table is followed by no key, and no key is to another copy that was not before.
LEMMA RebuildTrails ==
  ASSUME NEW s, NEW ts, NEW x \in Changed, NEW table, Fits(s, ts), DOMAIN ts \subseteq Declared,
         x \in DOMAIN ts, Plain(table)
  PROVE  /\ ~Trails(Tables!Rebuild(s, x, table), x)
         /\ \A y \in Changed : Trails(Tables!Rebuild(s, x, table), y) => Trails(s, y)
<1> DEFINE copy == Tables!Temporary[x]
           Moved(t) == [t EXCEPT !.rules = {Tables!Renamed(r, copy, x) : r \in @}]
           a == Tables!Create(s, copy, table)
           b == Tables!Drop(a, x)
           c == Tables!Rename(b, copy, x)
<1>1. DOMAIN s = DOMAIN ts /\ copy \notin DOMAIN ts /\ copy # x /\ \A y \in Changed : x # Tables!Temporary[y]
  BY NamesOfTables DEF Fits
<1>2. Tables!Rebuild(s, x, table) = c
  BY DEF Tables!Rebuild
<1> HIDE DEF copy
<1>3. a = [u \in DOMAIN ts \cup {copy} |-> IF u = copy THEN table ELSE s[u]]
  BY <1>1 DEF Tables!Create, Tables!Add
<1> HIDE DEF a
<1>4. /\ b = [u \in (DOMAIN ts \cup {copy}) \ {x} |-> a[u]] /\ b[copy] = table
      /\ \A u \in DOMAIN ts \ {x} : b[u] = s[u]
  BY <1>1, <1>3 DEF Tables!Drop
<1> HIDE DEF b
<1>5. c = [u \in DOMAIN ts |-> Moved(b[IF u = x THEN copy ELSE u])]
  <2>1. DOMAIN b = (DOMAIN ts \ {x}) \cup {copy} /\ x \notin DOMAIN b /\ copy \in DOMAIN b
    BY <1>1, <1>4
  <2>2. (DOMAIN b \ {copy}) \cup {x} = DOMAIN ts
    BY <1>1, <2>1
  <2>3. c = [u \in (DOMAIN b \ {copy}) \cup {x} |-> Moved(b[IF u = x THEN copy ELSE u])]
    BY <2>1 DEF Tables!Rename
  <2> QED BY <2>2, <2>3
<1>6. c[x] = Moved(table) /\ DOMAIN c = DOMAIN ts /\ \A u \in DOMAIN ts \ {x} : c[u] = Moved(s[u])
  BY <1>4, <1>5
<1> HIDE DEF c
<1>7. \A t : IsTable(t) => Moved(t).rules = {Tables!Renamed(r, copy, x) : r \in t.rules}
  BY RenamedTable DEF copy
<1> HIDE DEF Moved
\* Where a key is to, that was renamed.
<1>8. ASSUME NEW y \in Changed, NEW r, IsRule(r), Tables!IsFk(Tables!Renamed(r, copy, x)),
             Tables!Renamed(r, copy, x).to = Tables!Temporary[y]
      PROVE  y # x /\ Tables!IsFk(r) /\ r.to = Tables!Temporary[y]
  <2>1. CASE Tables!IsFk(r) /\ r.to = copy
    <3>1. Tables!Renamed(r, copy, x) = [r EXCEPT !.to = x]
      BY <2>1 DEF Tables!Renamed, Tables!IsFk
    <3>2. Tables!Renamed(r, copy, x).to = x
      BY <2>1, <3>1 DEF Tables!IsFk
    <3> QED BY <1>1, <1>8, <3>2
  <2>2. CASE ~(Tables!IsFk(r) /\ r.to = copy)
    <3>1. Tables!Renamed(r, copy, x) = r
      BY <2>2 DEF Tables!Renamed, Tables!IsFk
    <3> QED BY <1>8, <2>2, <3>1 DEF copy
  <2> QED BY <2>1, <2>2
<1>9. \A y \in Changed : \A r \in table.rules : ~(Tables!IsFk(r) /\ r.to = Tables!Temporary[y])
  <2> SUFFICES ASSUME NEW y \in Changed, NEW r \in table.rules, Tables!IsFk(r), r.to = Tables!Temporary[y]
               PROVE  FALSE
    OBVIOUS
  <2>1. SettledRule(r) = r /\ r.to = Meant(r.to)
    BY KindsOfRules DEF Plain, PlainRule, SettledRule
  <2> QED BY <2>1, MeantIsNoCopy
<1>10. ASSUME NEW y \in Changed, Trails(c, y) PROVE y # x /\ Trails(s, y)
  <2>1. PICK u \in DOMAIN ts : \E r \in c[u].rules : Tables!IsFk(r) /\ r.to = Tables!Temporary[y]
    BY <1>6, <1>10 DEF Trails
  <2>2. CASE u = x
    <3>1. PICK r \in table.rules : Tables!IsFk(Tables!Renamed(r, copy, x)) /\ Tables!Renamed(r, copy, x).to = Tables!Temporary[y]
      BY <1>6, <1>7, <2>1, <2>2 DEF Plain
    <3>2. IsRule(r)
      BY DEF Plain, IsTable
    <3> QED BY <1>8, <1>9, <3>1, <3>2
  <2>3. CASE u # x
    <3>1. IsTable(s[u])
      BY DEF Fits
    <3>2. PICK r \in s[u].rules : Tables!IsFk(Tables!Renamed(r, copy, x)) /\ Tables!Renamed(r, copy, x).to = Tables!Temporary[y]
      BY <1>6, <1>7, <2>1, <2>3, <3>1
    <3>3. IsRule(r)
      BY <3>1 DEF IsTable
    <3>4. y # x /\ Tables!IsFk(r) /\ r.to = Tables!Temporary[y]
      BY <1>8, <3>2, <3>3
    <3> QED BY <1>1, <3>4 DEF Trails
  <2> QED BY <2>2, <2>3
<1> QED BY <1>2, <1>10

\* What fits and is followed nowhere is the tables.
LEMMA FitsIsSame ==
  ASSUME NEW s, NEW ts, Fits(s, ts), ts = [u \in DOMAIN ts |-> ts[u]], \A u \in DOMAIN ts : Plain(ts[u]),
         ~Trails(s, "printer"), ~Trails(s, "role")
  PROVE  s = ts
<1>0. {"printer", "role"} \subseteq Changed /\ \A t \in Changed : t \notin {"floor", "user", "group"}
  BY NamesDeclared
<1>1. ASSUME NEW u \in DOMAIN ts, NEW r \in s[u].rules PROVE SettledRule(r) = r
  <2>1. IsTable(s[u]) /\ Settled(s[u]) = ts[u] /\ IsRule(r) /\ DOMAIN s = DOMAIN ts
    BY DEF Fits, IsTable
  <2>2. SettledRule(r) \in ts[u].rules
    <3>1. Settled(s[u]).rules = {SettledRule(q) : q \in s[u].rules}
      BY TableParts DEF Settled
    <3> QED BY <2>1, <3>1
  <2>3. PlainRule(SettledRule(r))
    BY <2>2 DEF Plain
  <2>4. CASE ~Tables!IsFk(r)
    BY <2>4 DEF SettledRule
  <2>5. CASE Tables!IsFk(r) /\ \E t \in Changed : Tables!Temporary[t] = r.to
    <3>1. PICK t \in Changed : Tables!Temporary[t] = r.to
      BY <2>5
    <3>2. SettledRule(r) = Tables!Fk(r.column, t, r.onDelete)
      BY <2>5, <3>1, NamesMeant DEF SettledRule
    <3>3. t \in Referred
      BY <2>3, <3>2, KindsOfRules DEF PlainRule
    <3>4. t \in {"printer", "role"}
      BY <1>0, <3>3 DEF Referred
    <3>5. Trails(s, t)
      BY <2>1, <2>5, <3>1 DEF Trails
    <3> QED BY <3>4, <3>5
  <2>6. CASE Tables!IsFk(r) /\ ~\E t \in Changed : Tables!Temporary[t] = r.to
    <3>1. SettledRule(r) = Tables!Fk(r.column, r.to, r.onDelete)
      BY <2>6 DEF SettledRule, Meant
    <3> QED BY <2>1, <2>6, <3>1, KindsOfRules DEF Keyed
  <2> QED BY <2>4, <2>5, <2>6
<1>2. ASSUME NEW u \in DOMAIN ts PROVE s[u] = ts[u]
  <2>1. IsTable(s[u]) /\ Settled(s[u]) = ts[u]
    BY DEF Fits
  <2>2. {SettledRule(r) : r \in s[u].rules} = s[u].rules
    BY <1>1
  <2> QED BY <2>1, <2>2 DEF Settled, IsTable
<1> QED BY <1>2 DEF Fits

LEMMA PlainAt5 == \A t \in Declared : Plain(At5[t])
<1> DEFINE f == Tables!FirstTables
<1>1. \A t \in FirstNames : Plain(f[t])
  BY FirstPlain
<1>2. \A table : Plain(table) => \A keys : (\A r \in keys : PlainRule(r)) => Plain(Tables!With(table, keys))
  BY WithRules DEF Plain
<1>3. \A t \in FirstNames : Plain(At1[t])
  <2>1. /\ \A r \in KeyTo("printerId", "printer", "SET NULL") : PlainRule(r)
        /\ \A r \in KeyTo("printerId", "printer", "CASCADE") : PlainRule(r)
        /\ \A r \in KeyTo("printerId", "printer", "NO ACTION") : PlainRule(r)
        /\ \A r \in KeyTo("userId", "user", "CASCADE") : PlainRule(r)
        /\ \A r \in KeyTo("floorId", "floor", "CASCADE") \cup KeyTo("printerId", "printer", "CASCADE") : PlainRule(r)
        /\ \A r \in KeyTo("roleId", "role", "CASCADE") \cup KeyTo("userId", "user", "CASCADE") : PlainRule(r)
    BY PlainKeys
  <2>2. \A t \in {"print_completion", "printer_file", "floor_position", "refresh_token", "user_role",
               "camera_stream"} :
          Plain(f[t])
    BY <1>1 DEF FirstNames
  <2> HIDE DEF f
  <2>3. \A t \in {"print_completion", "printer_file", "floor_position", "refresh_token", "user_role",
               "camera_stream"} :
          Plain(At1[t])
    <3>1. Plain(At1["print_completion"])
      <4>1. At1["print_completion"] = Tables!With(f["print_completion"],
              KeyTo("printerId", "printer", "SET NULL"))
        BY TablesAt1 DEF f
      <4>2. Plain(f["print_completion"])
        BY <2>2
      <4> QED BY <1>2, <2>1, <4>1, <4>2
    <3>2. Plain(At1["printer_file"])
      <4>1. At1["printer_file"] = Tables!With(f["printer_file"],
              KeyTo("printerId", "printer", "CASCADE"))
        BY TablesAt1 DEF f
      <4>2. Plain(f["printer_file"])
        BY <2>2
      <4> QED BY <1>2, <2>1, <4>1, <4>2
    <3>3. Plain(At1["floor_position"])
      <4>1. At1["floor_position"] = Tables!With(f["floor_position"],
              KeyTo("floorId", "floor", "CASCADE") \cup KeyTo("printerId", "printer", "CASCADE"))
        BY TablesAt1 DEF f
      <4>2. Plain(f["floor_position"])
        BY <2>2
      <4> QED BY <1>2, <2>1, <4>1, <4>2
    <3>4. Plain(At1["refresh_token"])
      <4>1. At1["refresh_token"] = Tables!With(f["refresh_token"],
              KeyTo("userId", "user", "CASCADE"))
        BY TablesAt1 DEF f
      <4>2. Plain(f["refresh_token"])
        BY <2>2
      <4> QED BY <1>2, <2>1, <4>1, <4>2
    <3>5. Plain(At1["user_role"])
      <4>1. At1["user_role"] = Tables!With(f["user_role"],
              KeyTo("roleId", "role", "CASCADE") \cup KeyTo("userId", "user", "CASCADE"))
        BY TablesAt1 DEF f
      <4>2. Plain(f["user_role"])
        BY <2>2
      <4> QED BY <1>2, <2>1, <4>1, <4>2
    <3>6. Plain(At1["camera_stream"])
      <4>1. At1["camera_stream"] = Tables!With(f["camera_stream"],
              KeyTo("printerId", "printer", "NO ACTION"))
        BY TablesAt1 DEF f
      <4>2. Plain(f["camera_stream"])
        BY <2>2
      <4> QED BY <1>2, <2>1, <4>1, <4>2
    <3> QED BY <3>1, <3>2, <3>3, <3>4, <3>5, <3>6
  <2>4. \A t \in {"printer", "floor", "settings", "role", "user", "permission", "custom_gcode"} : Plain(At1[t])
    BY <1>1, TablesAt1 DEF FirstNames, f
  <2> QED BY <2>3, <2>4 DEF FirstNames
<1>4. Declared = FirstNames \cup {"group", "printer_group"}
  BY NamesDeclared
<1>5. \A t \in Declared : Plain(At2[t])
  BY <1>3, <1>4, TablesAtEnds, PlainLater
<1>6. \A t \in Declared : Plain(At3[t])
  BY <1>5, TablesAtEnds, PlainLater
<1>7. \A t \in Declared : Plain(At4[t])
  BY <1>6, TablesAtEnds, PlainLater
<1> QED BY <1>7, TablesAtEnds, PlainLater

LEMMA UpAndDownCompletions ==
  /\ \A s : Fits(s, At2) => Fits(Tables!UpCompletionCascade(s), At3)
  /\ \A s : Fits(s, At3) => Fits(Tables!DownCompletionCascade(s), At2)
<1> DEFINE t == "print_completion"
           bare == Tables!FirstTables["print_completion"]
           up == Tables!Completion("CASCADE")
           down == Tables!Completion("SET NULL")
<1>1. t \in Changed /\ t \in FirstNames /\ t \in Declared /\ Plain(bare) /\ Plain(up) /\ Plain(down)
  BY NamesDeclared, PlainLater DEF FirstNames
<1>2. bare = Tables!FirstTables.print_completion
  OBVIOUS
<1>3. /\ DOMAIN At2 = Declared /\ DOMAIN At3 = Declared /\ At3[t] = up
      /\ \A u \in Declared \ {t} : At3[u] = At2[u]
  BY TablesAtEnds
<1>4. At2[t] = down
  <2>1. At2[t] = Tables!With(bare, KeyTo("printerId", "printer", "SET NULL"))
    BY <1>1, TablesAt1, TablesAtEnds
  <2> QED BY <2>1 DEF Tables!Completion, KeyTo
<1> HIDE DEF t, bare, up, down
<1>5. ASSUME NEW s, Fits(s, At2) PROVE Fits(Tables!UpCompletionCascade(s), At3)
  <2> DEFINE s1 == Tables!Rebuild(s, t, bare)
             b == [At2 EXCEPT ![t] = bare]
             s2 == Tables!Rebuild(s1, t, up)
             c == [b EXCEPT ![t] = up]
  <2>1. Fits(s1, b) /\ DOMAIN b = Declared
    BY <1>1, <1>3, <1>5, PlainRebuildFits
  <2>2. \A u \in Declared \ {t} : b[u] = At2[u]
    BY <1>3
  <2> HIDE DEF s1, b
  <2>3. Fits(s2, c) /\ DOMAIN c = Declared
    BY <1>1, <2>1, PlainRebuildFits
  <2>4. \A u \in Declared : At3[u] = c[u]
    BY <1>1, <1>3, <2>1, <2>2
  <2> HIDE DEF s2, c
  <2>5. Fits(s2, At3)
    BY <1>3, <2>3, <2>4, SameFits
  <2> QED BY <1>2, <2>5 DEF Tables!UpCompletionCascade, s1, s2, t, up
<1>6. ASSUME NEW s, Fits(s, At3) PROVE Fits(Tables!DownCompletionCascade(s), At2)
  <2> DEFINE s1 == Tables!Restore(s, t, bare)
             b == [At3 EXCEPT ![t] = bare]
             s2 == Tables!Restore(s1, t, down)
             c == [b EXCEPT ![t] = down]
  <2>1. Fits(s1, b) /\ DOMAIN b = Declared
    BY <1>1, <1>3, <1>6, PlainRebuildFits
  <2>2. \A u \in Declared \ {t} : b[u] = At3[u]
    BY <1>3
  <2> HIDE DEF s1, b
  <2>3. Fits(s2, c) /\ DOMAIN c = Declared
    BY <1>1, <2>1, PlainRebuildFits
  <2>4. \A u \in Declared : At2[u] = c[u]
    BY <1>1, <1>3, <1>4, <2>1, <2>2
  <2> HIDE DEF s2, c
  <2>5. Fits(s2, At2)
    BY <1>3, <2>3, <2>4, SameFits
  <2> QED BY <1>2, <2>5 DEF Tables!DownCompletionCascade, s1, s2, t, down
<1> QED BY <1>5, <1>6

LEMMA UpAndDownRoles ==
  /\ \A s : Fits(s, At3) => Fits(Tables!UpRoleNameUnique(s), At4)
  /\ \A s : Fits(s, At4) => Fits(Tables!DownRoleNameUnique(s), At3)
<1> DEFINE t == "role"
           down == Tables!FirstTables["role"]
           up == Tables!NamedOnce
<1>1. t \in Changed /\ t \in FirstNames /\ t \in Declared /\ t # "print_completion" /\ Plain(up) /\ Plain(down)
  BY NamesDeclared, PlainLater DEF FirstNames
<1>2. down = Tables!FirstTables.role
  OBVIOUS
<1>3. /\ DOMAIN At3 = Declared /\ DOMAIN At4 = Declared /\ At4[t] = up
      /\ \A u \in Declared \ {t} : At4[u] = At3[u]
  BY TablesAtEnds
<1>4. At3[t] = down
  <2>1. At3[t] = At1[t]
    BY <1>1, TablesAtEnds
  <2> QED BY <2>1, TablesAt1
<1> HIDE DEF t, down, up
<1>5. ASSUME NEW s, Fits(s, At3) PROVE Fits(Tables!UpRoleNameUnique(s), At4)
  <2> DEFINE s1 == Tables!Rebuild(s, t, down)
             b == [At3 EXCEPT ![t] = down]
             s2 == Tables!Rebuild(s1, t, up)
             c == [b EXCEPT ![t] = up]
  <2>1. Fits(s1, b) /\ DOMAIN b = Declared
    BY <1>1, <1>3, <1>5, PlainRebuildFits
  <2>2. \A u \in Declared \ {t} : b[u] = At3[u]
    BY <1>3
  <2> HIDE DEF s1, b
  <2>3. Fits(s2, c) /\ DOMAIN c = Declared
    BY <1>1, <2>1, PlainRebuildFits
  <2>4. \A u \in Declared : At4[u] = c[u]
    BY <1>1, <1>3, <2>1, <2>2
  <2> HIDE DEF s2, c
  <2>5. Fits(s2, At4)
    BY <1>3, <2>3, <2>4, SameFits
  <2> QED BY <1>2, <2>5 DEF Tables!UpRoleNameUnique, s1, s2, t, up
<1>6. ASSUME NEW s, Fits(s, At4) PROVE Fits(Tables!DownRoleNameUnique(s), At3)
  <2> DEFINE s1 == Tables!Restore(s, t, down)
             b == [At4 EXCEPT ![t] = down]
             s2 == Tables!Restore(s1, t, down)
             c == [b EXCEPT ![t] = down]
  <2>1. Fits(s1, b) /\ DOMAIN b = Declared
    BY <1>1, <1>3, <1>6, PlainRebuildFits
  <2>2. \A u \in Declared \ {t} : b[u] = At4[u]
    BY <1>3
  <2> HIDE DEF s1, b
  <2>3. Fits(s2, c) /\ DOMAIN c = Declared
    BY <1>1, <2>1, PlainRebuildFits
  <2>4. \A u \in Declared : At3[u] = c[u]
    BY <1>1, <1>3, <1>4, <2>1, <2>2
  <2> HIDE DEF s2, c
  <2>5. Fits(s2, At3)
    BY <1>3, <2>3, <2>4, SameFits
  <2> QED BY <1>2, <2>5 DEF Tables!DownRoleNameUnique, s1, s2, t, down
<1> QED BY <1>5, <1>6

\* The last migrations leave no key to a copy.
Tidy(s) == ~Trails(s, "printer") /\ ~Trails(s, "role")

LEMMA UpAndDownTypes ==
  /\ \A s : Fits(s, At4) => Fits(Tables!UpPrinterType(s), At5) /\ Tidy(Tables!UpPrinterType(s))
  /\ \A s : Fits(s, At5) => Fits(Tables!DownPrinterType(s), At4)
<1> DEFINE named == Tables!NamedOnce
           typed == Tables!TypedPrinter
           bare == Tables!FirstTables["printer"]
<1>1. /\ {"role", "printer"} \subseteq Changed /\ {"role", "printer"} \subseteq Declared
      /\ "printer" \in FirstNames /\ Plain(named) /\ Plain(typed) /\ Plain(bare)
  BY NamesDeclared, PlainLater DEF FirstNames
<1>2. bare = Tables!FirstTables.printer
  OBVIOUS
<1>3. /\ DOMAIN At4 = Declared /\ DOMAIN At5 = Declared /\ At4["role"] = named /\ At5["printer"] = typed
      /\ \A u \in Declared \ {"printer"} : At5[u] = At4[u]
  BY TablesAtEnds
<1>4. At4["printer"] = bare
  <2>1. At4["printer"] = At1["printer"]
    BY <1>1, TablesAtEnds
  <2> QED BY <2>1, TablesAt1
<1> HIDE DEF bare, named, typed
<1>5. ASSUME NEW s, Fits(s, At4)
      PROVE  Fits(Tables!UpPrinterType(s), At5) /\ Tidy(Tables!UpPrinterType(s))
  <2> DEFINE s1 == Tables!Rebuild(s, "role", named)
             b == [At4 EXCEPT !["role"] = named]
             s2 == Tables!Rebuild(s1, "printer", typed)
             c == [b EXCEPT !["printer"] = typed]
             s3 == Tables!Rebuild(s2, "role", named)
             d == [c EXCEPT !["role"] = named]
  <2>1. Fits(s1, b) /\ DOMAIN b = Declared
    BY <1>1, <1>3, <1>5, PlainRebuildFits
  <2>2. \A u \in Declared : b[u] = At4[u]
    BY <1>3
  <2> HIDE DEF s1, b
  <2>3. Fits(s2, c) /\ DOMAIN c = Declared
    BY <1>1, <2>1, PlainRebuildFits
  <2>4. ~Trails(s2, "printer")
    BY <1>1, <2>1, RebuildTrails
  <2>5. \A u \in Declared : c[u] = At5[u]
    BY <1>1, <1>3, <2>1, <2>2
  <2> HIDE DEF s2, c
  <2>6. Fits(s3, d) /\ DOMAIN d = Declared
    BY <1>1, <2>3, PlainRebuildFits
  <2>7. ~Trails(s3, "printer") /\ ~Trails(s3, "role")
    BY <1>1, <2>3, <2>4, RebuildTrails
  <2>8. \A u \in Declared : At5[u] = d[u]
    BY <1>1, <1>3, <2>3, <2>5
  <2> HIDE DEF s3, d
  <2>9. Fits(s3, At5)
    BY <1>3, <2>6, <2>8, SameFits
  <2> QED BY <2>7, <2>9 DEF Tables!UpPrinterType, s1, s2, s3, named, typed, Tidy
<1>6. ASSUME NEW s, Fits(s, At5) PROVE Fits(Tables!DownPrinterType(s), At4)
  <2> DEFINE s1 == Tables!Restore(s, "role", named)
             b == [At5 EXCEPT !["role"] = named]
             s2 == Tables!Restore(s1, "printer", bare)
             c == [b EXCEPT !["printer"] = bare]
             s3 == Tables!Restore(s2, "role", named)
             d == [c EXCEPT !["role"] = named]
  <2>1. Fits(s1, b) /\ DOMAIN b = Declared
    BY <1>1, <1>3, <1>6, PlainRebuildFits
  <2>2. \A u \in Declared : b[u] = At5[u]
    BY <1>1, <1>3
  <2> HIDE DEF s1, b
  <2>3. Fits(s2, c) /\ DOMAIN c = Declared
    BY <1>1, <2>1, PlainRebuildFits
  <2>4. \A u \in Declared : c[u] = At4[u]
    BY <1>1, <1>3, <1>4, <2>1, <2>2
  <2> HIDE DEF s2, c
  <2>5. Fits(s3, d) /\ DOMAIN d = Declared
    BY <1>1, <2>3, PlainRebuildFits
  <2>6. \A u \in Declared : At4[u] = d[u]
    BY <1>1, <1>3, <2>3, <2>4
  <2> HIDE DEF s3, d
  <2>7. Fits(s3, At4)
    BY <1>3, <2>5, <2>6, SameFits
  <2> QED BY <1>2, <2>7 DEF Tables!DownPrinterType, s1, s2, s3, named
<1> QED BY <1>5, <1>6

LEMMA UpAndDownFiles ==
  /\ \A s : Fits(s, At5) /\ Tidy(s) => Fits(Tables!UpRemovePrinterFile(s), At6) /\ Tidy(Tables!UpRemovePrinterFile(s))
  /\ \A s : Fits(s, At6) /\ Tidy(s) => Fits(Tables!DownRemovePrinterFile(s), At5) /\ Tidy(Tables!DownRemovePrinterFile(s))
<1> DEFINE t == "printer_file"
           file == Tables!With(Tables!FirstTables["printer_file"], KeyTo("printerId", "printer", "CASCADE"))
<1>1. t \in FirstNames /\ t \in Declared /\ t \notin {"print_completion", "role", "printer"} /\ Plain(file)
  BY NamesDeclared, PlainLater DEF FirstNames
<1>2. /\ DOMAIN At5 = Declared /\ DOMAIN At6 = Declared \ {t} /\ \A u \in Declared \ {t} : At6[u] = At5[u]
      /\ At6 = Less(At5, t)
  BY TablesAtEnds DEF At6
<1>3. At5[t] = file
  <2>1. At5[t] = At1[t]
    BY <1>1, TablesAtEnds
  <2> QED BY <2>1, TablesAt1
<1>4. file = Tables!With(Tables!FirstTables.printer_file, {Tables!Fk("printerId", "printer", "CASCADE")})
  BY DEF KeyTo
<1>5. {"printer", "role"} \subseteq Changed
  BY NamesDeclared
<1> HIDE DEF file, t
<1>6. ASSUME NEW s, Fits(s, At5), Tidy(s)
      PROVE  Fits(Tables!UpRemovePrinterFile(s), At6) /\ Tidy(Tables!UpRemovePrinterFile(s))
  <2> DEFINE s1 == Tables!Drop(s, t)
  <2>1. DOMAIN s = Declared
    BY <1>2, <1>6 DEF Fits
  <2>2. s1 = [u \in Declared \ {t} |-> s[u]]
    BY <1>1, <2>1 DEF Tables!Drop
  <2>3. Fits(s1, At6)
    BY <1>1, <1>2, <1>6, DropFits
  <2> HIDE DEF s1
  <2>4. Tidy(s1)
    BY <1>6, <2>1, <2>2 DEF Tidy, Trails
  <2> QED BY <2>3, <2>4 DEF Tables!UpRemovePrinterFile, s1, t
<1>7. ASSUME NEW s, Fits(s, At6), Tidy(s)
      PROVE  Fits(Tables!DownRemovePrinterFile(s), At5) /\ Tidy(Tables!DownRemovePrinterFile(s))
  <2> DEFINE s1 == Tables!Create(s, t, file)
             b == Tables!Add(At6, t, file)
  <2>1. DOMAIN s = Declared \ {t}
    BY <1>2, <1>7 DEF Fits
  <2>2. s1 = [u \in Declared |-> IF u = t THEN file ELSE s[u]]
    <3>1. DOMAIN s \cup {t} = Declared
      BY <1>1, <2>1
    <3> QED BY <2>1, <3>1 DEF Tables!Create, Tables!Add
  <2>3. Fits(s1, b)
    BY <1>1, <1>2, <1>7, CreateFits DEF Plain
  <2>4. DOMAIN b = Declared /\ \A u \in Declared : At5[u] = b[u]
    BY <1>1, <1>2, <1>3 DEF Tables!Add
  <2> HIDE DEF s1, b
  <2>5. Fits(s1, At5)
    BY <1>2, <2>3, <2>4, SameFits
  <2>6. ASSUME NEW x \in Changed, ~Trails(s, x) PROVE ~Trails(s1, x)
    <3> SUFFICES ASSUME NEW u \in Declared, NEW r \in s1[u].rules, Tables!IsFk(r), r.to = Tables!Temporary[x]
                 PROVE  FALSE
      BY <2>2 DEF Trails
    <3>1. CASE u = t
      <4>1. PlainRule(r)
        BY <1>1, <2>2, <3>1 DEF Plain
      <4>2. r.to = Meant(r.to)
        BY <4>1, KindsOfRules DEF PlainRule, SettledRule
      <4> QED BY <4>2, MeantIsNoCopy
    <3>2. CASE u # t
      BY <2>1, <2>2, <2>6, <3>2 DEF Trails
    <3> QED BY <3>1, <3>2
  <2>7. Tidy(s1)
    BY <1>5, <1>7, <2>6 DEF Tidy
  <2> QED BY <1>4, <2>5, <2>7 DEF Tables!DownRemovePrinterFile, s1, t
<1> QED BY <1>6, <1>7

LEMMA WithOfTable ==
  \A c, rules, keys : Tables!With(Tables!Table(c, rules), keys) = Tables!Table(c, rules \cup keys)
<1> SUFFICES ASSUME NEW c, NEW rules, NEW keys
             PROVE  Tables!With(Tables!Table(c, rules), keys) = Tables!Table(c, rules \cup keys)
  OBVIOUS
<1> QED BY DEF Tables!With, Tables!Table

\* The tables after the last migration are those that the entities declare.
LEMMA EntitiesAreLast == At6 = Tables!Entities
<1> DEFINE f == Tables!FirstTables
           e == Tables!Entities
<1>1. DOMAIN e = Declared \ {"printer_file"}
  BY DEF Tables!Entities, Declared
<1>2. /\ DOMAIN At6 = Declared \ {"printer_file"} /\ At6 = [t \in DOMAIN At6 |-> At6[t]]
      /\ \A t \in FirstNames \ {"printer_file", "printer", "role", "print_completion"} : At6[t] = At1[t]
      /\ At6["group"] = Tables!Table({"id", "name"}, {})
      /\ At6["printer_group"] = Tables!With(Tables!PrinterGroupTable, GroupKeys)
      /\ At6["print_completion"] = Tables!Completion("CASCADE")
      /\ At6["role"] = Tables!NamedOnce /\ At6["printer"] = Tables!TypedPrinter
  BY TablesAtEnds, NamesDeclared DEF FirstNames, At6, Less
<1>3. At6["group"] = e["group"]
  BY <1>2 DEF Tables!Entities, Tables!GroupEntity
<1>4. At6["printer_group"] = e["printer_group"]
  BY <1>2, WithOfTable DEF Tables!PrinterGroupTable, GroupKeys, KeyTo, Tables!Entities,
                           Tables!PrinterGroupEntity
<1>5. At6["print_completion"] = e["print_completion"]
  BY <1>2, WithOfTable DEF Tables!Completion, Tables!FirstTables, Tables!Entities,
                           Tables!PrintCompletionEntity
<1>6. At6["role"] = e["role"]
  BY <1>2, WithOfTable DEF Tables!NamedOnce, Tables!FirstTables, Tables!Entities, Tables!RoleEntity
<1>7. At6["printer"] = e["printer"]
  <2>1. \A c, rules : [Tables!Table(c, rules) EXCEPT !.columns = @ \cup {"printerType"}]
                        = Tables!Table(c \cup {"printerType"}, rules)
    BY DEF Tables!Table
  <2> DEFINE first == {"id", "name", "printerURL", "apiKey", "enabled", "disabledReason",
                       "assignee", "dateAdded", "feedRate", "flowRate"}
  <2>2. f.printer = Tables!Table(first, {})
    BY DEF Tables!FirstTables
  <2>3. first \cup {"printerType"} = {"id", "name", "printerURL", "printerType", "apiKey", "enabled",
                                      "disabledReason", "assignee", "dateAdded", "feedRate", "flowRate"}
    BY Zenon
  <2> HIDE DEF first
  <2>4. Tables!TypedPrinter = Tables!Table(first \cup {"printerType"}, {})
    BY <2>1, <2>2 DEF Tables!TypedPrinter
  <2> QED BY <1>2, <2>3, <2>4 DEF Tables!Entities, Tables!PrinterEntity
<1>8. At6["floor"] = e["floor"]
  BY <1>2, TablesAt1 DEF FirstNames, Tables!FirstTables, Tables!Entities, Tables!FloorEntity
<1>9. At6["settings"] = e["settings"]
  BY <1>2, TablesAt1 DEF FirstNames, Tables!FirstTables, Tables!Entities, Tables!SettingsEntity
<1>10. At6["user"] = e["user"]
  BY <1>2, TablesAt1 DEF FirstNames, Tables!FirstTables, Tables!Entities, Tables!UserEntity
<1>11. At6["permission"] = e["permission"]
  BY <1>2, TablesAt1 DEF FirstNames, Tables!FirstTables, Tables!Entities, Tables!PermissionEntity
<1>12. At6["custom_gcode"] = e["custom_gcode"]
  BY <1>2, TablesAt1 DEF FirstNames, Tables!FirstTables, Tables!Entities, Tables!CustomGcodeEntity
<1>13. At6["floor_position"] = e["floor_position"]
  <2>1. At6["floor_position"] = Tables!With(f["floor_position"],
          KeyTo("floorId", "floor", "CASCADE") \cup KeyTo("printerId", "printer", "CASCADE"))
    BY <1>2, TablesAt1 DEF FirstNames
  <2> QED BY <2>1, WithOfTable DEF KeyTo, Tables!FirstTables, Tables!Entities,
                                   Tables!FloorPositionEntity
<1>14. At6["refresh_token"] = e["refresh_token"]
  <2>1. At6["refresh_token"] = Tables!With(f["refresh_token"], KeyTo("userId", "user", "CASCADE"))
    BY <1>2, TablesAt1 DEF FirstNames
  <2> QED BY <2>1, WithOfTable DEF KeyTo, Tables!FirstTables, Tables!Entities, Tables!RefreshTokenEntity
<1>15. At6["user_role"] = e["user_role"]
  <2>1. At6["user_role"] = Tables!With(f["user_role"],
          KeyTo("roleId", "role", "CASCADE") \cup KeyTo("userId", "user", "CASCADE"))
    BY <1>2, TablesAt1 DEF FirstNames
  <2> QED BY <2>1, WithOfTable DEF KeyTo, Tables!FirstTables, Tables!Entities, Tables!UserRoleEntity
<1>16. At6["camera_stream"] = e["camera_stream"]
  <2>1. At6["camera_stream"] = Tables!With(f["camera_stream"], KeyTo("printerId", "printer", "NO ACTION"))
    BY <1>2, TablesAt1 DEF FirstNames
  <2> DEFINE columns == {"id", "streamURL", "name", "printerId", "aspectRatio",
                         "rotationClockwise", "flipHorizontal", "flipVertical"}
             once == Tables!Unique({"printerId"})
             key == Tables!Fk("printerId", "printer", "NO ACTION")
  <2>2. f["camera_stream"] = Tables!Table(columns, {once}) /\ e["camera_stream"] = Tables!Table(columns, {once, key})
    BY DEF Tables!FirstTables, Tables!Entities, Tables!CameraStreamEntity
  <2>3. KeyTo("printerId", "printer", "NO ACTION") = {key}
    BY DEF KeyTo
  <2> HIDE DEF columns, once, key, f, e
  <2>4. {once} \cup {key} = {once, key}
    OBVIOUS
  <2>5. Tables!With(Tables!Table(columns, {once}), {key}) = Tables!Table(columns, {once} \cup {key})
    BY WithOfTable
  <2> QED BY <2>1, <2>2, <2>3, <2>4, <2>5, Zenon
<1>17. e = [t \in DOMAIN e |-> e[t]]
  BY DEF Tables!Entities
<1> HIDE DEF f, e
<1>18. \A t \in Declared \ {"printer_file"} : At6[t] = e[t]
  BY <1>3, <1>4, <1>5, <1>6, <1>7, <1>8, <1>9, <1>10, <1>11, <1>12, <1>13, <1>14, <1>15, <1>16,
     NamesDeclared DEF FirstNames
<1>19. At6 = e
  BY <1>1, <1>2, <1>17, <1>18
<1> QED BY <1>19 DEF e

\* The tables s are those after n migrations.
Migrated(s, n) ==
  /\ n = 0 => Fits(s, At0)
  /\ n = 1 => Fits(s, At1)
  /\ n = 2 => Fits(s, At2)
  /\ n = 3 => Fits(s, At3)
  /\ n = 4 => Fits(s, At4)
  /\ n = 5 => Fits(s, At5) /\ Tidy(s)
  /\ n = 6 => Fits(s, At6) /\ Tidy(s)

LEMMA UpMigrates == ASSUME NEW n \in 1..6, NEW s, Migrated(s, n - 1) PROVE Migrated(Tables!Up(s, n), n)
<1>1. CASE n = 1
  <2>1. Fits(s, At0) /\ Tables!Up(s, n) = Tables!UpInitSqlite(s)
    BY <1>1 DEF Migrated, Tables!Up
  <2> QED BY <1>1, <2>1, UpFirst DEF Migrated
<1>2. CASE n = 2
  <2>1. Fits(s, At1) /\ Tables!Up(s, n) = Tables!UpPrinterGroup(s)
    BY <1>2 DEF Migrated, Tables!Up
  <2> QED BY <1>2, <2>1, UpAndDownGroups DEF Migrated
<1>3. CASE n = 3
  <2>1. Fits(s, At2) /\ Tables!Up(s, n) = Tables!UpCompletionCascade(s)
    BY <1>3 DEF Migrated, Tables!Up
  <2> QED BY <1>3, <2>1, UpAndDownCompletions DEF Migrated
<1>4. CASE n = 4
  <2>1. Fits(s, At3) /\ Tables!Up(s, n) = Tables!UpRoleNameUnique(s)
    BY <1>4 DEF Migrated, Tables!Up
  <2> QED BY <1>4, <2>1, UpAndDownRoles DEF Migrated
<1>5. CASE n = 5
  <2>1. Fits(s, At4) /\ Tables!Up(s, n) = Tables!UpPrinterType(s)
    BY <1>5 DEF Migrated, Tables!Up
  <2> QED BY <1>5, <2>1, UpAndDownTypes DEF Migrated
<1>6. CASE n = 6
  <2>1. Fits(s, At5) /\ Tidy(s) /\ Tables!Up(s, n) = Tables!UpRemovePrinterFile(s)
    BY <1>6 DEF Migrated, Tables!Up
  <2> QED BY <1>6, <2>1, UpAndDownFiles DEF Migrated
<1> QED BY <1>1, <1>2, <1>3, <1>4, <1>5, <1>6

LEMMA DownMigrates == ASSUME NEW n \in 1..6, NEW s, Migrated(s, n) PROVE Migrated(Tables!Down(s, n), n - 1)
<1>1. CASE n = 1
  <2>1. Fits(s, At1) /\ Tables!Down(s, n) = Tables!DownInitSqlite(s)
    BY <1>1 DEF Migrated, Tables!Down
  <2> QED BY <1>1, <2>1, DownFirst DEF Migrated
<1>2. CASE n = 2
  <2>1. Fits(s, At2) /\ Tables!Down(s, n) = Tables!DownPrinterGroup(s)
    BY <1>2 DEF Migrated, Tables!Down
  <2> QED BY <1>2, <2>1, UpAndDownGroups DEF Migrated
<1>3. CASE n = 3
  <2>1. Fits(s, At3) /\ Tables!Down(s, n) = Tables!DownCompletionCascade(s)
    BY <1>3 DEF Migrated, Tables!Down
  <2> QED BY <1>3, <2>1, UpAndDownCompletions DEF Migrated
<1>4. CASE n = 4
  <2>1. Fits(s, At4) /\ Tables!Down(s, n) = Tables!DownRoleNameUnique(s)
    BY <1>4 DEF Migrated, Tables!Down
  <2> QED BY <1>4, <2>1, UpAndDownRoles DEF Migrated
<1>5. CASE n = 5
  <2>1. Fits(s, At5) /\ Tables!Down(s, n) = Tables!DownPrinterType(s)
    BY <1>5 DEF Migrated, Tables!Down
  <2> QED BY <1>5, <2>1, UpAndDownTypes DEF Migrated
<1>6. CASE n = 6
  <2>1. Fits(s, At6) /\ Tidy(s) /\ Tables!Down(s, n) = Tables!DownRemovePrinterFile(s)
    BY <1>6 DEF Migrated, Tables!Down
  <2> QED BY <1>6, <2>1, UpAndDownFiles DEF Migrated
<1> QED BY <1>1, <1>2, <1>3, <1>4, <1>5, <1>6

\* What the migrations up to n make of the tables, when f tells what those before made.
MadeAt(f, n) == IF n = executed THEN schema ELSE Tables!Up(f[n - 1], n)

\* A run of migrations ends, after whichever it started.
LEMMA RunsMigrate ==
  ASSUME executed \in 0..6, Migrated(schema, executed), NEW release \in 1..6, Tables!RunMigrations(release)
  PROVE  executed' = release /\ executed < release /\ Migrated(schema', release)
<1> DEFINE Upto(m) == \E f : f = [n \in executed..m |-> MadeAt(f, n)]
           Missing == {m \in Nat : m >= executed /\ ~Upto(m)}
<1>1. Upto(executed)
  <2> DEFINE f == [n \in executed..executed |-> schema]
  <2>1. f = [n \in executed..executed |-> MadeAt(f, n)]
    BY DEF MadeAt
  <2> QED BY <2>1
<1>2. ASSUME NEW m \in Nat, m > executed, Upto(m - 1) PROVE Upto(m)
  <2>1. PICK f : f = [n \in executed..(m - 1) |-> MadeAt(f, n)]
    BY <1>2
  <2> DEFINE g == [n \in executed..m |-> IF n = m THEN MadeAt(f, m) ELSE f[n]]
  <2>2. ASSUME NEW n \in executed..m PROVE g[n] = MadeAt(g, n)
    <3>1. CASE n = executed
      <4>1. g[n] = f[n] /\ f[n] = MadeAt(f, n)
        BY <1>2, <2>1, <3>1
      <4> QED BY <3>1, <4>1 DEF MadeAt
    <3>2. CASE n # executed
      <4>1. n - 1 \in executed..(m - 1) /\ g[n - 1] = f[n - 1]
        BY <1>2, <3>2
      <4>2. MadeAt(g, n) = MadeAt(f, n)
        BY <3>2, <4>1 DEF MadeAt
      <4>3. g[n] = MadeAt(f, n)
        <5>1. CASE n = m
          BY <5>1
        <5>2. CASE n # m
          <6>1. n \in executed..(m - 1) /\ g[n] = f[n]
            BY <1>2, <5>2
          <6> HIDE DEF g
          <6> QED BY <2>1, <6>1
        <5> QED BY <5>1, <5>2
      <4> QED BY <4>2, <4>3
    <3> QED BY <3>1, <3>2
  <2>3. g = [n \in executed..m |-> g[n]]
    OBVIOUS
  <2> HIDE DEF g
  <2>4. g = [n \in executed..m |-> MadeAt(g, n)]
    BY <2>2, <2>3
  <2> QED BY <2>4
<1> HIDE DEF Upto
<1>3. Missing = {}
  <2> SUFFICES ASSUME Missing # {} PROVE FALSE
    OBVIOUS
  <2>1. PICK m \in Missing : \A k \in Missing : m <= k
    BY LeastIsThere
  <2>2. m # executed
    BY <1>1
  <2>3. m - 1 \in Nat /\ m > executed /\ m - 1 \notin Missing
    BY <2>1, <2>2
  <2> QED BY <1>2, <2>2, <2>3
<1>4. executed' = release /\ executed < release
  BY DEF Tables!RunMigrations
<1> DEFINE after == CHOOSE f : f = [n \in executed..release |-> MadeAt(f, n)]
<1>5. after = [n \in executed..release |-> MadeAt(after, n)]
  <2>1. Upto(release)
    BY <1>3, <1>4
  <2> QED BY <2>1 DEF Upto
<1>6. schema' = after[release]
  BY DEF Tables!RunMigrations, MadeAt
<1> HIDE DEF after
<1> DEFINE Wrong == {n \in executed..release : ~Migrated(after[n], n)}
<1>7. Wrong = {}
  <2> SUFFICES ASSUME Wrong # {} PROVE FALSE
    OBVIOUS
  <2>1. PICK n \in Wrong : \A k \in Wrong : n <= k
    <3>1. Wrong \in SUBSET Nat
      OBVIOUS
    <3> HIDE DEF Wrong
    <3> QED BY <3>1, LeastIsThere
  <2>2. n \in executed..release /\ ~Migrated(after[n], n)
    BY <2>1
  <2>3. after[n] = MadeAt(after, n)
    BY <1>5, <2>2
  <2>4. n # executed
    BY <2>2, <2>3 DEF MadeAt
  <2>5. n - 1 \in executed..release /\ n \in 1..6 /\ n - 1 \notin Wrong
    BY <2>1, <2>2, <2>4
  <2>6. Migrated(after[n - 1], n - 1)
    BY <2>5
  <2>7. after[n] = Tables!Up(after[n - 1], n)
    BY <2>3, <2>4 DEF MadeAt
  <2> QED BY <2>2, <2>5, <2>6, <2>7, UpMigrates
<1>8. Migrated(after[release], release)
  BY <1>4, <1>7
<1> QED BY <1>4, <1>6, <1>8

\* The roles are named once, of the migration that says so on.
NamedApart(roles) == \A i, j \in DOMAIN roles : roles[i] = roles[j] => i = j
SchemaInv ==
  /\ executed \in 0..6 /\ Migrated(schema, executed) /\ DOMAIN roleTable \subseteq Nat
  /\ executed >= 4 => NamedApart(roleTable)

LEMMA NamesAreUnique ==
  ASSUME SchemaInv, executed >= 4
  PROVE  "role" \in DOMAIN schema /\ Tables!Unique({"name"}) \in schema["role"].rules
<1>1. {"role"} \subseteq Declared /\ "role" \notin {"printer", "printer_file"}
  BY NamesDeclared DEF FirstNames
<1>2. At4["role"] = Tables!NamedOnce /\ At5["role"] = Tables!NamedOnce /\ At6["role"] = Tables!NamedOnce
  BY <1>1, TablesAtEnds
<1>3. "role" \in DOMAIN At4 /\ "role" \in DOMAIN At5 /\ "role" \in DOMAIN At6
  BY <1>1, TablesAtEnds
<1>4. Fits(schema, At4) \/ Fits(schema, At5) \/ Fits(schema, At6)
  BY DEF SchemaInv, Migrated
<1>5. /\ "role" \in DOMAIN schema /\ IsTable(schema["role"])
      /\ Settled(schema["role"]) = Tables!NamedOnce
  BY <1>2, <1>3, <1>4 DEF Fits
<1>6. Tables!Unique({"name"}) \in Tables!NamedOnce.rules
  <2>1. PICK c, rules : Tables!FirstTables.role = Tables!Table(c, rules)
    BY DEF Tables!FirstTables
  <2>2. Tables!NamedOnce = Tables!Table(c, rules \cup {Tables!Unique({"name"})})
    BY <2>1, WithOfTable DEF Tables!NamedOnce
  <2> QED BY <2>2, TableParts
<1>7. Settled(schema["role"]).rules = {SettledRule(r) : r \in schema["role"].rules}
  BY TableParts DEF Settled
<1>8. PICK r \in schema["role"].rules : Tables!Unique({"name"}) = SettledRule(r)
  BY <1>5, <1>6, <1>7
<1>9. ~Tables!IsFk(r)
  BY <1>8, KindsOfRules DEF SettledRule
<1> QED BY <1>5, <1>8, <1>9 DEF SettledRule

LEMMA SchemaKeeps == ASSUME SchemaInv, [Tables!SchemaNext]_schemaVars PROVE SchemaInv'
<1>0. Tables!LastMigration = 6
  BY DEF Tables!LastMigration
<1>1. ASSUME NEW release \in 1..6, Tables!RunMigrations(release) PROVE SchemaInv'
  <2>1. executed' = release /\ executed < release /\ Migrated(schema', release)
    BY <1>1, RunsMigrate DEF SchemaInv
  <2>2. roleTable' = IF executed < 4 /\ release >= 4 THEN Tables!Deduplicated(roleTable) ELSE roleTable
    BY <1>1 DEF Tables!RunMigrations
  <2>3. DOMAIN roleTable' \subseteq Nat
    BY <2>2 DEF SchemaInv, Tables!Deduplicated
  <2>4. release >= 4 => NamedApart(roleTable')
    <3>1. CASE executed < 4 /\ release >= 4
      <4>1. NamedApart(Tables!Deduplicated(roleTable))
        <5> DEFINE first == {i \in DOMAIN roleTable : \A j \in DOMAIN roleTable : roleTable[j] = roleTable[i] => i <= j}
        <5>1. Tables!Deduplicated(roleTable) = [i \in first |-> roleTable[i]]
          BY DEF Tables!Deduplicated
        <5>2. \A i, j \in first : roleTable[i] = roleTable[j] => i <= j /\ j <= i /\ i \in Nat /\ j \in Nat
          BY DEF SchemaInv
        <5> HIDE DEF first
        <5> QED BY <5>1, <5>2 DEF NamedApart
      <4> QED BY <2>2, <3>1, <4>1
    <3>2. CASE ~(executed < 4 /\ release >= 4)
      BY <2>1, <2>2, <3>2 DEF SchemaInv
    <3> QED BY <3>1, <3>2
  <2> QED BY <2>1, <2>3, <2>4 DEF SchemaInv, Migrated, NamedApart, Fits, Tidy, Trails
<1>2. CASE Tables!RevertLast
  <2>1. executed > 0 /\ executed' = executed - 1 /\ schema' = Tables!Down(schema, executed)
    BY <1>2 DEF Tables!RevertLast
  <2>2. executed \in 1..6 /\ Migrated(schema', executed - 1)
    BY <2>1, DownMigrates DEF SchemaInv
  <2>3. executed # 1 => roleTable' = roleTable
    BY <1>2 DEF Tables!RevertLast
  <2>4. executed = 1 => roleTable' = [i \in {} |-> "ADMIN"]
    BY <1>2 DEF Tables!RevertLast
  <2>5. executed' >= 4 => NamedApart(roleTable')
    BY <2>1, <2>2, <2>3 DEF SchemaInv
  <2> QED BY <2>1, <2>2, <2>3, <2>4, <2>5 DEF SchemaInv
<1>3. ASSUME NEW id \in 1..MaxRoleRows, NEW name, Tables!StoreRole(id, name) PROVE SchemaInv'
  <2>1. schema' = schema /\ executed' = executed /\ roleTable' = Tables!Add(roleTable, id, name)
    BY <1>3 DEF Tables!StoreRole
  <2>2. /\ DOMAIN roleTable' = DOMAIN roleTable \cup {id} /\ roleTable'[id] = name
        /\ \A i \in DOMAIN roleTable : i # id => roleTable'[i] = roleTable[i]
    BY <2>1 DEF Tables!Add
  <2>3. executed >= 4 => \A i \in DOMAIN roleTable : roleTable[i] # name
    BY <1>3, NamesAreUnique DEF Tables!StoreRole
  <2>4. executed >= 4 => NamedApart(roleTable')
    BY <2>2, <2>3 DEF SchemaInv, NamedApart
  <2>5. id \in Nat
    BY Bounds
  <2> QED BY <2>1, <2>2, <2>4, <2>5 DEF SchemaInv
<1>4. ASSUME NEW id, Tables!GiveRole(id) PROVE SchemaInv'
  BY <1>4 DEF Tables!GiveRole, SchemaInv
<1>5. CASE UNCHANGED schemaVars
  BY <1>5 DEF schemaVars, SchemaInv
<1> QED BY <1>0, <1>1, <1>2, <1>3, <1>4, <1>5 DEF Tables!SchemaNext

LEMMA SchemaDeclared == ASSUME SchemaInv PROVE Tables!SchemaAsDeclared
<1>1. executed = 6 => schema = Tables!Entities
  <2> SUFFICES ASSUME executed = 6 PROVE schema = At6
    BY EntitiesAreLast
  <2>1. Fits(schema, At6) /\ ~Trails(schema, "printer") /\ ~Trails(schema, "role")
    BY DEF SchemaInv, Migrated, Tidy
  <2>2. At6 = [t \in DOMAIN At6 |-> At6[t]]
    BY DEF At6, Less
  <2>3. \A t \in DOMAIN At6 : Plain(At6[t])
    BY PlainAt5, TablesAtEnds
  <2> QED BY <2>1, <2>2, <2>3, FitsIsSame
<1>2. executed = 6 => \A i, j \in DOMAIN roleTable : roleTable[i] = roleTable[j] => i = j
  BY DEF SchemaInv, NamedApart
<1>3. executed = 0 => DOMAIN schema = {}
  BY DEF SchemaInv, Migrated, Fits, At0
<1>4. DOMAIN schema \subseteq Declared
  <2>1. /\ DOMAIN At0 = {} /\ DOMAIN At1 \subseteq Declared /\ DOMAIN At2 \subseteq Declared
        /\ DOMAIN At3 \subseteq Declared /\ DOMAIN At4 \subseteq Declared /\ DOMAIN At5 \subseteq Declared
        /\ DOMAIN At6 \subseteq Declared
    BY TablesAt1, TablesAtEnds, NamesDeclared DEF At0
  <2>2. \/ Fits(schema, At0) \/ Fits(schema, At1) \/ Fits(schema, At2) \/ Fits(schema, At3)
        \/ Fits(schema, At4) \/ Fits(schema, At5) \/ Fits(schema, At6)
    BY DEF SchemaInv, Migrated
  <2>3. \A ts : Fits(schema, ts) => DOMAIN schema = DOMAIN ts
    BY DEF Fits
  <2> QED BY <2>1, <2>2, <2>3
<1> QED BY <1>1, <1>2, <1>3, <1>4 DEF Tables!SchemaAsDeclared, Tables!LastMigration, Declared

\* Whatever migrations were run and reverted, in whatever releases, however many roles were
\* stored in between: a server of the last release finds the schema that its entities declare.
THEOREM SchemaIsAsDeclared == MCSpec => []SchemaAsDeclared
<1>1. MCInit => SchemaInv
  <2> SUFFICES ASSUME Tables!SchemaInit PROVE SchemaInv
    BY DEF MCInit
  <2>1. executed = 0 /\ DOMAIN roleTable = {}
    BY DEF Tables!SchemaInit
  <2>2. Fits(schema, At0)
    BY DEF Tables!SchemaInit, Fits, At0
  <2> QED BY <2>1, <2>2 DEF SchemaInv, Migrated
<1>2. SchemaInv /\ [MCNext]_vars => SchemaInv'
  BY Framed, SchemaKeeps
<1>3. SchemaInv => SchemaAsDeclared
  BY SchemaDeclared DEF SchemaAsDeclared
<1> QED BY <1>1, <1>2, <1>3, PTL DEF MCSpec

=============================================================================
