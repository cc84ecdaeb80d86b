----------------------------- MODULE BootProofs -----------------------------
(***************************************************************************)
(* What holds of the boot of the server, however often it fails.           *)
(***************************************************************************)
EXTENDS MCTasksLive, TLAPS

\* One job repeats the boot task exactly while its option says enabled; and once tasks were
\* started the boot task neither runs nor is repeated.
BootInv ==
  /\ Boot!BootTypeOK
  /\ jobs["boot"] = (IF bootDisabled THEN 0 ELSE 1)
  /\ "boot" \in registered
  /\ registered # {"boot"} => bootStep = "none" /\ bootDisabled

LEMMA BootStepsAre ==
  /\ Boot!Stores = {"settings", "roles", "sockets", "files", "floors", "thumbnails"}
  /\ DOMAIN Boot!StepAfter = {"connect", "settings", "roles", "sockets", "files", "floors"}
  /\ \A s \in DOMAIN Boot!StepAfter : Boot!StepAfter[s] \in Boot!Stores
<1>1. DOMAIN Boot!StepAfter = {"connect", "settings", "roles", "sockets", "files", "floors"}
  BY DEF Boot!StepAfter
<1>2. /\ Boot!StepAfter["connect"] = "settings" /\ Boot!StepAfter["settings"] = "roles"
      /\ Boot!StepAfter["roles"] = "sockets" /\ Boot!StepAfter["sockets"] = "files"
      /\ Boot!StepAfter["files"] = "floors" /\ Boot!StepAfter["floors"] = "thumbnails"
  BY DEF Boot!StepAfter
<1>3. \A s \in DOMAIN Boot!StepAfter : Boot!StepAfter[s] \in Boot!Stores
  BY DEF Boot!Stores
<1> QED BY <1>1, <1>2, <1>3 DEF Boot!Stores

LEMMA BootKeeps ==
  ASSUME BootInv, [Boot!BootNext]_bootVars
  PROVE  BootInv' /\ (registered # {"boot"} => bootStep' = "none")
<1> USE BootStepsAre, FailuresAreBounded
<1>0. jobs \in [Boot!Tasks -> Nat] /\ "boot" \in Boot!Tasks
  BY DEF BootInv, Boot!BootTypeOK, Boot!Tasks
<1>1. ASSUME NEW t \in Boot!BootTasks, Boot!JobTicks(t) \/ \E ok \in BOOLEAN : Boot!TaskEnds(t, ok)
      PROVE  BootInv' /\ (registered # {"boot"} => bootStep' = "none")
  <2>1. executing' \in SUBSET Boot!BootTasks
    BY <1>1 DEF BootInv, Boot!BootTypeOK, Boot!JobTicks, Boot!TaskEnds
  <2>2. UNCHANGED <<bootMode, process, bootStep, bootCaller, bootDisabled, registered, jobs, delayed, loaded, failures>>
    BY <1>1 DEF Boot!JobTicks, Boot!TaskEnds, Boot!AfterRun
  <2> QED BY <2>1, <2>2 DEF BootInv, Boot!BootTypeOK
<1>2. ASSUME Boot!TimeoutFires
      PROVE  BootInv' /\ (registered # {"boot"} => bootStep' = "none")
  BY <1>2 DEF BootInv, Boot!BootTypeOK, Boot!TimeoutFires, Boot!BootTasks
<1>3. ASSUME Boot!BootJobTicks
      PROVE  BootInv' /\ (registered # {"boot"} => bootStep' = "none")
  BY <1>3 DEF BootInv, Boot!BootTypeOK, Boot!BootJobTicks
<1>4. ASSUME Boot!Connects
      PROVE  BootInv' /\ (registered # {"boot"} => bootStep' = "none")
  BY <1>4 DEF BootInv, Boot!BootTypeOK, Boot!Connects
<1>5. ASSUME Boot!ConnectFails
      PROVE  BootInv' /\ (registered # {"boot"} => bootStep' = "none")
  <2>1. jobs' \in [Boot!Tasks -> Nat] /\ jobs'["boot"] = 1 /\ ~bootDisabled'
    BY <1>0, <1>5 DEF BootInv, Boot!ConnectFails, Boot!ScheduleDisabledJob
  <2>2. /\ bootStep = "connect" /\ bootStep' = "none" /\ registered = {"boot"} /\ registered' = registered
        /\ process' \in {"booting", "listening", "exited"} /\ bootDisabled' = FALSE
        /\ UNCHANGED <<bootMode, bootCaller, delayed, executing, loaded>>
    BY <1>5 DEF BootInv, Boot!BootTypeOK, Boot!ConnectFails, Boot!RunReturns
  <2>3. failures' \in 0..MaxFailures
    BY <1>5 DEF BootInv, Boot!BootTypeOK, Boot!ConnectFails
  <2> QED BY <2>1, <2>2, <2>3 DEF BootInv, Boot!BootTypeOK
<1>6. ASSUME Boot!RunThrows
      PROVE  BootInv' /\ (registered # {"boot"} => bootStep' = "none")
  BY <1>6 DEF BootInv, Boot!BootTypeOK, Boot!RunThrows
<1>7. ASSUME Boot!Loads
      PROVE  BootInv' /\ (registered # {"boot"} => bootStep' = "none")
  BY <1>7 DEF BootInv, Boot!BootTypeOK, Boot!Loads
<1>8. ASSUME Boot!Completes
      PROVE  BootInv' /\ (registered # {"boot"} => bootStep' = "none")
  <2> DEFINE new == (IF bootMode.safe THEN {} ELSE Boot!BootTasks) \ registered
  <2>1. new \subseteq Boot!BootTasks /\ Boot!BootTasks \subseteq Boot!Tasks /\ "boot" \notin new
    BY DEF Boot!BootTasks, Boot!Tasks
  <2>2. jobs' = Boot!DisableJob("boot", Boot!ScheduleEnabledPeriodicJob(new))
    BY <1>8 DEF Boot!Completes
  <2>3. Boot!RegisterJobOrTask(new) /\ loaded' = loaded \cup {bootStep} /\ bootDisabled' = TRUE /\ Boot!RunReturns
        /\ bootStep = "thumbnails" /\ UNCHANGED <<bootMode, bootCaller, failures>>
    BY <1>8 DEF Boot!Completes
  <2> HIDE DEF new
  <2>4. /\ Boot!ScheduleEnabledPeriodicJob(new) \in [Boot!Tasks -> Nat]
        /\ Boot!ScheduleEnabledPeriodicJob(new)["boot"] = jobs["boot"]
    BY <1>0, <2>1 DEF Boot!ScheduleEnabledPeriodicJob, Boot!Periodic
  <2>5. jobs' \in [Boot!Tasks -> Nat] /\ jobs'["boot"] = 0
    BY <1>0, <2>2, <2>4 DEF BootInv, Boot!DisableJob
  <2>6. /\ registered' \in SUBSET Boot!Tasks /\ "boot" \in registered' /\ delayed' \in SUBSET {"delayed"}
        /\ executing' \in SUBSET Boot!BootTasks
    BY <2>1, <2>3 DEF BootInv, Boot!BootTypeOK, Boot!RegisterJobOrTask
  <2>7. bootStep' = "none" /\ process' \in {"booting", "listening", "exited"}
    BY <2>3 DEF BootInv, Boot!BootTypeOK, Boot!RunReturns
  <2> QED BY <2>3, <2>5, <2>6, <2>7 DEF BootInv, Boot!BootTypeOK
<1>9. CASE UNCHANGED bootVars
  BY <1>9 DEF bootVars, BootInv, Boot!BootTypeOK
<1> QED
  BY <1>1, <1>2, <1>3, <1>4, <1>5, <1>6, <1>7, <1>8, <1>9 DEF Boot!BootNext, Boot!BootProgress

\* Boot is repeated by one job however often it fails, and loads no store again once tasks run,
\* which would leave the connections of the reconnect task to nobody (TaskManagerService, BootTask).
THEOREM BootedOnce == TasksSpec => BootsOnce
<1>1. TasksInit => BootInv
  <2> SUFFICES ASSUME Boot!BootInit PROVE BootInv
    BY DEF TasksInit
  <2>1. "boot" \in Boot!Tasks /\ failures \in 0..MaxFailures
    BY FailuresAreBounded DEF Boot!BootInit, Boot!Tasks
  <2> QED BY <2>1 DEF BootInv, Boot!BootInit, Boot!BootTypeOK
<1>2. BootInv /\ [TasksNext]_<<component, mcvars, bootVars>> => BootInv' /\ (registered # {"boot"} => bootStep' = "none")
  <2>1. [TasksNext]_<<component, mcvars, bootVars>> => [Boot!BootNext]_bootVars
    BY DEF TasksNext, SocketsMove, BootMoves
  <2> QED BY <2>1, BootKeeps
<1>3. BootInv' => [Boot!BootTypeOK']_bootVars /\ [Boot!OneBootJob']_Boot!bootVars
  BY DEF BootInv, Boot!OneBootJob
<1>4. (registered # {"boot"} => bootStep' = "none") => [registered # {"boot"} => bootStep' = "none"]_Boot!bootVars
  OBVIOUS
<1> QED BY <1>1, <1>2, <1>3, <1>4, PTL DEF TasksSpec, BootsOnce, Boot!BootsOnce, Boot!StoresStayLoaded

=============================================================================
