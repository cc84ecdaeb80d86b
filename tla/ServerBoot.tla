----------------------------- MODULE ServerBoot -----------------------------
(***************************************************************************)
(* The boot of the server, BootTask, and TaskManagerService, which repeats *)
(* it when the database is not there and starts the other tasks.           *)
(* A task is named for its preset: "periodic" stands for socketIoTask and  *)
(* printerWebsocketRestoreTask, "immediate" for printerWebsocketTask,      *)
(* "once" for the client download and the file clean, "delayed" for the    *)
(* software update.                                                        *)
(***************************************************************************)
EXTENDS Naturals

CONSTANT MaxFailures   \* bound: how often a step of boot fails

VARIABLES
  bootMode,     \* the database, and SAFEMODE_ENABLED
  process,
  bootStep,     \* where the run of BootTask is
  bootCaller,   \* runOnce, or the job of the task manager
  bootDisabled, \* options.disabled of the boot task
  registered,   \* taskStates
  jobs,         \* SimpleIntervalJobs running for a task
  delayed,      \* tasks whose setTimeout runs
  executing,    \* isExecuting of the AsyncTask of a task
  loaded,       \* stores loaded
  failures

bootVars == <<bootMode, process, bootStep, bootCaller, bootDisabled, registered,
              jobs, delayed, executing, loaded, failures>>

BootTasks == {"periodic", "immediate", "once", "delayed"}
Periodic == {"periodic", "immediate"}
Tasks == BootTasks \cup {"boot"}
\* What run does, in this order; "roles" with the permissions and the demo account.
StepAfter == [connect |-> "settings", settings |-> "roles", roles |-> "sockets",
              sockets |-> "files", files |-> "floors", floors |-> "thumbnails"]
Stores == {StepAfter[s] : s \in DOMAIN StepAfter}

BootTypeOK ==
  /\ bootMode \in [db : {"sqlite", "mongo"}, safe : BOOLEAN]
  /\ process \in {"booting", "listening", "exited"}
  /\ bootStep \in Stores \cup {"connect", "none"}
  /\ bootCaller \in {"runOnce", "job"} /\ bootDisabled \in BOOLEAN
  /\ registered \in SUBSET Tasks /\ jobs \in [Tasks -> Nat]
  /\ delayed \in SUBSET {"delayed"} /\ executing \in SUBSET BootTasks
  /\ loaded \in SUBSET Stores /\ failures \in 0..MaxFailures

\* boot calls runOnce, which registers the boot task, disabled, and runs it.
BootInit ==
  /\ bootMode \in [db : {"sqlite", "mongo"}, safe : BOOLEAN]
  /\ process = "booting"
  /\ bootStep = "connect" /\ bootCaller = "runOnce" /\ bootDisabled = TRUE
  /\ registered = {"boot"} /\ jobs = [t \in Tasks |-> 0]
  /\ delayed = {} /\ executing = {} /\ loaded = {} /\ failures = 0

-----------------------------------------------------------------------------
(* TaskManagerService. *)

\* What becomes of the jobs j.  With a slip: the job of a disabled task runs on.
DisableJob_RunsOn(t, j) == j
DisableJob(t, j) == IF bootDisabled THEN j ELSE [j EXCEPT ![t] = 0]

\* With a slip: a job that is enabled already is scheduled once more; or none ever is.
ScheduleDisabledJob_Again(t) == [jobs EXCEPT ![t] = @ + 1]
ScheduleDisabledJob_Never(t) == jobs
ScheduleDisabledJob(t) == IF bootDisabled THEN [jobs EXCEPT ![t] = @ + 1] ELSE jobs

\* registerJobOrTask of each of new; what is registered already validateInput refuses.
RegisterJobOrTask(new) ==
  /\ registered' = registered \cup new
  /\ delayed' = delayed \cup (new \cap {"delayed"})
  /\ executing' = executing \cup (new \cap {"once", "immediate"})
ScheduleEnabledPeriodicJob(new) == [t \in Tasks |-> jobs[t] + (IF t \in new \cap Periodic THEN 1 ELSE 0)]

\* A job does not start its task while that is executing.
JobTicks(t) ==
  /\ t \in BootTasks /\ jobs[t] > 0 /\ t \notin executing
  /\ executing' = executing \cup {t}
  /\ UNCHANGED <<bootMode, process, bootStep, bootCaller, bootDisabled, registered,
                 jobs, delayed, loaded, failures>>

TimeoutFires ==
  /\ delayed # {}
  /\ delayed' = {} /\ executing' = executing \cup delayed
  /\ UNCHANGED <<bootMode, process, bootStep, bootCaller, bootDisabled, registered,
                 jobs, loaded, failures>>

\* The error handler only records the error.  With a slip: it stops the job.
AfterRun_StopsOnError(t, ok) == IF ok THEN jobs ELSE [jobs EXCEPT ![t] = 0]
AfterRun(t, ok) == jobs

TaskEnds(t, ok) ==
  /\ t \in executing
  /\ executing' = executing \ {t}
  /\ jobs' = AfterRun(t, ok)
  /\ UNCHANGED <<bootMode, process, bootStep, bootCaller, bootDisabled, registered,
                 delayed, loaded, failures>>

-----------------------------------------------------------------------------
(* BootTask. *)

\* The run returns; after runOnce the server listens.
RunReturns ==
  /\ bootStep' = "none"
  /\ process' = IF bootCaller = "runOnce" THEN "listening" ELSE process

BootJobTicks ==
  /\ jobs["boot"] > 0 /\ bootStep = "none"
  /\ bootStep' = "connect" /\ bootCaller' = "job"
  /\ UNCHANGED <<bootMode, process, bootDisabled, registered, jobs, delayed,
                 executing, loaded, failures>>

\* createConnection and migrateDatabase; an error that is none of mongoose's is dropped.
Connects ==
  /\ bootStep = "connect"
  /\ bootStep' = StepAfter[bootStep]
  /\ UNCHANGED <<bootMode, process, bootCaller, bootDisabled, registered, jobs,
                 delayed, executing, loaded, failures>>

ConnectFails ==
  /\ bootStep = "connect" /\ bootMode.db = "mongo"
  /\ failures < MaxFailures /\ failures' = failures + 1
  /\ bootDisabled' = FALSE /\ jobs' = ScheduleDisabledJob("boot")
  /\ RunReturns
  /\ UNCHANGED <<bootMode, bootCaller, registered, delayed, executing, loaded>>

\* Any other step that throws: the process exits when runOnce called, a job is repeated.
RunThrows ==
  /\ bootStep # "none"
  /\ bootStep = "connect" => bootMode.db = "sqlite"
  /\ failures < MaxFailures /\ failures' = failures + 1
  /\ bootStep' = "none"
  /\ process' = IF bootCaller = "runOnce" THEN "exited" ELSE process
  /\ UNCHANGED <<bootMode, bootCaller, bootDisabled, registered, jobs, delayed,
                 executing, loaded>>

Loads ==
  /\ bootStep \in DOMAIN StepAfter \ {"connect"}
  /\ loaded' = loaded \cup {bootStep}
  /\ bootStep' = StepAfter[bootStep]
  /\ UNCHANGED <<bootMode, process, bootCaller, bootDisabled, registered, jobs,
                 delayed, executing, failures>>

\* The thumbnails, and then, without another await, the boot tasks.
Completes ==
  LET new == (IF bootMode.safe THEN {} ELSE BootTasks) \ registered
  IN  /\ bootStep = "thumbnails"
      /\ loaded' = loaded \cup {bootStep}
      /\ RegisterJobOrTask(new)
      /\ jobs' = DisableJob("boot", ScheduleEnabledPeriodicJob(new))
      /\ bootDisabled' = TRUE
      /\ RunReturns
      /\ UNCHANGED <<bootMode, bootCaller, failures>>

BootProgress == BootJobTicks \/ Connects \/ Loads \/ Completes

BootNext ==
  \/ BootProgress \/ ConnectFails \/ RunThrows \/ TimeoutFires
  \/ \E t \in BootTasks : JobTicks(t) \/ \E ok \in BOOLEAN : TaskEnds(t, ok)

BootSpec == BootInit /\ [][BootNext]_bootVars

\* The database answers, with a result or an error; timers fire; tasks end.
BootFairness ==
  /\ WF_bootVars(BootProgress)
  /\ \A t \in BootTasks : WF_bootVars(JobTicks(t)) /\ WF_bootVars(\E ok \in BOOLEAN : TaskEnds(t, ok))

-----------------------------------------------------------------------------
(* Properties. *)

\* However often boot fails, one job repeats it.
OneBootJob == jobs["boot"] <= 1

\* Once a boot task was started, the stores it works on are never loaded again: a
\* reload would leave the reconnect task's adapters, with their connections, to nobody.
StoresStayLoaded == [][registered # {"boot"} => bootStep' = "none"]_bootVars

\* Boot is repeated by one job, and not once tasks run.
BootsOnce == [][OneBootJob']_bootVars /\ StoresStayLoaded

\* When the database comes back the server gets to work, unless runOnce threw, which
\* ends the process: only the errors of mongoose are retried.
BootSucceeds == <>(process = "exited" \/ loaded = Stores)

\* A periodic task that failed, however often, is run again.
PeriodicKeepsRunning == \A t \in Periodic : t \in registered ~> t \in executing

\* A server that started comes to do its work, and goes on with it, whatever fails.
GetsToWork == BootSucceeds /\ PeriodicKeepsRunning

=============================================================================
