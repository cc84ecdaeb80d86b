---------------------------- MODULE MCTasksLive ----------------------------
(***************************************************************************)
(* For TLC: what the server's tasks must get done in the end, the sockets' *)
(* tasks (PrinterSockets, as in MCPrinterSockets) and the boot task with   *)
(* the tasks it starts (ServerBoot).  The two share no state: Init picks   *)
(* the one that moves, the other keeps its first state, and the fairness   *)
(* is that of the one that moves.                                          *)
(***************************************************************************)
EXTENDS MCPrinterSockets

CONSTANT MaxFailures

ASSUME FailuresAreBounded == MaxFailures \in Nat

VARIABLES
  component,  \* the one that moves
  bootMode, process, bootStep, bootCaller, bootDisabled, registered, jobs, delayed, executing,
  loaded, failures

Boot == INSTANCE ServerBoot

bootVars ==
  <<bootMode, process, bootStep, bootCaller, bootDisabled, registered, jobs, delayed, executing,
    loaded, failures>>

TasksInit ==
  /\ component \in {"Sockets", "Boot"}
  /\ MCInit /\ Boot!BootInit
  /\ component # "Boot" => bootMode = [db |-> "mongo", safe |-> FALSE]
  /\ component # "Sockets" => InStore = {}

SocketsMove == component = "Sockets" /\ MCNext /\ UNCHANGED <<component, bootVars>>
BootMoves == component = "Boot" /\ Boot!BootNext /\ UNCHANGED <<component, mcvars>>

TasksNext == SocketsMove \/ BootMoves

SocketsFairness ==
  /\ WF_vars(component = "Sockets" /\ StartReconnect)
  /\ WF_vars(component = "Sockets" /\ StartOpenPass)
  /\ WF_vars(component = "Sockets" /\ FinishReconnect)
  /\ WF_vars(component = "Sockets" /\ StartRestore)
  /\ WF_vars(component = "Sockets" /\ (RestoreAnswered \/ RestoreRejected))
  /\ \A a \in Adapters :
       /\ WF_vars(component = "Sockets" /\ SessionStepOf(a))
       /\ \A from \in Holder :
            /\ WF_vars(component = "Sockets" /\ (WsOpens(a, from) \/ WsFails(a, from)))
            /\ WF_vars(component = "Sockets" /\ WsCloses(a, from))

BootFairness ==
  /\ WF_bootVars(component = "Boot" /\ Boot!BootProgress)
  /\ \A t \in Boot!BootTasks :
        /\ WF_bootVars(component = "Boot" /\ Boot!JobTicks(t))
        /\ WF_bootVars(component = "Boot" /\ \E ok \in BOOLEAN : Boot!TaskEnds(t, ok))

TasksSpec ==
  /\ TasksInit /\ [][TasksNext]_<<component, mcvars, bootVars>>
  /\ SocketsFairness /\ BootFairness

-----------------------------------------------------------------------------
(* Properties; those of the sockets' tasks are the ones PrinterSockets states. *)

\* See ServerBoot: boot is repeated by one job, and loads no stores under running tasks;
\* its variables have their types.
BootsOnce == [][Boot!BootTypeOK']_bootVars /\ Boot!BootsOnce
\* See ServerBoot: boot gets to its end or the process exits, and tasks that fail go on.
GetsToWork == component = "Boot" => Boot!GetsToWork

=============================================================================
