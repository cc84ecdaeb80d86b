----------------------------- MODULE IPrinterApi -----------------------------
(***************************************************************************)
(* What the interface IPrinterApi promises of a printer of any type: a     *)
(* call that was made changes the print of the printer it was made for, as *)
(* its name says, at most once, or nothing.  Nobody but the printer itself *)
(* changes the print otherwise.                                            *)
(***************************************************************************)

CONSTANT Printers

VARIABLES
  jobs,   \* printer -> "idle", "printing" or "paused"
  made    \* calls that were made and did not return: [id, op, printer]

vars == <<jobs, made>>

\* What may become of a print of which the call asks.
Outcomes(op, job) ==
  {job} \cup
  CASE op \in {"startPrint", "uploadFile"} -> IF job = "idle" THEN {"printing"} ELSE {}
    [] op = "pausePrint" -> IF job = "printing" THEN {"paused"} ELSE {}
    [] op = "resumePrint" -> IF job = "paused" THEN {"printing"} ELSE {}
    [] op \in {"cancelPrint", "quickStop", "disconnect", "restartServer"} -> {"idle"}
    [] op \in {"connect", "homeAxes", "getVersion"} -> {}

Init == jobs \in [Printers -> {"idle"}] /\ made = {}

Make(id, op, p) == made' = made \cup {[id |-> id, op |-> op, printer |-> p]} /\ UNCHANGED jobs

Return(c) ==
  /\ c \in made /\ made' = made \ {c}
  /\ \E job \in Outcomes(c.op, jobs[c.printer]) : jobs' = [jobs EXCEPT ![c.printer] = job]

\* The print ends, or somebody starts one at the printer.
ByItself(p) ==
  /\ \E job \in {"idle", "printing"} : jobs[p] # "paused" /\ jobs' = [jobs EXCEPT ![p] = job]
  /\ UNCHANGED made

Next ==
  \/ \E c \in made' \ made : Make(c.id, c.op, c.printer)
  \/ \E c \in made : Return(c)
  \/ \E p \in Printers : ByItself(p)

Spec == Init /\ [][Next]_vars

=============================================================================
