-------------------------- MODULE MCPrinterRecords --------------------------
(***************************************************************************)
(* PrinterRecords for TLC: requests and restarts come out of a budget.     *)
(***************************************************************************)
EXTENDS PrinterRecords

CONSTANT MaxArrivals    \* requests and restarts in a whole run

VARIABLE arrivals

mcvars == <<vars, arrivals>>

MCInit == Init /\ arrivals = 0

MCArrival ==
  /\ arrivals < MaxArrivals
  /\ Restart \/ \E c \in Requests : RequestArrives(c)
  /\ arrivals' = arrivals + 1

MCStep == (\E c \in Requests : RequestStep(c)) /\ UNCHANGED arrivals

MCNext == MCArrival \/ MCStep

MCSpec == MCInit /\ [][MCNext]_mcvars
MCFairSpec == MCSpec /\ \A c \in Requests : WF_vars(RequestStep(c))

=============================================================================
