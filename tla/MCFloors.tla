------------------------------ MODULE MCFloors ------------------------------
(***************************************************************************)
(* Floors for TLC: requests and restarts come out of a budget.  The places *)
(* printers start from are any, so few requests reach the cases that count.*)
(***************************************************************************)
EXTENDS Floors

CONSTANT MaxArrivals    \* requests and restarts in a whole run

VARIABLE arrivals

mcvars == <<vars, arrivals>>

MCInit == Init /\ arrivals = 0

MCArrival ==
  /\ arrivals < MaxArrivals
  /\ Restart \/ \E c \in Requests : RequestArrives(c)
  /\ arrivals' = arrivals + 1

MCStep == (\E c \in Requests : RequestStep(c)) /\ UNCHANGED arrivals

MCNext == MCArrival \/ MCStep

MCSpec == MCInit /\ [][MCNext]_mcvars

ColumnCells == {<<0, 0>>, <<0, 1>>}

RequestSymmetry == Permutations(Requests) \cup Permutations(Printers)

=============================================================================
