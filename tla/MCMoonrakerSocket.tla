------------------------- MODULE MCMoonrakerSocket -------------------------
(***************************************************************************)
(* MoonrakerSocket for TLC: printer events come out of a budget, and the   *)
(* ws objects whose close is still to come are bounded.                    *)
(***************************************************************************)
EXTENDS MoonrakerSocket

CONSTANTS
  MaxEvents,     \* printer updates, refreshes and removals
  MaxDetached    \* ws objects no longer referred to

VARIABLE events

MCInit == Init /\ events = 0

MCNext ==
  /\ \/ StoreStep /\ events < MaxEvents /\ events' = events + 1
     \/ Step /\ UNCHANGED events
  /\ LET d == adapter'.detached
     IN  d["connecting"] + d["open"] + d["closing"] <= MaxDetached

MCSpec == MCInit /\ [][MCNext]_<<vars, events>> /\ Fairness

=============================================================================
