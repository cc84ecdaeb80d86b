-------------------------- MODULE MCPrinterSockets --------------------------
(***************************************************************************)
(* PrinterSockets for TLC.  What disturbs a connection from outside, a     *)
(* printer event, a user's refresh, a reauthRequired message or a protocol *)
(* error, is drawn from a budget; connections open, fail, talk and close   *)
(* freely.  Neither HTTP nor ws answers bound how many connections of an   *)
(* adapter may be waiting for their close at once, so that is bounded too. *)
(***************************************************************************)
EXTENDS PrinterSockets, FiniteSetsExt, TLC

CONSTANTS
  MaxDisturbances,   \* printer events, refreshes, reauthRequired messages, protocol errors
  MaxWs              \* ws objects, of all adapters together, with their close to come

VARIABLE disturbances

mcvars == <<adapterOf, adapter, created, session, reconnect, restore, disturbances>>

MCInit == Init /\ disturbances = 0

Disturb ==
  /\ disturbances < MaxDisturbances
  /\ disturbances' = disturbances + 1
  /\ PrinterEvent \/ \E a \in Adapters : PeerDisturbs(a)

WsBound == MapThenSumSet(LAMBDA a : WsCount(adapter[a]), Adapters) <= MaxWs

Undisturbed ==
  /\ UNCHANGED disturbances
  /\ TaskStep \/ \E a \in Adapters : AdapterStep(a)

MCNext == (Disturb \/ Undisturbed) /\ WsBound'

MCSpec == MCInit /\ [][MCNext]_mcvars
MCFairSpec == MCSpec /\ Fairness

AdapterSymmetry == Permutations(Adapters)

=============================================================================
