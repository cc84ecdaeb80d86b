--------------------------- MODULE ReconnectRounds ---------------------------
(***************************************************************************)
(* What the periodic reconnect task promises, with all data left out: it   *)
(* works in rounds, a round has a reauth phase and an open phase, each     *)
(* phase starts sessions for some adapters and ends when all of them have  *)
(* ended.  So a session never overlaps another one of the same adapter,    *)
(* and no session is left running when a phase starts.                     *)
(***************************************************************************)
CONSTANT Adapters

VARIABLES
  phase,      \* "idle", "reauth" or "open"
  running     \* the adapters whose session is in progress

vars == <<phase, running>>

Init == phase = "idle" /\ running = {}

BeginPhase(from, to) ==
  /\ phase = from
  /\ running = {}
  /\ phase' = to
  /\ running' \in SUBSET Adapters

SessionEnds ==
  /\ \E a \in running : running' = running \ {a}
  /\ UNCHANGED phase

EndRound ==
  /\ phase = "open"
  /\ running = {}
  /\ phase' = "idle"
  /\ UNCHANGED running

Next ==
  \/ BeginPhase("idle", "reauth")
  \/ BeginPhase("reauth", "open")
  \/ SessionEnds
  \/ EndRound

Spec == Init /\ [][Next]_vars

=============================================================================
