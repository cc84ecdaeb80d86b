------------------------------ MODULE SocketIo ------------------------------
(***************************************************************************)
(* SocketIoTask: what the clients are shown of the server.  An update is   *)
(* sent to all of them by a job and whenever one of them was let in.  It   *)
(* is read by microtasks, at one moment but for the floors: a store that   *)
(* has none asks the database, and updates that began meanwhile overtake.  *)
(***************************************************************************)
EXTENDS Naturals

CONSTANTS
  IoClients,
  MaxMoments  \* bound: how often the server's state changes

VARIABLES
  ioServer,     \* io is there
  moment,       \* number of the state of printers, sockets, events and uploads
  floorsCached, \* the store of floors is not empty
  stateUpdate,  \* who asked for an update -> NoUpdate, or the moment when it began
  shown         \* client -> NotConnected, or the moment it was shown last, or NothingYet

ioVars == <<ioServer, moment, floorsCached, stateUpdate, shown>>

NotConnected == 0
NothingYet == 1
NoUpdate == 0
FirstMoment == 2
Askers == IoClients \cup {"socketIoTask"}

IoTypeOK ==
  /\ ioServer \in BOOLEAN /\ floorsCached \in BOOLEAN
  /\ moment \in FirstMoment..MaxMoments
  /\ stateUpdate \in [Askers -> {NoUpdate} \cup FirstMoment..moment]
  /\ shown \in [IoClients -> NotConnected..moment]

\* The job runs before the server listens.
IoInit ==
  /\ ioServer = FALSE /\ moment = FirstMoment /\ floorsCached = TRUE
  /\ stateUpdate = [a \in Askers |-> NoUpdate]
  /\ shown = [c \in IoClients |-> NotConnected]

StateChanges ==
  /\ moment < MaxMoments /\ moment' = moment + 1
  /\ UNCHANGED <<ioServer, floorsCached, stateUpdate, shown>>

\* The last floor is deleted.
FloorsDeleted ==
  /\ floorsCached /\ floorsCached' = FALSE
  /\ UNCHANGED <<ioServer, moment, stateUpdate, shown>>

AttachServer ==
  /\ ~ioServer /\ ioServer' = TRUE
  /\ UNCHANGED <<moment, floorsCached, stateUpdate, shown>>

\* The rest of an update is read when the floors are.  With a slip: before they are.
ReadAt_Before(begun) == begun
ReadAt(begun) == moment

\* send: without io nobody is there.
Send(to, begun) ==
  shown' = [c \in IoClients |-> IF to[c] = NotConnected \/ ~ioServer THEN to[c] ELSE ReadAt(begun)]

SendUpdate(a, to) ==
  /\ stateUpdate[a] = NoUpdate
  /\ IF floorsCached
     THEN Send(to, moment) /\ UNCHANGED stateUpdate
     ELSE shown' = to /\ stateUpdate' = [stateUpdate EXCEPT ![a] = moment]
  /\ UNCHANGED <<ioServer, moment, floorsCached>>

\* loadStore creates a floor when the database has none.
FloorsLoaded(a) ==
  /\ stateUpdate[a] # NoUpdate /\ stateUpdate' = [stateUpdate EXCEPT ![a] = NoUpdate]
  /\ floorsCached' = TRUE
  /\ Send(shown, stateUpdate[a])
  /\ UNCHANGED <<ioServer, moment>>

FloorsFail(a) ==
  /\ stateUpdate[a] # NoUpdate /\ stateUpdate' = [stateUpdate EXCEPT ![a] = NoUpdate]
  /\ UNCHANGED <<ioServer, moment, floorsCached, shown>>

\* The job does not run while it is running.
Run == SendUpdate("socketIoTask", shown)

OnConnect(c) ==
  /\ ioServer /\ shown[c] = NotConnected
  /\ SendUpdate(c, [shown EXCEPT ![c] = NothingYet])

Disconnect(c) ==
  /\ shown[c] # NotConnected /\ shown' = [shown EXCEPT ![c] = NotConnected]
  /\ UNCHANGED <<ioServer, moment, floorsCached, stateUpdate>>

IoNext ==
  \/ StateChanges \/ FloorsDeleted \/ AttachServer \/ Run
  \/ \E a \in Askers : FloorsLoaded(a) \/ FloorsFail(a)
  \/ \E c \in IoClients : OnConnect(c) \/ Disconnect(c)

IoSpec == IoInit /\ [][IoNext]_ioVars

-----------------------------------------------------------------------------
\* Whichever of overlapping updates is sent first: a client that stays is never shown an
\* older state than before.
NeverShownOlder ==
  [][\A c \in IoClients : shown'[c] # NotConnected => shown'[c] >= shown[c]]_ioVars

=============================================================================
