--------------------------- MODULE KlipperStatus ---------------------------
(***************************************************************************)
(* What the MoonrakerWebsocketAdapter of one printer believes of Klipper:  *)
(* its printerObjects, replaced by the answer to a query (every 15 s, and  *)
(* when Klipper comes or goes) and merged with the updates that Moonraker  *)
(* sends in between, and the "current" event made of it.                   *)
(***************************************************************************)
EXTENDS Naturals, Sequences

CONSTANTS
  ObjectQueries, \* queries side by side: the interval's and those of setupSocketSession
  MaxUpdates     \* bound: messages of Moonraker on their way

VARIABLES
  klipper,       \* the objects as they are, or Down
  subscribed,    \* Moonraker sends their changes
  updates,       \* messages on their way, in order
  queries,       \* the answer on its way to each query
  printerObjects,
  current,       \* the flags of the last current event emitted
  asOf           \* history: the last answer taken over is of klipper as it is now, and no
                 \* update of a subscription that Moonraker has forgotten undid it

klipperVars == <<klipper, subscribed, updates, queries, printerObjects, current, asOf>>

Down == [webhooks |-> "down"]
Objects ==
  [webhooks : {"ready", "shutdown"}, print_stats : {"standby", "printing", "paused"},
   idle_timeout : {"Idle", "Printing"}]
AtStart == [webhooks |-> "ready", print_stats |-> "standby", idle_timeout |-> "Idle"]
Nothing == [webhooks |-> "nothing"]  \* status {}: the answer 503 leaves no object
NoFlags == [operational |-> FALSE, printing |-> FALSE, paused |-> FALSE, ready |-> FALSE,
            sdReady |-> FALSE, error |-> FALSE]
NoQuery == [at |-> "none"]
Waiting == [at |-> "asked"]

\* The message of a changed object, and the ones of Klipper coming and going.
Updates == [object : DOMAIN AtStart, value : UNION {{o[n] : n \in DOMAIN o} : o \in Objects}]
           \cup [notify : {"notify_klippy_ready", "notify_klippy_disconnected"}]

KlipperTypeOK ==
  /\ klipper \in Objects \cup {Down} /\ printerObjects \in Objects \cup {Nothing}
  /\ subscribed \in BOOLEAN /\ asOf \in BOOLEAN
  /\ current \in [DOMAIN NoFlags -> BOOLEAN]
  /\ Len(updates) <= MaxUpdates /\ \A i \in DOMAIN updates : updates[i] \in Updates
  /\ \A q \in ObjectQueries :
        queries[q] \in {NoQuery, Waiting} \cup [at : {"served"}, status : Objects \cup {Down}, now : BOOLEAN]

\* emitCurrentEvent
FlagsOf(status) ==
  IF status = Nothing THEN NoFlags
  ELSE LET ready == status.webhooks = "ready"
       IN  [operational |-> ready,
            printing |-> ready /\ status.print_stats = "printing",
            paused |-> ready /\ status.print_stats = "paused",
            ready |-> ready /\ status.print_stats = "standby" /\ status.idle_timeout # "Printing",
            sdReady |-> ready, error |-> ~ready]

\* afterOpened subscribed, and emitted what it was answered.
KlipperInit ==
  /\ klipper = AtStart /\ subscribed = TRUE /\ updates = <<>>
  /\ queries = [q \in ObjectQueries |-> NoQuery]
  /\ printerObjects = AtStart /\ current = FlagsOf(AtStart) /\ asOf = TRUE

\* The printer is not deleted: events are emitted.
EmitCurrent(status) ==
  printerObjects' = status /\ current' = FlagsOf(status)

-----------------------------------------------------------------------------
(* Klipper and Moonraker *)

\* Answers on their way are of an earlier state now.
Outdated == [q \in ObjectQueries |->
               IF queries[q].at = "served" THEN [queries[q] EXCEPT !.now = FALSE] ELSE queries[q]]

Becomes(k) == klipper' = k /\ asOf' = FALSE /\ queries' = Outdated

ObjectChanges(n) ==
  /\ klipper # Down /\ Len(updates) < MaxUpdates
  /\ \E o \in Objects :
        /\ o # klipper /\ \A m \in DOMAIN o \ {n} : o[m] = klipper[m]
        /\ Becomes(o)
        /\ updates' = IF subscribed THEN Append(updates, [object |-> n, value |-> o[n]]) ELSE updates
  /\ UNCHANGED <<subscribed, printerObjects, current>>

\* Moonraker forgets the subscriptions to a Klipper that disconnects.
Disconnects ==
  /\ klipper # Down /\ Len(updates) < MaxUpdates /\ Becomes(Down) /\ subscribed' = FALSE
  /\ updates' = Append(updates, [notify |-> "notify_klippy_disconnected"])
  /\ UNCHANGED <<printerObjects, current>>

Returns ==
  /\ klipper = Down /\ Len(updates) < MaxUpdates /\ Becomes(AtStart)
  /\ updates' = Append(updates, [notify |-> "notify_klippy_ready"])
  /\ UNCHANGED <<subscribed, printerObjects, current>>

Served(q) ==
  /\ queries[q].at = "asked"
  /\ queries' = [queries EXCEPT ![q] = [at |-> "served", status |-> klipper, now |-> TRUE]]
  /\ UNCHANGED <<klipper, subscribed, updates, printerObjects, current, asOf>>

-----------------------------------------------------------------------------
(* The adapter *)

Asked(q) ==
  queries[q] = NoQuery /\ queries' = [queries EXCEPT ![q] = Waiting]

QueryObjects(q) ==
  Asked(q) /\ UNCHANGED <<klipper, subscribed, updates, printerObjects, current, asOf>>

\* updateCurrentStateSafely: what 503 leaves.  With a slip: the objects as they were.
Unavailable_Kept == printerObjects
Unavailable == Nothing

QueryAnswered(q) ==
  /\ queries[q].at = "served" /\ queries' = [queries EXCEPT ![q] = NoQuery]
  /\ EmitCurrent(IF queries[q].status = Down THEN Unavailable ELSE queries[q].status)
  /\ asOf' = queries[q].now
  /\ UNCHANGED <<klipper, subscribed, updates>>

\* Any other answer is logged.
QueryFails(q) ==
  /\ queries[q] # NoQuery /\ queries' = [queries EXCEPT ![q] = NoQuery]
  /\ UNCHANGED <<klipper, subscribed, updates, printerObjects, current, asOf>>

\* notify_status_update, of an object that printerObjects has; onEventMessage drops another.
\* The answer to a query, by HTTP, may overtake it.
\* With a slip: the objects are replaced by the changed one, not merged.
Merged_Replaced(u) == IF u.object \in DOMAIN printerObjects
                      THEN [AtStart EXCEPT ![u.object] = u.value] ELSE printerObjects
Merged(u) == [printerObjects EXCEPT ![u.object] = u.value]

StatusUpdate ==
  LET u == Head(updates)
  IN  /\ updates # <<>> /\ "object" \in DOMAIN u /\ updates' = Tail(updates)
      /\ IF printerObjects # Nothing
         THEN EmitCurrent(Merged(u)) /\ asOf' = (asOf /\ subscribed)
         ELSE UNCHANGED <<printerObjects, current, asOf>>
      /\ UNCHANGED <<klipper, subscribed, queries>>

\* Klipper came or went: setupSocketSession queries, unless getApiVersion fails.
KlippyNotified ==
  /\ updates # <<>> /\ "notify" \in DOMAIN Head(updates) /\ updates' = Tail(updates)
  /\ UNCHANGED queries \/ \E q \in ObjectQueries : Asked(q)
  /\ UNCHANGED <<klipper, subscribed, printerObjects, current, asOf>>

KlipperNext ==
  \/ \E n \in DOMAIN AtStart : ObjectChanges(n)
  \/ Disconnects \/ Returns \/ StatusUpdate \/ KlippyNotified
  \/ \E q \in ObjectQueries : QueryObjects(q) \/ Served(q) \/ QueryAnswered(q) \/ QueryFails(q)

KlipperSpec == KlipperInit /\ [][KlipperNext]_klipperVars

-----------------------------------------------------------------------------
\* Once the messages are taken, the current event has the true flags if the last answer taken
\* over is one given since Klipper last changed: whatever updates were missed, dropped, or
\* undone by an older answer, one round of the interval repairs.  Updates on their way repeat
\* what the answer said, unless they are from before a disconnect: these undo it until the
\* next round.
QueryRepairs ==
  asOf /\ updates = <<>> =>
    current = IF klipper = Down THEN NoFlags ELSE FlagsOf(klipper)

=============================================================================
