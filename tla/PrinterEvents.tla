---------------------------- MODULE PrinterEvents ---------------------------
(***************************************************************************)
(* PrinterEventsCache, what the clients are shown of a printer's messages: *)
(* an object of the last message of each label, created by the first one.  *)
(* A message is cached by microtasks, and these drain before the next      *)
(* message or request; only events emitted in one tick interleave.         *)
(***************************************************************************)
EXTENDS Naturals, Sequences

CONSTANT EventLabels  \* labels of messages, WS_STATE_UPDATED and API_STATE_UPDATED apart

VARIABLES
  entry,        \* keyValueStore[printerId]: an object, or NoEvents
  objects,      \* the objects, with the labels they hold
  settingEvents, \* calls of setEvent under way: microtasks, in order
  adapterEmits, \* eventEmittingAllowed of the printer's adapter
  printerThere

eventsVars == <<entry, objects, settingEvents, adapterEmits, printerThere>>

NoEvents == 0
Objects == 1..4
ResetLabels == <<"WS_STATE_UPDATED", "API_STATE_UPDATED">>
AllLabels == EventLabels \cup {ResetLabels[1], ResetLabels[2]}

EventsTypeOK ==
  /\ entry \in Objects \cup {NoEvents} /\ objects \in [Objects -> SUBSET AllLabels]
  /\ settingEvents \in Seq([label : AllLabels, ref : Objects \cup {NoEvents}, set : BOOLEAN])
  /\ adapterEmits \in BOOLEAN /\ printerThere \in BOOLEAN

EventsInit ==
  /\ entry = NoEvents /\ objects = [o \in Objects |-> {}] /\ settingEvents = <<>>
  /\ adapterEmits = TRUE /\ printerThere = TRUE

\* The object is read at once, by the synchronous part of getValue.
Emit(labels) ==
  settingEvents' = IF adapterEmits
                   THEN [i \in DOMAIN labels |-> [label |-> labels[i], ref |-> entry, set |-> FALSE]]
                   ELSE <<>>

\* A message, or a request's call, when all microtasks are done.
ReceiveMessage(l) ==
  /\ settingEvents = <<>> /\ Emit(<<l>>)
  /\ UNCHANGED <<entry, objects, adapterEmits, printerThere>>

ResetSocketState ==
  /\ settingEvents = <<>> /\ printerThere /\ Emit(ResetLabels)
  /\ UNCHANGED <<entry, objects, adapterEmits, printerThere>>

\* refreshPrinterSocket: reconnectOctoPrint, and in the same tick deletePrinterSocketEvents.
RefreshPrinterSocket ==
  /\ settingEvents = <<>> /\ printerThere /\ Emit(ResetLabels)
  /\ entry' = NoEvents
  /\ UNCHANGED <<objects, adapterEmits, printerThere>>

\* deleteSocket: whether the adapter may emit afterwards.  With a slip: it may.
AfterDeleteSocket_Emits == adapterEmits
AfterDeleteSocket == FALSE

\* printersDeleted, of the store of sockets and of this cache.
PrintersDeleted ==
  /\ settingEvents = <<>> /\ printerThere
  /\ printerThere' = FALSE /\ adapterEmits' = AfterDeleteSocket /\ entry' = NoEvents
  /\ UNCHANGED <<objects, settingEvents>>

\* getOrCreateEvents goes on: with no object read, a new one is stored,
GetOrCreateEvents ==
  LET call == Head(settingEvents)
      used == {entry} \cup {settingEvents[i].ref : i \in DOMAIN settingEvents}
      ref  == IF call.ref # NoEvents THEN call.ref
              ELSE CHOOSE o \in Objects \ used : TRUE
  IN  /\ settingEvents # <<>> /\ ~call.set
      /\ settingEvents' = Append(Tail(settingEvents), [call EXCEPT !.ref = ref, !.set = TRUE])
      /\ IF call.ref # NoEvents THEN UNCHANGED <<entry, objects>>
         ELSE entry' = ref /\ objects' = [objects EXCEPT ![ref] = {}]
      /\ UNCHANGED <<adapterEmits, printerThere>>

\* and setEvent puts the message into the object it has, and stores that.
SetEvent ==
  LET call == Head(settingEvents)
  IN  /\ settingEvents # <<>> /\ call.set
      /\ settingEvents' = Tail(settingEvents)
      /\ objects' = [objects EXCEPT ![call.ref] = @ \cup {call.label}]
      /\ entry' = call.ref
      /\ UNCHANGED <<adapterEmits, printerThere>>

EventsNext ==
  \/ \E l \in EventLabels : ReceiveMessage(l)
  \/ ResetSocketState \/ RefreshPrinterSocket \/ PrintersDeleted \/ GetOrCreateEvents \/ SetEvent

EventsSpec == EventsInit /\ [][EventsNext]_eventsVars

\* No events are kept of a deleted printer, although its connection closes after it and
\* that is a message of its own: the clients would be sent them forever.
NothingOfDeleted == ~printerThere => entry = NoEvents

=============================================================================
