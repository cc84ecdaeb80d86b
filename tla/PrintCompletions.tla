-------------------------- MODULE PrintCompletions --------------------------
(***************************************************************************)
(* PrintCompletionSocketIoTask for one printer, and the rows that          *)
(* PrintCompletionService keeps of its prints: one when a print starts and *)
(* one when it is done or failed, with the correlation id the task         *)
(* remembers in between.  Handlers of several messages run side by side.   *)
(***************************************************************************)
EXTENDS Naturals

CONSTANTS
  PrintHandlers, \* handleMessage calls running side by side
  MaxPrints,     \* bound: correlation ids
  MaxLogged      \* bound: other messages logged in a context

VARIABLES
  listening,   \* the task is constructed, by the first request for print completions
  contextCache, \* of the printer
  startRows,   \* rows PrintStarted, with the context saved in them
  endRows,     \* how many rows PrintDone or PrintFailed of a correlation id
  lastPrint,
  handling,
  endOverlapped \* history: a message came while one that ends a print was handled

printVars == <<listening, contextCache, startRows, endRows, lastPrint, handling, endOverlapped>>

NoId == 0
Contexts == [id : 0..MaxPrints, logged : 0..MaxLogged]
EmptyContext == [id |-> NoId, logged |-> 0]
NoMessage == [at |-> "idle"]

CompletionsTypeOK ==
  /\ listening \in BOOLEAN /\ contextCache \in Contexts /\ lastPrint \in 0..MaxPrints
  /\ DOMAIN startRows \in SUBSET (1..lastPrint) /\ \A p \in DOMAIN startRows : startRows[p] \in 0..MaxLogged
  /\ endRows \in [0..MaxPrints -> Nat] /\ endOverlapped \in BOOLEAN
  /\ \A h \in PrintHandlers :
        handling[h] \in {NoMessage} \cup [at : {"start", "end", "find", "save"}, context : Contexts]

CompletionsInit ==
  /\ listening = FALSE /\ contextCache = EmptyContext /\ lastPrint = 0
  /\ startRows = <<>> /\ endRows = [p \in 0..MaxPrints |-> 0]
  /\ handling = [h \in PrintHandlers |-> NoMessage] /\ endOverlapped = FALSE

\* GET print-completion resolves the controller, and with it the task.
FirstRequest ==
  /\ ~listening /\ listening' = TRUE
  /\ UNCHANGED <<contextCache, startRows, endRows, lastPrint, handling, endOverlapped>>

Receive(h, next, context) ==
  /\ listening /\ handling[h] = NoMessage
  /\ handling' = [handling EXCEPT ![h] = next] /\ contextCache' = context
  /\ endOverlapped' = (endOverlapped \/ \E o \in PrintHandlers : handling[o].at = "end")
  /\ UNCHANGED <<listening, startRows, endRows>>

PrintStarted(h) ==
  LET context == [id |-> lastPrint + 1, logged |-> 0]
  IN  /\ lastPrint < MaxPrints /\ lastPrint' = lastPrint + 1
      /\ Receive(h, [at |-> "start", context |-> context], context)

PrintEnds(h) ==
  Receive(h, [at |-> "end", context |-> contextCache], contextCache) /\ UNCHANGED lastPrint

\* Error, Disconnected, PrintCancelled and the like.
OtherEvent(h) ==
  LET context == [contextCache EXCEPT !.logged = @ + 1]
  IN  /\ contextCache.logged < MaxLogged /\ UNCHANGED lastPrint
      /\ Receive(h, IF context.id = NoId THEN NoMessage ELSE [at |-> "find", context |-> context],
                 context)

Done(h) == handling' = [handling EXCEPT ![h] = NoMessage]

CreateStarted(h) ==
  LET context == handling[h].context
  IN  /\ handling[h].at = "start" /\ Done(h)
      /\ startRows' = [p \in DOMAIN startRows \cup {context.id} |->
                         IF p = context.id THEN context.logged ELSE startRows[p]]
      /\ UNCHANGED <<listening, contextCache, endRows, lastPrint, endOverlapped>>

\* The context once the row of the end is there.  With a slip: it is kept.
AfterEnd_Kept == contextCache
AfterEnd == EmptyContext

CreateEnd(h) ==
  /\ handling[h].at = "end" /\ Done(h)
  /\ endRows' = [endRows EXCEPT ![handling[h].context.id] = 1 + (IF @ > 1 THEN 1 ELSE @)]
  /\ contextCache' = AfterEnd
  /\ UNCHANGED <<listening, startRows, lastPrint, endOverlapped>>

\* updateContext
FindStarted(h) ==
  /\ handling[h].at = "find"
  /\ handling' = [handling EXCEPT ![h] = IF @.context.id \in DOMAIN startRows
                                         THEN [@ EXCEPT !.at = "save"] ELSE NoMessage]
  /\ UNCHANGED <<listening, contextCache, startRows, endRows, lastPrint, endOverlapped>>
SaveContext(h) ==
  /\ handling[h].at = "save" /\ Done(h)
  /\ startRows' = [startRows EXCEPT ![handling[h].context.id] = handling[h].context.logged]
  /\ UNCHANGED <<listening, contextCache, endRows, lastPrint, endOverlapped>>

\* The contexts are memory: run, which would read them again, is no task of the boot.
RestartServer ==
  /\ listening /\ listening' = FALSE
  /\ contextCache' = EmptyContext /\ handling' = [h \in PrintHandlers |-> NoMessage]
  /\ UNCHANGED <<startRows, endRows, lastPrint, endOverlapped>>

CompletionsNext ==
  \/ FirstRequest \/ RestartServer
  \/ \E h \in PrintHandlers :
       \/ PrintStarted(h) \/ PrintEnds(h) \/ OtherEvent(h)
       \/ CreateStarted(h) \/ CreateEnd(h) \/ FindStarted(h) \/ SaveContext(h)

CompletionsSpec == CompletionsInit /\ [][CompletionsNext]_printVars

\* A print ends once: a late or repeated message is never counted to a print that ended,
\* unless it came while the end was being saved, when the context is still there.
OneEndPerPrint == ~endOverlapped => \A p \in 1..MaxPrints : endRows[p] <= 1

=============================================================================
