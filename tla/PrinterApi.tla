----------------------------- MODULE PrinterApi -----------------------------
(***************************************************************************)
(* Calls to printers: OctoprintApi and MoonrakerApi behind IPrinterApi,    *)
(* PrinterApiFactory, which makes one per use and sets its login, the      *)
(* routes of PrinterController, and the batches of BatchCallService, whose *)
(* calls to several printers run side by side.  A printer answers a        *)
(* request, refuses it, or does what it says with its answer lost.         *)
(***************************************************************************)
EXTENDS Naturals, Sequences

CONSTANTS
  OctoPrints, Moonrakers,   \* the printers, by printerType
  ApiUsers,                 \* requests of users, one call each
  Batches,                  \* the sequences of printers a batch may ask
  MaxApiEvents              \* bound: calls of users, and what printers do by themselves

VARIABLES
  moonrakerSupport, \* experimentalMoonrakerSupport
  cachedPrinters,   \* printers in the printer cache
  machine,          \* printer -> [up, job, last]: operational, its print, is there a last one
  apiLogin,         \* api instance -> the printer of its login
  userCall,         \* user -> [op, printer] that was sent, or none
  batch,            \* [op, todo, ended]: of the batch, with the printers its loop has to do
  batchCall,        \* printer -> its part of the batch
  apiEvents         \* calls of users and acts of printers, so far

apiVars == <<moonrakerSupport, cachedPrinters, machine, apiLogin, userCall, batch, batchCall,
             apiEvents>>

ApiPrinters == OctoPrints \cup Moonrakers
Machines == [up : BOOLEAN, job : {"idle", "printing", "paused"}, last : BOOLEAN]
UserOps == {"startPrint", "pausePrint", "resumePrint", "cancelPrint", "quickStop",
            "connect", "disconnect", "restartServer", "uploadFile", "homeAxes", "getVersion"}
NoApiCall == [op |-> "none", printer |-> CHOOSE p \in ApiPrinters : TRUE]
NoPart == [step |-> "none", of |-> {}, ready |-> FALSE, result |-> "none"]

\* The container makes an instance for whoever asks: transient, on purpose.  With a
\* slip: one for all that are of a type.
ApiOf_Shared(who, p) == IF p \in OctoPrints THEN "octoprintApi" ELSE "moonrakerApi"
ApiOf(who, p) == who
ApiInstances == ApiPrinters \cup {"octoprintApi", "moonrakerApi"}

ApiInit ==
  /\ moonrakerSupport \in BOOLEAN
  /\ cachedPrinters \in {{ps[i] : i \in DOMAIN ps} : ps \in Batches}
  /\ machine = [p \in ApiPrinters |-> [up |-> TRUE, job |-> "idle", last |-> FALSE]]
  /\ apiLogin = [i \in ApiInstances |-> NoApiCall.printer]
  /\ userCall = [u \in ApiUsers |-> NoApiCall]
  /\ batch = [op |-> "none", todo |-> <<>>, ended |-> "none"]
  /\ batchCall = [p \in ApiPrinters |-> NoPart]
  /\ apiEvents = 0

ApiTypeOK ==
  /\ moonrakerSupport \in BOOLEAN /\ cachedPrinters \subseteq ApiPrinters
  /\ machine \in [ApiPrinters -> Machines] /\ apiLogin \in [ApiInstances -> ApiPrinters]
  /\ userCall \in [ApiUsers -> [op : UserOps \cup {"none"}, printer : ApiPrinters]]
  /\ batch.op \in {"none", "list", "startPrint", "connect"}
  /\ batch.ended \in {"none", "answered", "error"} /\ apiEvents \in 0..MaxApiEvents
  /\ \A p \in ApiPrinters :
       /\ batchCall[p].step \in {"none", "login", "first", "second", "sent", "done"}
       /\ batchCall[p].of \subseteq ApiPrinters
       /\ batchCall[p].result \in {"none", "success", "failure", "unavailable", "noLast", "last"}

-----------------------------------------------------------------------------
(* The commands of the two types, and what a printer makes of them. *)

\* With a slip: OctoPrint toggles when the action of a pause is not named.
JobCommands_Toggles == [cancelPrint |-> "cancel", pausePrint |-> "toggle", resumePrint |-> "toggle"]
JobCommands == [cancelPrint |-> "cancel", pausePrint |-> "pause", resumePrint |-> "resume"]
ConnectionCommands == [connect |-> "connect", disconnect |-> "disconnect"]
OctoPrintOthers == [uploadFile |-> "files/local", homeAxes |-> "home", getVersion |-> "version"]
OctoPrintCommands(op) ==
  CASE op \in DOMAIN JobCommands -> JobCommands[op]
    [] op \in DOMAIN ConnectionCommands -> ConnectionCommands[op]
    [] op \in DOMAIN OctoPrintOthers -> OctoPrintOthers[op]
    [] op = "startPrint" -> "select"
    [] op = "quickStop" -> "M112"
    [] op = "restartServer" -> "core/restart"

PrintCommands ==
  [startPrint |-> "print/start", pausePrint |-> "print/pause", resumePrint |-> "print/resume",
   cancelPrint |-> "print/cancel"]
MoonrakerOthers == [uploadFile |-> "files/upload", homeAxes |-> "G28", getVersion |-> "version"]
MoonrakerCommands(op) ==
  CASE op \in DOMAIN PrintCommands -> PrintCommands[op]
    [] op \in DOMAIN MoonrakerOthers -> MoonrakerOthers[op]
    [] op = "quickStop" -> "emergency_stop"
    [] op = "restartServer" -> "server/restart"

\* Not implemented: the call throws before it sends anything.
Throws(op, p) == p \in Moonrakers /\ op \in {"connect", "disconnect"}

To(d, job) == [d EXCEPT !.job = job]
Idle(d, up) == [d EXCEPT !.job = "idle", !.up = up]
Started(d) == IF d.up /\ d.job = "idle" THEN {[To(d, "printing") EXCEPT !.last = TRUE]} ELSE {}

\* What becomes of the printer d, none when it refuses.
OctoPrintDoes(command, d) ==
  CASE command = "connect" -> {[d EXCEPT !.up = TRUE]}
    [] command = "core/restart" -> {Idle(d, up) : up \in BOOLEAN}
    [] command \in {"disconnect", "M112"} -> {Idle(d, FALSE)}
    [] command = "select" -> Started(d)
    [] command = "files/local" -> IF Started(d) = {} THEN {d} ELSE Started(d)
    [] command = "home" -> IF d.up /\ d.job # "printing" THEN {d} ELSE {}
    [] command = "version" -> {d}
    [] command = "cancel" -> IF d.job # "idle" THEN {Idle(d, TRUE)} ELSE {}
    [] command = "pause" -> IF d.job # "idle" THEN {To(d, "paused")} ELSE {}
    [] command = "resume" -> IF d.job # "idle" THEN {To(d, "printing")} ELSE {}
    [] command = "toggle" ->
         IF d.job # "idle" THEN {To(d, IF d.job = "paused" THEN "printing" ELSE "paused")} ELSE {}
MoonrakerDoes(command, d) ==
  CASE command = "emergency_stop" -> {Idle(d, FALSE)}
    [] command \in {"server/restart", "files/upload", "version"} -> {d}
    [] command = "G28" -> IF d.up THEN {d} ELSE {}
    [] command = "print/start" -> Started(d)
    [] command = "print/cancel" -> IF d.job # "idle" THEN {Idle(d, TRUE)} ELSE {}
    [] command = "print/pause" -> IF d.job # "idle" THEN {To(d, "paused")} ELSE {}
    [] command = "print/resume" -> IF d.job # "idle" THEN {To(d, "printing")} ELSE {}

Does(op, p) ==
  IF p \in OctoPrints THEN OctoPrintDoes(OctoPrintCommands(op), machine[p])
                      ELSE MoonrakerDoes(MoonrakerCommands(op), machine[p])

\* The printer does what it is asked, and answers or not; or it does nothing.
Served(op, p, ok) ==
  \/ \E d \in Does(op, p) : machine' = [machine EXCEPT ![p] = d]
  \/ ~ok /\ UNCHANGED machine

\* A print ends, or one is started at the printer; Klipper comes back.
PrinterActs(p) ==
  /\ apiEvents < MaxApiEvents /\ apiEvents' = apiEvents + 1
  /\ p \in cachedPrinters /\ machine[p].job # "paused"
  /\ machine' = [machine EXCEPT ![p] =
       IF ~@.up THEN [@ EXCEPT !.up = TRUE]
       ELSE IF @.job = "idle" THEN [@ EXCEPT !.job = "printing", !.last = TRUE] ELSE Idle(@, TRUE)]
  /\ UNCHANGED <<moonrakerSupport, cachedPrinters, apiLogin, userCall, batch, batchCall>>

-----------------------------------------------------------------------------
(* A request about one printer. *)

\* printerResolveMiddleware gives the controller the api of the printer; none to a
\* Moonraker printer while that is not supported, and the handler throws.
UserCalls(u, op, p) ==
  /\ apiEvents < MaxApiEvents /\ apiEvents' = apiEvents + 1
  /\ userCall[u] = NoApiCall /\ p \in cachedPrinters
  /\ p \in Moonrakers => moonrakerSupport
  /\ ~Throws(op, p)
  /\ userCall' = [userCall EXCEPT ![u] = [op |-> op, printer |-> p]]
  /\ UNCHANGED <<moonrakerSupport, cachedPrinters, machine, apiLogin, batch, batchCall>>

\* Before it changes the connection of a printer the controller asks for the version, unless
\* told not to; an error becomes the answer, and nothing is saved.
TestPrintApiConnection(u, p) == UserCalls(u, "getVersion", p)

UserAnswered(u, ok) ==
  /\ userCall[u] # NoApiCall
  /\ Served(userCall[u].op, userCall[u].printer, ok)
  /\ userCall' = [userCall EXCEPT ![u] = NoApiCall]
  /\ UNCHANGED <<moonrakerSupport, cachedPrinters, apiLogin, batch, batchCall, apiEvents>>

PrinterDeleted(p) ==
  /\ cachedPrinters' = cachedPrinters \ {p}
  /\ UNCHANGED <<moonrakerSupport, machine, apiLogin, userCall, batch, batchCall, apiEvents>>

-----------------------------------------------------------------------------
(* BatchCallService. *)

InBatch(p, part) == batchCall' = [batchCall EXCEPT ![p] = part]

\* getBatchPrinterReprintFile starts with all printers at once; the others take one
\* after the other.
StartBatch(op, ps) ==
  /\ batch.op = "none" /\ \E i \in DOMAIN ps : ps[i] \in cachedPrinters
  /\ batch' = [op |-> op, todo |-> IF op = "list" THEN <<>> ELSE ps, ended |-> "none"]
  /\ batchCall' = [p \in ApiPrinters |->
       IF op = "list" /\ \E i \in DOMAIN ps : ps[i] = p THEN [NoPart EXCEPT !.step = "login"] ELSE NoPart]
  /\ UNCHANGED <<moonrakerSupport, cachedPrinters, machine, apiLogin, userCall, apiEvents>>

\* The login is there, the api is made, and its first request sent.
ReprintStarts(p) ==
  LET mine == ApiOf(p, p)
  IN  /\ batchCall[p].step = "login"
      /\ IF p \in cachedPrinters
         THEN /\ apiLogin' = [apiLogin EXCEPT ![mine] = p]
              /\ InBatch(p, [batchCall[p] EXCEPT !.step = "first", !.of = {p}])
         ELSE /\ InBatch(p, [batchCall[p] EXCEPT !.step = "done", !.result = "unavailable"])
              /\ UNCHANGED apiLogin
      /\ UNCHANGED <<moonrakerSupport, cachedPrinters, machine, userCall, batch, apiEvents>>

\* getConnection, or the query of print_stats and webhooks.  The second request goes to
\* the login that the api has by then.
FirstAnswered(p) ==
  /\ batchCall[p].step = "first"
  /\ InBatch(p, [batchCall[p] EXCEPT !.step = "second", !.ready = p \in Moonrakers /\ machine[p].up,
                                     !.of = @ \cup {apiLogin[ApiOf(p, p)]}])
  /\ UNCHANGED <<moonrakerSupport, cachedPrinters, machine, apiLogin, userCall, batch, apiEvents>>

\* getJob: the file that is selected.  The history of Moonraker: its last job, if Klipper
\* was ready.  (The comparator that sorts the jobs is never negative and moves none.)
SecondAnswered(p) ==
  LET asked == machine[apiLogin[ApiOf(p, p)]]
      found == asked.last /\ (p \in Moonrakers => batchCall[p].ready)
  IN  /\ batchCall[p].step = "second"
      /\ InBatch(p, [batchCall[p] EXCEPT !.step = "done", !.ready = FALSE,
                                         !.result = IF found THEN "last" ELSE "noLast"])
      /\ UNCHANGED <<moonrakerSupport, cachedPrinters, machine, apiLogin, userCall, batch, apiEvents>>

ReprintFails(p) ==
  /\ batchCall[p].step \in {"first", "second"}
  /\ InBatch(p, [batchCall[p] EXCEPT !.step = "done", !.ready = FALSE, !.result = "unavailable"])
  /\ UNCHANGED <<moonrakerSupport, cachedPrinters, machine, apiLogin, userCall, batch, apiEvents>>

\* One turn of the loop of batchReprintCalls and batchConnectUsb.  A printer that is not
\* cached throws out of it: the batch fails, what it sent goes on.
BatchTurn ==
  LET p == Head(batch.todo)
  IN  /\ batch.todo # <<>> /\ batch.ended = "none"
      /\ IF p \notin cachedPrinters
         THEN batch' = [batch EXCEPT !.ended = "error"] /\ UNCHANGED <<apiLogin, batchCall>>
         ELSE /\ batch' = [batch EXCEPT !.todo = Tail(@)]
              /\ apiLogin' = [apiLogin EXCEPT ![ApiOf(p, p)] = p]
              /\ InBatch(p, IF Throws(batch.op, p)
                            THEN [NoPart EXCEPT !.step = "done", !.result = "failure"]
                            ELSE [NoPart EXCEPT !.step = "sent", !.of = {p}])
      /\ UNCHANGED <<moonrakerSupport, cachedPrinters, machine, userCall, apiEvents>>

BatchCallAnswered(p, ok) ==
  /\ batchCall[p].step = "sent"
  /\ Served(batch.op, p, ok)
  /\ InBatch(p, [batchCall[p] EXCEPT !.step = "done", !.result = IF ok THEN "success" ELSE "failure"])
  /\ UNCHANGED <<moonrakerSupport, cachedPrinters, apiLogin, userCall, batch, apiEvents>>

\* Promise.all: every part is there, none rejects.
BatchEnds ==
  /\ batch.op # "none" /\ batch.todo = <<>> /\ batch.ended = "none"
  /\ \A p \in ApiPrinters : batchCall[p].step \in {"none", "done"}
  /\ batch' = [batch EXCEPT !.ended = "answered"]
  /\ UNCHANGED <<moonrakerSupport, cachedPrinters, machine, apiLogin, userCall, batchCall, apiEvents>>

ApiNext ==
  \/ \E p \in ApiPrinters :
        \/ PrinterActs(p) \/ PrinterDeleted(p)
        \/ ReprintStarts(p) \/ FirstAnswered(p) \/ SecondAnswered(p) \/ ReprintFails(p)
        \/ \E ok \in BOOLEAN : BatchCallAnswered(p, ok)
        \/ \E u \in ApiUsers :
              \/ TestPrintApiConnection(u, p)
              \/ \E op \in UserOps \ {"getVersion"} : UserCalls(u, op, p)
  \/ \E u \in ApiUsers, ok \in BOOLEAN : UserAnswered(u, ok)
  \/ \E op \in {"list", "startPrint", "connect"}, ps \in Batches : StartBatch(op, ps)
  \/ BatchTurn \/ BatchEnds

ApiSpec == ApiInit /\ [][ApiNext]_apiVars

-----------------------------------------------------------------------------
(* Properties. *)

\* In a batch, each printer's answer is about that printer: none of its requests went
\* to another one, although they are sent between those of the others.  A batch that is
\* answered has a result of each, and a printer that cannot be reached fails for itself.
BatchAnswersEach ==
  /\ \A p \in ApiPrinters : batchCall[p].of \subseteq {p}
  /\ batch.ended = "answered" =>
       \A p \in ApiPrinters : batchCall[p].step = "done" => batchCall[p].result # "none"
  /\ batch.op = "list" => batch.ended # "error"

\* Printers of both types keep the promise of IPrinterApi: see there.  Two users who
\* pause at a time pause; none of them resumes the print of the other.
Interface == INSTANCE IPrinterApi WITH
  Printers <- ApiPrinters,
  jobs <- [p \in ApiPrinters |-> machine[p].job],
  made <- {[id |-> u, op |-> userCall[u].op, printer |-> userCall[u].printer] :
             u \in {v \in ApiUsers : userCall[v] # NoApiCall}}
          \cup {[id |-> p, op |-> batch.op, printer |-> p] :
                  p \in {q \in ApiPrinters : batchCall[q].step = "sent"}}
CallsDoAsNamed == Interface!Spec

=============================================================================
