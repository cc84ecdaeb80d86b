-------------------------- MODULE PrintStatistics --------------------------
(***************************************************************************)
(* What the print-completion endpoints tell of the rows that               *)
(* PrintCompletions stores: processCompletions counts prints, successes    *)
(* and failures of each printer, over all time and over the last days, and *)
(* loadPrintContexts looks for the prints that have not ended.             *)
(***************************************************************************)
EXTENDS Integers, FiniteSets, Sequences

CONSTANTS
  RowPrinters,  \* printers with prints
  PageSize,     \* rows a page of the sqlite service has: DEFAULT_PAGE
  MaxPrintRows, \* bound: rows
  PrintDays,    \* bound: the days on which something happens
  Windows       \* the spans, in days, failures and successes are counted over

VARIABLES
  printsDb,     \* "mongo" or "sqlite"
  printRows,    \* in the order they were stored
  printDay,
  printReport   \* the last answer, until something else happens

printStatisticsVars == <<printsDb, printRows, printDay, printReport>>

NoId == 0  \* no correlation id: an end that no start of this run of the server precedes
NoReport == [kind |-> "none"]
NoEvent == [status |-> "none"]
Statuses == {"PrintStarted", "PrintDone", "PrintFailed"}

StatisticsTypeOK ==
  /\ printsDb \in {"mongo", "sqlite"} /\ printDay \in PrintDays
  /\ Len(printRows) <= MaxPrintRows
  /\ \A i \in DOMAIN printRows :
        printRows[i] \in [printer : RowPrinters, status : Statuses, id : 0..MaxPrintRows, at : PrintDays]
  /\ printReport.kind \in {"none", "list", "contexts", "found"}

StatisticsInit ==
  /\ printsDb \in {"mongo", "sqlite"} /\ printRows = <<>>
  /\ printDay = CHOOSE d \in PrintDays : \A e \in PrintDays : d <= e
  /\ printReport = NoReport

Elements(s) == {s[i] : i \in DOMAIN s}
Ids == {row.id : row \in Elements(printRows)} \ {NoId}

StorePrint(printer, status, id) ==
  /\ Len(printRows) < MaxPrintRows
  /\ printRows' = Append(printRows, [printer |-> printer, status |-> status, id |-> id, at |-> printDay])
  /\ printReport' = NoReport /\ UNCHANGED <<printsDb, printDay>>

StartOfPrint(printer) == StorePrint(printer, "PrintStarted", 1 + Cardinality(Ids))

\* With the id of a print of that printer that was started, or with none.
EndOfPrint(printer, status) ==
  \E id \in {NoId} \cup {row.id : row \in {r \in Elements(printRows) : r.printer = printer}} :
    StorePrint(printer, status, id)

TimePasses ==
  /\ \E d \in PrintDays : d > printDay /\ printDay' = d
  /\ printReport' = NoReport /\ UNCHANGED <<printsDb, printRows>>

-----------------------------------------------------------------------------
(* What is told *)

\* A list of rows is the set of their places: whoever filters or groups keeps the order.

\* keyGetter takes a field of the row.
GroupArrayBy(rows, field) ==
  [k \in {printRows[i][field] : i \in rows} |-> {i \in rows : printRows[i][field] = k}]

\* The one of two that reduce keeps: of the same time, the one further on.  With a slip: the
\* earlier one.
KeepsFirst_Earlier(i, j) == printRows[i].at < printRows[j].at
KeepsFirst(i, j) == printRows[i].at > printRows[j].at

\* What reduce has kept once it is past a row; 0: nothing yet.
Latest(events) ==
  LET kept[i \in 0..Len(printRows)] ==
        IF i = 0 THEN 0
        ELSE IF i \in events /\ (kept[i - 1] = 0 \/ ~KeepsFirst(kept[i - 1], i)) THEN i
        ELSE kept[i - 1]
  IN  kept[Len(printRows)]

OfStatus(events, status) ==
  LET of == {i \in events : printRows[i].status = status}
  IN  [count |-> Cardinality(of),
       last |-> IF of = {} THEN NoEvent ELSE printRows[Latest(of)],
       recent |-> [w \in Windows |-> Cardinality({i \in of : printRows[i].at > printDay - w})]]

ProcessCompletions(events) ==
  LET jobs == GroupArrayBy(events, "id")
  IN  [printJobs |-> [id \in DOMAIN jobs |->
                        [events |-> jobs[id], lastEvent |-> printRows[Latest(jobs[id])]]],
       printCount |-> Cardinality(DOMAIN jobs),
       eventCount |-> Cardinality(events),
       failures |-> OfStatus(events, "PrintFailed"),
       successes |-> OfStatus(events, "PrintDone")]

\* listPaged: sqlite takes the first page of the rows.
Listed == {i \in DOMAIN printRows : printsDb = "sqlite" => i <= PageSize}

ListGroupByPrinterStatus ==
  LET groups == GroupArrayBy(Listed, "printer")
  IN  [printer \in DOMAIN groups |-> ProcessCompletions(groups[printer])]

Ended(row) == row.status \in {"PrintDone", "PrintFailed"}

\* Of the rows of the newest time, mongo's $first is any.
NewestOf(printer) ==
  LET rows == {r \in Elements(printRows) : r.printer = printer}
  IN  {r \in rows : \A q \in rows : q.at <= r.at}

MongoContexts ==
  {cs \in [{r.printer : r \in Elements(printRows)} -> Elements(printRows)] :
     \A printer \in DOMAIN cs : cs[printer] \in NewestOf(printer)}

\* sqlite groups the rows by their own id.
SqliteContexts == [i \in {j \in DOMAIN printRows : ~Ended(printRows[j])} |-> printRows[i]]

Answers(report) == printReport' = report /\ UNCHANGED <<printsDb, printRows, printDay>>

ListCompletions == Answers([kind |-> "list", printers |-> ListGroupByPrinterStatus])

FindCorrelatedEntries ==
  \E id \in 1..MaxPrintRows :
    Answers([kind |-> "found", id |-> id, rows |-> {i \in DOMAIN printRows : printRows[i].id = id}])

LoadPrintContexts ==
  \/ /\ printsDb = "mongo"
     /\ \E cs \in MongoContexts :
          Answers([kind |-> "contexts",
                   contexts |-> [p \in {q \in DOMAIN cs : ~Ended(cs[q])} |-> cs[p]]])
  \/ printsDb = "sqlite" /\ Answers([kind |-> "contexts", contexts |-> SqliteContexts])

StatisticsNext ==
  \/ \E printer \in RowPrinters :
        \/ StartOfPrint(printer)
        \/ \E status \in {"PrintDone", "PrintFailed"} : EndOfPrint(printer, status)
  \/ TimePasses
  \/ ListCompletions \/ FindCorrelatedEntries \/ LoadPrintContexts

StatisticsSpec == StatisticsInit /\ [][StatisticsNext]_printStatisticsVars

-----------------------------------------------------------------------------
\* The rows of a printer that are listed.
ListedOf(printer) == {i \in Listed : printRows[i].printer = printer}

\* What is told of failures or successes: none of them is later than the last one; what
\* happened in a shorter span is part of what happened in a longer one and of the total; and
\* none within a span is left out, whichever day it is.
PartsAddUp(part, of) ==
  /\ part.count = Cardinality(of)
  /\ part.count = 0 <=> part.last = NoEvent
  /\ part.count > 0 => \E i \in of : part.last = printRows[i]
  /\ \A i \in of : printRows[i].at <= part.last.at
  /\ \A w \in Windows :
       /\ part.recent[w] <= part.count
       /\ part.count > 0 => (part.recent[w] > 0 <=> printDay - part.last.at < w)
       /\ \A v \in Windows : w < v => part.recent[w] <= part.recent[v]

\* What a list tells of its printers.  Every row listed is in one job of its printer and in
\* no other, and a job ends with a row of its own that no row of it is later than.
AddUp(printers) ==
  /\ DOMAIN printers = {printRows[i].printer : i \in Listed}
  /\ \A p \in DOMAIN printers :
       LET told == printers[p]
           jobs == told.printJobs
       IN  /\ told.eventCount = Cardinality(ListedOf(p)) /\ told.printCount <= told.eventCount
           /\ \A i \in ListedOf(p) :
                \E id \in DOMAIN jobs : \A job \in DOMAIN jobs : i \in jobs[job].events <=> job = id
           /\ \A id \in DOMAIN jobs :
                /\ jobs[id].events \subseteq ListedOf(p)
                /\ \E i \in jobs[id].events : jobs[id].lastEvent = printRows[i]
                /\ \A i \in jobs[id].events : printRows[i].at <= jobs[id].lastEvent.at
           /\ PartsAddUp(told.failures, {i \in ListedOf(p) : printRows[i].status = "PrintFailed"})
           /\ PartsAddUp(told.successes, {i \in ListedOf(p) : printRows[i].status = "PrintDone"})

\* The statistics of every printer add up, of the rows that are there, or of a page of them.
StatisticsAddUp == printReport.kind = "list" => AddUp(printReport.printers)

=============================================================================
