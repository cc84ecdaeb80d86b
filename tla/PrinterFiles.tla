---------------------------- MODULE PrinterFiles ----------------------------
(***************************************************************************)
(* The files of one printer: what is on the device, and FileCache's list   *)
(* of them, kept by PrinterFilesStore, the printer-files controller and    *)
(* PrinterFileCleanTask.  Every operation is a plan of phases with an      *)
(* await between them; others run in between, and the device changes by    *)
(* hand.                                                                   *)
(***************************************************************************)
EXTENDS Naturals, Sequences

CONSTANTS FileRequests, GcodeFiles

VARIABLES
  device,       \* the files of the printer, each with its age
  cached,       \* FileCache.printerFileStorage of it, or NoList
  filing,       \* per request: the phases to go and what they work on
  filesTrouble  \* history: which orders of events have happened

filesVars == <<device, cached, filing, filesTrouble>>

Listings == [GcodeFiles -> {"none", "fresh", "old"}]
NoList == [f \in {} |-> "none"]
On(listing) == {f \in DOMAIN listing : listing[f] # "none"}
NoFiling == [plan |-> <<>>, file |-> "none", todo |-> {}, got |-> NoList]

FilesTypeOK ==
  /\ device \in Listings /\ cached \in Listings \cup {NoList}
  /\ filesTrouble \subseteq {"upload", "other"}
  /\ \A r \in FileRequests :
        /\ filing[r].todo \subseteq GcodeFiles
        /\ filing[r].got \in Listings \cup {NoList}

FilesInit ==
  /\ device \in Listings /\ cached = NoList
  /\ filing = [r \in FileRequests |-> NoFiling] /\ filesTrouble = {}

\* getOutdatedFiles, of the cached list.  With a slip: whatever their age.
Outdated_All == On(cached)
Outdated == {f \in On(cached) : cached[f] = "old"}

-----------------------------------------------------------------------------
(* The requests *)

CleanPlan == <<"clean", "remove", "list", "cache">>
BootCleanPlan == <<"tryList", "cache", "check">> \o CleanPlan
DeletePlan_KeepsEntry == <<"delete">>
DeletePlan == <<"delete", "purge">>
ClearPlan == <<"listAll", "remove", "purgeAll">>
UploadPlan_NoReload(clean) == (IF clean THEN CleanPlan ELSE <<>>) \o <<"upload">>
UploadPlan(clean) == (IF clean THEN CleanPlan ELSE <<>>) \o <<"upload", "list", "cache">>

Uploading(r) == filing[r].file # "none" /\ filing[r].plan[1] # "delete"
                /\ filing[r].plan # <<"purge">>

\* Bound: once an upload was overlapped, no further request starts.
StartFiling(r, plan, file, kind) ==
  LET others == {o \in FileRequests : filing[o] # NoFiling}
  IN  /\ filing[r] = NoFiling /\ "upload" \notin filesTrouble
      /\ filing' = [filing EXCEPT ![r] = [NoFiling EXCEPT !.plan = plan, !.file = file]]
      /\ filesTrouble' = filesTrouble
           \cup {k \in {"other"} : others # {}}
           \cup {k \in {"upload"} : others # {} /\ (kind = "upload" \/ \E o \in others : Uploading(o))}
      /\ UNCHANGED <<device, cached>>

GetFiles(r) == StartFiling(r, <<"list", "cache">>, "none", "list")
BootClean(r, atBoot) ==
  StartFiling(r, IF atBoot THEN BootCleanPlan ELSE <<"tryList", "cache">>, "none", "clean")
DeleteFile(r, f) == StartFiling(r, DeletePlan, f, "delete")
ClearPrinterFiles(r) == StartFiling(r, ClearPlan, "none", "clear")
UploadPrinterFile(r, f, clean) == StartFiling(r, UploadPlan(clean), f, "upload")

\* The request goes on after its first phase, or ends when that was the last.
Goes(r, req) ==
  filing' = [filing EXCEPT ![r] =
    IF Len(req.plan) = 1 THEN NoFiling ELSE [req EXCEPT !.plan = Tail(req.plan)]]
Ends(r) == filing' = [filing EXCEPT ![r] = NoFiling]
At(r, phase) == filing[r].plan # <<>> /\ filing[r].plan[1] = phase

-----------------------------------------------------------------------------
(* The phases *)

ListDevice(r) ==
  /\ At(r, "list") \/ At(r, "tryList")
  /\ Goes(r, [filing[r] EXCEPT !.got = device])
  /\ UNCHANGED <<device, cached, filesTrouble>>

\* The printer does not answer: the clean at boot goes on with the list it had.
ListFails(r) ==
  LET req == filing[r]
      up == Uploading(r) /\ Len(req.plan) = 2
  IN  /\ At(r, "list") \/ At(r, "tryList") \/ At(r, "listAll")
      /\ IF At(r, "tryList") /\ Len(req.plan) > 2 THEN Goes(r, [req EXCEPT !.plan = Tail(req.plan)])
                                                  ELSE Ends(r)
      /\ filesTrouble' = filesTrouble \cup {"other"} \cup {k \in {"upload"} : up}
      /\ UNCHANGED <<device, cached>>

CacheFiles(r) ==
  /\ At(r, "cache")
  /\ cached' = filing[r].got
  /\ Goes(r, filing[r]) /\ UNCHANGED <<device, filesTrouble>>

\* With no outdated file the clean at boot is over.
CheckOutdated(r) ==
  /\ At(r, "check")
  /\ IF Outdated = {} THEN Ends(r) ELSE Goes(r, filing[r])
  /\ UNCHANGED <<device, cached, filesTrouble>>

CleanOutdated(r) ==
  /\ At(r, "clean")
  /\ Goes(r, [filing[r] EXCEPT !.todo = Outdated])
  /\ UNCHANGED <<device, cached, filesTrouble>>

ListAll(r) ==
  /\ At(r, "listAll")
  /\ Goes(r, [filing[r] EXCEPT !.todo = On(device)])
  /\ UNCHANGED <<device, cached, filesTrouble>>

\* One file after the other; a failure is noted, and the next one is tried.
RemoveFile(r, f, ok) ==
  /\ At(r, "remove") /\ f \in filing[r].todo
  /\ filing' = [filing EXCEPT ![r].todo = @ \ {f}]
  /\ device' = IF ok THEN [device EXCEPT ![f] = "none"] ELSE device
  /\ UNCHANGED <<cached, filesTrouble>>

RemoveEnds(r) ==
  /\ At(r, "remove") /\ filing[r].todo = {}
  /\ Goes(r, filing[r]) /\ UNCHANGED <<device, cached, filesTrouble>>

DeleteOnDevice(r) ==
  /\ At(r, "delete") /\ device[filing[r].file] # "none"
  /\ device' = [device EXCEPT ![filing[r].file] = "none"]
  /\ Goes(r, filing[r]) /\ UNCHANGED <<cached, filesTrouble>>

UploadToDevice(r) ==
  /\ At(r, "upload")
  /\ device' = [device EXCEPT ![filing[r].file] = "fresh"]
  /\ Goes(r, filing[r]) /\ UNCHANGED <<cached, filesTrouble>>

\* The printer refuses, or has no such file: the request ends there.
DeviceRefuses(r) ==
  /\ At(r, "delete") \/ At(r, "upload")
  /\ Ends(r) /\ UNCHANGED <<device, cached, filesTrouble>>

PurgeFile(r) ==
  /\ At(r, "purge")
  /\ cached' = IF cached = NoList THEN NoList ELSE [cached EXCEPT ![filing[r].file] = "none"]
  /\ Goes(r, filing[r]) /\ UNCHANGED <<device, filesTrouble>>

PurgePrinterFiles(r) ==
  /\ At(r, "purgeAll")
  /\ cached' = NoList /\ Goes(r, filing[r]) /\ UNCHANGED <<device, filesTrouble>>

PurgeFiles == cached # NoList /\ cached' = NoList /\ UNCHANGED <<device, filing, filesTrouble>>

-----------------------------------------------------------------------------
(* The world *)

\* Time passes: every file dated before now is outdated, in whatever list it is.
Aged(listing) == [f \in DOMAIN listing |-> IF listing[f] = "fresh" THEN "old" ELSE listing[f]]
Age ==
  /\ Aged(device) # device
  /\ device' = Aged(device) /\ cached' = Aged(cached)
  /\ filing' = [r \in FileRequests |-> [filing[r] EXCEPT !.got = Aged(@)]]
  /\ UNCHANGED filesTrouble

ByHand(f, age) ==
  /\ filesTrouble = {} /\ device[f] # age
  /\ device' = [device EXCEPT ![f] = age]
  /\ filesTrouble' = filesTrouble \cup {"other"} \cup {k \in {"upload"} : age = "fresh"}
  /\ UNCHANGED <<cached, filing>>

FilesRestart ==
  /\ cached # NoList \/ \E r \in FileRequests : filing[r] # NoFiling
  /\ cached' = NoList /\ filing' = [r \in FileRequests |-> NoFiling]
  /\ filesTrouble' = {} /\ UNCHANGED device

FilesNext ==
  \/ Age \/ PurgeFiles \/ FilesRestart
  \/ \E f \in GcodeFiles, age \in {"none", "fresh"} : ByHand(f, age)
  \/ \E r \in FileRequests :
       \/ GetFiles(r) \/ ClearPrinterFiles(r) \/ \E b \in BOOLEAN : BootClean(r, b)
       \/ \E f \in GcodeFiles : DeleteFile(r, f) \/ \E b \in BOOLEAN : UploadPrinterFile(r, f, b)
       \/ ListDevice(r) \/ ListFails(r) \/ CacheFiles(r) \/ CheckOutdated(r) \/ CleanOutdated(r)
       \/ ListAll(r) \/ RemoveEnds(r) \/ \E f \in GcodeFiles, ok \in BOOLEAN : RemoveFile(r, f, ok)
       \/ DeleteOnDevice(r) \/ UploadToDevice(r) \/ DeviceRefuses(r) \/ PurgeFile(r)
       \/ PurgePrinterFiles(r)

FilesSpec == FilesInit /\ [][FilesNext]_filesVars

-----------------------------------------------------------------------------
(* Properties *)

\* Between requests that neither overlapped nor lost a list, the cached list, when there
\* is one, is what is on the printer.
CacheShowsDevice ==
  filesTrouble = {} /\ (\A r \in FileRequests : filing[r] = NoFiling) => cached \in {NoList, device}

\* A clean never deletes a file that is fresh on the printer, however lists, deletes,
\* clears and cleans overlap, unless an upload was overlapped, lost its list, or went
\* around the server.
CleanSparesFresh ==
  [][\A r \in FileRequests, f \in GcodeFiles :
       /\ At(r, "remove") /\ Len(filing[r].plan) > 2 /\ f \in filing[r].todo /\ f \notin filing'[r].todo
       /\ device[f] = "fresh" /\ device'[f] = "none"
       => "upload" \in filesTrouble]_filesVars

\* Users see and the clean removes what is on the printer.
FilesAreAsListed == [][CacheShowsDevice']_filesVars /\ CleanSparesFresh

=============================================================================
