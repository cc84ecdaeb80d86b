-------------------------- MODULE FirmwareUpdates ---------------------------
(***************************************************************************)
(* PluginFirmwareUpdateService and its controller: releases of firmware    *)
(* are listed, downloaded to a folder and flashed by a plugin of each      *)
(* printer, and a scan asks the printers one after the other for it.       *)
(* Printers are deleted and stop to answer while requests are under way.   *)
(***************************************************************************)
EXTENDS Naturals, Sequences

CONSTANTS
  FirmwareRequests,
  Scanned,      \* printers there are at first
  MaxPublished  \* bound: releases that are ever published; the last one is the newest

VARIABLES
  published, firmwareReleases, \* GitHub's newest release, and the newest of the list in memory; 0: none
  firmwareFolder,  \* the files by time of change: [release, whole]
  scannable,       \* printers in the cache
  firmwareCall,    \* request -> where it is
  scanOutcome      \* firmware-state in the cache manager

firmwareVars == <<published, firmwareReleases, firmwareFolder, scannable, firmwareCall,
                  scanOutcome>>

FirmwareVersions == 1..MaxPublished
NoCall == [kind |-> "none"]
NoOutcome == [printers |-> {}, states |-> {}, failures |-> {}]

FirmwareTypeOK ==
  /\ published \in 0..MaxPublished /\ firmwareReleases \in 0..published
  /\ \A i \in DOMAIN firmwareFolder : firmwareFolder[i] \in [release : FirmwareVersions, whole : BOOLEAN]
  /\ scannable \subseteq Scanned
  /\ \A r \in FirmwareRequests : firmwareCall[r].kind \in {"none", "scan", "get", "install", "flash"}
  /\ scanOutcome \in [printers : SUBSET Scanned, states : SUBSET Scanned, failures : SUBSET Scanned]

FirmwareInit ==
  /\ published = 0 /\ firmwareReleases = 0 /\ firmwareFolder = <<>>
  /\ scannable = Scanned
  /\ firmwareCall = [r \in FirmwareRequests |-> NoCall]
  /\ scanOutcome = NoOutcome

Calls(r, call) == firmwareCall' = [firmwareCall EXCEPT ![r] = call]
SameFiles == UNCHANGED <<published, firmwareReleases, firmwareFolder>>

-----------------------------------------------------------------------------
(* Releases and their files. *)

Publish ==
  /\ published < MaxPublished /\ published' = published + 1
  /\ UNCHANGED <<firmwareReleases, firmwareFolder, scannable, firmwareCall, scanOutcome>>

\* What was known stays when GitHub does not answer; a list that is empty replaces it.
QueryReleases ==
  /\ firmwareReleases' = published
  /\ UNCHANGED <<published, firmwareFolder, scannable, firmwareCall, scanOutcome>>

FileExists(release) == \E i \in DOMAIN firmwareFolder : firmwareFolder[i].release = release

\* The file is created before the release is asked for.
DownloadFirmware(r) ==
  /\ firmwareCall[r] = NoCall
  /\ firmwareReleases # 0 /\ ~FileExists(firmwareReleases)
  /\ firmwareFolder' = Append(firmwareFolder, [release |-> firmwareReleases, whole |-> FALSE])
  /\ Calls(r, [kind |-> "get", release |-> firmwareReleases])
  /\ UNCHANGED <<published, firmwareReleases, scannable, scanOutcome>>

\* The file at i is the one that was written last.
Rewritten(i, file) ==
  [j \in DOMAIN firmwareFolder |->
     IF j < i THEN firmwareFolder[j]
     ELSE IF j = Len(firmwareFolder) THEN file ELSE firmwareFolder[j + 1]]

DownloadEnds(r) ==
  LET release == firmwareCall[r].release
  IN  /\ firmwareCall[r].kind = "get" /\ Calls(r, NoCall)
      /\ \/ \E i \in DOMAIN firmwareFolder :
              /\ firmwareFolder[i].release = release
              /\ firmwareFolder' = Rewritten(i, [release |-> release, whole |-> TRUE])
         \/ UNCHANGED firmwareFolder
      /\ UNCHANGED <<published, firmwareReleases, scannable, scanOutcome>>

-----------------------------------------------------------------------------
(* Printers. *)

PrinterForgotten(p) ==
  /\ scannable' = scannable \ {p} /\ scannable' # scannable
  /\ SameFiles /\ UNCHANGED <<firmwareCall, scanOutcome>>

\* An install goes on when the plugin is not in the printer's list: and fails, as nothing
\* loads the repository of plugins that its address comes from.
InstallPlugin(r, p) ==
  /\ firmwareCall[r] = NoCall /\ p \in scannable
  /\ Calls(r, [kind |-> "install", printer |-> p])
  /\ SameFiles /\ UNCHANGED <<scannable, scanOutcome>>

GetNewestFile == firmwareFolder[Len(firmwareFolder)]

\* Of the path of the file, whatever the file holds by the time it is read.
FlashFirmware(r, p) ==
  /\ firmwareCall[r] = NoCall /\ p \in scannable /\ firmwareFolder # <<>>
  /\ Calls(r, [kind |-> "flash", printer |-> p, release |-> GetNewestFile.release])
  /\ SameFiles /\ UNCHANGED <<scannable, scanOutcome>>

PrinterAnswers(r) ==
  /\ firmwareCall[r].kind \in {"install", "flash"} /\ Calls(r, NoCall)
  /\ SameFiles /\ UNCHANGED <<scannable, scanOutcome>>

StartScan(r) ==
  /\ firmwareCall[r] = NoCall
  /\ Calls(r, [kind |-> "scan", at |-> "next", printers |-> scannable, left |-> scannable,
               asked |-> {}, states |-> {}, failures |-> {}])
  /\ SameFiles /\ UNCHANGED <<scannable, scanOutcome>>

\* One that fails does not end the scan.  With a slip: it does.
AfterFailure_Ends(call) ==
  [call EXCEPT !.at = "next", !.failures = @ \cup call.asked, !.asked = {}, !.left = {}]
AfterFailure(call) ==
  [call EXCEPT !.at = "next", !.failures = @ \cup call.asked, !.asked = {}]
AfterSuccess(call) ==
  [call EXCEPT !.at = "next", !.states = @ \cup call.asked, !.asked = {}]

\* getLoginDtoAsync fails of a printer that was deleted since the scan began.
ScanNext(r, p) ==
  LET call == firmwareCall[r]
      asking == [call EXCEPT !.at = "plugin", !.asked = {p}, !.left = @ \ {p}]
  IN  /\ call.kind = "scan" /\ call.at = "next" /\ p \in call.left
      /\ Calls(r, IF p \in scannable THEN asking ELSE AfterFailure(asking))
      /\ SameFiles /\ UNCHANGED <<scannable, scanOutcome>>

\* isPluginInstalled, and of a printer that has the plugin getPrinterFirmwareVersion.
ScanAnswered(r) ==
  LET call == firmwareCall[r]
  IN  /\ call.kind = "scan" /\ call.at \in {"plugin", "version"}
      /\ \/ Calls(r, AfterFailure(call)) \/ Calls(r, AfterSuccess(call))
         \/ call.at = "plugin" /\ Calls(r, [call EXCEPT !.at = "version"])
      /\ SameFiles /\ UNCHANGED <<scannable, scanOutcome>>

ScanEnds(r) ==
  LET call == firmwareCall[r]
  IN  /\ call.kind = "scan" /\ call.at = "next" /\ call.left = {} /\ Calls(r, NoCall)
      /\ scanOutcome' = [printers |-> call.printers, states |-> call.states, failures |-> call.failures]
      /\ SameFiles /\ UNCHANGED scannable

FirmwareNext ==
  \/ Publish \/ QueryReleases
  \/ \E p \in Scanned : PrinterForgotten(p)
  \/ \E r \in FirmwareRequests :
        \/ DownloadFirmware(r) \/ DownloadEnds(r)
        \/ \E p \in Scanned : InstallPlugin(r, p) \/ FlashFirmware(r, p)
        \/ PrinterAnswers(r)
        \/ StartScan(r) \/ (\E p \in Scanned : ScanNext(r, p)) \/ ScanAnswered(r) \/ ScanEnds(r)

FirmwareSpec == FirmwareInit /\ [][FirmwareNext]_firmwareVars

-----------------------------------------------------------------------------
\* Whatever printers fail or are deleted while it asks them, and whichever of two scans
\* ends last: the outcome that is kept tells of every printer of its scan, once.
ScanTellsOfEach ==
  /\ scanOutcome.states \cup scanOutcome.failures = scanOutcome.printers
  /\ scanOutcome.states \cap scanOutcome.failures = {}

=============================================================================
