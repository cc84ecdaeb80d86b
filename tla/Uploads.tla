------------------------------ MODULE Uploads ------------------------------
(***************************************************************************)
(* FileUploadTrackerCache: the uploads of gcode to printers, followed by   *)
(* the progress events their HTTP requests emit under a token.  The        *)
(* answer of the printer comes after the last byte was sent, and only the  *)
(* OctoPrint client tells of a failure.                                    *)
(***************************************************************************)

CONSTANTS Tokens, MoonrakerTokens  \* MoonrakerTokens \subseteq Tokens: uploads to Moonraker

VARIABLES
  currentUploads, uploadsDone, uploadsFailed,  \* the three lists, by token
  progressListeners,  \* tokens whose progress event has the cache's listener
  uploading           \* where the HTTP request of each token is

uploadVars == <<currentUploads, uploadsDone, uploadsFailed, progressListeners, uploading>>

UploadsTypeOK ==
  /\ currentUploads \subseteq Tokens /\ uploadsDone \subseteq Tokens /\ uploadsFailed \subseteq Tokens
  /\ progressListeners \subseteq Tokens
  /\ uploading \in [Tokens -> {"none", "sending", "sent", "accepted", "refused"}]

UploadsInit ==
  /\ currentUploads = {} /\ uploadsDone = {} /\ uploadsFailed = {} /\ progressListeners = {}
  /\ uploading = [t \in Tokens |-> "none"]

AddUploadTracker(t) ==
  /\ uploading[t] = "none" /\ uploading' = [uploading EXCEPT ![t] = "sending"]
  /\ progressListeners' = progressListeners \cup {t} /\ currentUploads' = currentUploads \cup {t}
  /\ UNCHANGED <<uploadsDone, uploadsFailed>>

\* markUploadDone: an upload that is not current is not moved.
Moved(t) == {t} \cap currentUploads

MarkUploadDone(t, success) ==
  /\ currentUploads' = currentUploads \ {t}
  /\ uploadsDone' = uploadsDone \cup (IF success THEN Moved(t) ELSE {})
  /\ uploadsFailed' = uploadsFailed \cup (IF success THEN {} ELSE Moved(t))

\* updateUploadProgress of the last byte or a failure, if the token still has its listener;
\* the events in between only update a number.
UpdateUploadProgress(t, success) ==
  IF t \in progressListeners
  THEN MarkUploadDone(t, success) /\ progressListeners' = progressListeners \ {t}
  ELSE UNCHANGED <<currentUploads, uploadsDone, uploadsFailed, progressListeners>>

UploadGoes(t, at) == uploading' = [uploading EXCEPT ![t] = at]

SendLast(t) == uploading[t] = "sending" /\ UploadGoes(t, "sent") /\ UpdateUploadProgress(t, TRUE)

\* The failed event of the OctoPrint client; the Moonraker client emits none.  With a slip:
\* the listener is not taken off.
Failure_KeepsListener(t) == MarkUploadDone(t, FALSE) /\ UNCHANGED progressListeners
Failure(t) ==
  IF t \in MoonrakerTokens
  THEN UNCHANGED <<currentUploads, uploadsDone, uploadsFailed, progressListeners>>
  ELSE UpdateUploadProgress(t, FALSE)

Refuse(t) == uploading[t] \in {"sending", "sent"} /\ UploadGoes(t, "refused") /\ Failure(t)
Accept(t) ==
  /\ uploading[t] = "sent" /\ UploadGoes(t, "accepted")
  /\ UNCHANGED <<currentUploads, uploadsDone, uploadsFailed, progressListeners>>

UploadsNext ==
  \E t \in Tokens : AddUploadTracker(t) \/ SendLast(t) \/ Refuse(t) \/ Accept(t)

UploadsSpec == UploadsInit /\ [][UploadsNext]_uploadVars

-----------------------------------------------------------------------------
\* An upload to OctoPrint whose request ended is in one list of the ended ones, and its
\* listener is gone; only one that sent its last byte is reported as done.
EndedUploadsAreSettled ==
  \A t \in Tokens :
    /\ uploading[t] \in {"sent", "accepted", "refused"} /\ t \notin MoonrakerTokens =>
         /\ t \notin currentUploads \cup progressListeners
         /\ t \in uploadsDone \/ t \in uploadsFailed
    /\ ~(t \in uploadsDone /\ t \in uploadsFailed)
    /\ t \in uploadsFailed => uploading[t] = "refused"
    /\ uploading[t] = "accepted" => t \in uploadsDone

=============================================================================
