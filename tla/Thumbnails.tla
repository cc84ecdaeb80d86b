----------------------------- MODULE Thumbnails -----------------------------
(***************************************************************************)
(* PrinterThumbnailCache of one printer: the thumbnail in memory and its   *)
(* file on disk, written by loads from an uploaded or a printed file,      *)
(* cleared by the printer's deletion, and dropped or read back as an       *)
(* administrator switches thumbnail support.                               *)
(***************************************************************************)
EXTENDS FiniteSets

CONSTANTS ThumbnailLoads, Images

VARIABLES
  thumbnailSupport,     \* experimentalThumbnailSupport
  thumbnailFile,        \* <id>.dat, or "none"
  thumbnail,            \* the value in keyValueStore, or "none"; "" of a file without one
  loading,              \* the loads in progress, with what they extracted
  switching,            \* updateThumbnailSupport between the setting and the cache
  thumbnailsOverlapped  \* history: operations ran side by side since the start

thumbnailVars == <<thumbnailSupport, thumbnailFile, thumbnail, loading, switching, thumbnailsOverlapped>>

NoLoad == [at |-> "idle", image |-> "none"]

ThumbnailsTypeOK ==
  /\ thumbnailSupport \in BOOLEAN /\ switching \in BOOLEAN /\ thumbnailsOverlapped \in BOOLEAN
  /\ thumbnailFile \in Images \cup {"none"} /\ thumbnail \in Images \cup {"none", ""}
  /\ \A l \in ThumbnailLoads :
        loading[l] \in [at : {"idle", "extract", "write", "set"}, image : Images \cup {"none", ""}]

ThumbnailsInit ==
  /\ thumbnailSupport = FALSE /\ thumbnailFile = "none" /\ thumbnail = "none"
  /\ loading = [l \in ThumbnailLoads |-> NoLoad]
  /\ switching = FALSE /\ thumbnailsOverlapped = FALSE

ThumbnailsBusy == switching \/ \E l \in ThumbnailLoads : loading[l] # NoLoad
\* Bound: what overlapped is followed to its end, nothing new starts.
Overlaps == ~thumbnailsOverlapped /\ thumbnailsOverlapped' = ThumbnailsBusy

StartLoad(l) ==
  /\ thumbnailSupport /\ loading[l] = NoLoad
  /\ loading' = [loading EXCEPT ![l].at = "extract"] /\ Overlaps
  /\ UNCHANGED <<thumbnailSupport, thumbnailFile, thumbnail, switching>>

\* A remote file without a thumbnail gives the empty string, a local one fails.
Extracted(l, image) ==
  /\ loading[l].at = "extract"
  /\ loading' = [loading EXCEPT ![l] = [at |-> "write", image |-> image]]
  /\ UNCHANGED <<thumbnailSupport, thumbnailFile, thumbnail, switching, thumbnailsOverlapped>>

LoadFails(l) ==
  /\ loading[l].at \in {"extract", "write"}
  /\ thumbnailFile' = "none" /\ thumbnail' = "none" /\ loading' = [loading EXCEPT ![l] = NoLoad]
  /\ UNCHANGED <<thumbnailSupport, switching, thumbnailsOverlapped>>

\* writeThumbnailFile of nothing removes what there is.  With a slip: keeps the file, or
\* writes nothing to it.
FileOf_WritesEmpty(image) == image
FileOf_Kept(image) == IF image = "" THEN thumbnailFile ELSE image
FileOf(image) == IF image = "" THEN "none" ELSE image

WriteThumbnailFile(l) ==
  LET image == loading[l].image
  IN  /\ loading[l].at = "write"
      /\ thumbnailFile' = FileOf(image)
      /\ thumbnail' = IF image = "" THEN "none" ELSE thumbnail
      /\ loading' = [loading EXCEPT ![l].at = "set"]
      /\ UNCHANGED <<thumbnailSupport, switching, thumbnailsOverlapped>>

SetPrinterThumbnail(l) ==
  /\ loading[l].at = "set"
  /\ thumbnail' = loading[l].image /\ loading' = [loading EXCEPT ![l] = NoLoad]
  /\ UNCHANGED <<thumbnailSupport, thumbnailFile, switching, thumbnailsOverlapped>>

SwitchSupport ==
  /\ ~switching
  /\ thumbnailSupport' = ~thumbnailSupport /\ switching' = TRUE /\ Overlaps
  /\ UNCHANGED <<thumbnailFile, thumbnail, loading>>

\* loadCache, or resetCache.
LoadedCache(support) == IF support THEN thumbnailFile ELSE "none"
ApplySupport ==
  /\ switching /\ switching' = FALSE
  /\ thumbnail' = LoadedCache(thumbnailSupport)
  /\ UNCHANGED <<thumbnailSupport, thumbnailFile, loading, thumbnailsOverlapped>>

\* handlePrintersDeleted does nothing without support: the file stays.
ThumbnailPrinterDeleted ==
  /\ thumbnailSupport /\ thumbnailFile' = "none" /\ thumbnail' = "none" /\ Overlaps
  /\ UNCHANGED <<thumbnailSupport, loading, switching>>

ThumbnailsRestart ==
  /\ thumbnail' = LoadedCache(thumbnailSupport)
  /\ loading' = [l \in ThumbnailLoads |-> NoLoad] /\ switching' = FALSE
  /\ thumbnailsOverlapped' = FALSE /\ UNCHANGED <<thumbnailSupport, thumbnailFile>>

ThumbnailsNext ==
  \/ SwitchSupport \/ ApplySupport \/ ThumbnailPrinterDeleted \/ ThumbnailsRestart
  \/ \E l \in ThumbnailLoads :
       \/ StartLoad(l) \/ LoadFails(l) \/ WriteThumbnailFile(l) \/ SetPrinterThumbnail(l)
       \/ \E image \in Images \cup {""} : Extracted(l, image)

ThumbnailsSpec == ThumbnailsInit /\ [][ThumbnailsNext]_thumbnailVars

-----------------------------------------------------------------------------
\* Between operations that did not overlap, wherever a restart cut them before, memory shows
\* the file with support and nothing without it.
ThumbnailFollowsFile ==
  ~thumbnailsOverlapped /\ ~ThumbnailsBusy =>
    thumbnail = LoadedCache(thumbnailSupport)
    \/ (thumbnailSupport /\ thumbnail = "" /\ thumbnailFile = "none")

=============================================================================
