---------------------------- MODULE ClientBundle ----------------------------
(***************************************************************************)
(* ClientBundleService: the web client on disk, replaced by a release of   *)
(* GitHub at boot when it is missing or too old, or at an administrator's  *)
(* request.  The old files are removed one after the other, then the       *)
(* archive is extracted; a crash may cut either.                           *)
(***************************************************************************)
EXTENDS FiniteSets, Integers

CONSTANTS
  Releases,       \* versions, numbers from 1
  MinimumRelease  \* defaultClientMinimum

VARIABLES
  bundle,             \* per part on disk the release it is of, 0 if it is not there
  updating,           \* the update of the boot task and that of a request
  updatesOverlapped   \* history: two updates ran side by side

bundleVars == <<bundle, updating, updatesOverlapped>>

\* package.json and the entries under dist: index.html, and what it loads.
Parts == {"package.json", "index.html", "assets"}
Updaters == {"boot", "request"}
NoUpdate == [at |-> "idle", target |-> 0, todo |-> {}]

BundleTypeOK ==
  /\ bundle \in [Parts -> Releases \cup {0, MinimumRelease}] /\ updatesOverlapped \in BOOLEAN
  /\ updating \in [Updaters -> [at : {"idle", "download", "readdir", "clear"},
                                target : Releases \cup {0, MinimumRelease}, todo : SUBSET Parts]]

BundleInit ==
  /\ bundle = [p \in Parts |-> 0] /\ updating = [u \in Updaters |-> NoUpdate]
  /\ updatesOverlapped = FALSE

Greater(a, b) == IF a >= b THEN a ELSE b

\* shouldUpdateWithReason; requested 0 is none.  The release to fetch, or 0.  With a slip:
\* index.html is not looked for.
Target_IgnoresIndex(requested, allowDowngrade) ==
  IF bundle["package.json"] >= MinimumRelease THEN 0 ELSE Greater(MinimumRelease, requested)
Target(requested, allowDowngrade) ==
  LET current == bundle["package.json"]
      downgrade == MinimumRelease <= requested /\ requested < current
  IN  CASE current < MinimumRelease \/ bundle["index.html"] = 0 \/ requested > current ->
             Greater(MinimumRelease, requested)
        [] downgrade /\ allowDowngrade /\ bundle["index.html"] # 0 -> requested
        [] OTHER -> 0

UpdateStarts(u, target) ==
  /\ updating[u] = NoUpdate /\ target # 0
  /\ updating' = [updating EXCEPT ![u] = [at |-> "download", target |-> target, todo |-> {}]]
  /\ updatesOverlapped' = (updatesOverlapped \/ \E o \in Updaters : updating[o] # NoUpdate)
  /\ UNCHANGED bundle

BootUpdates == UpdateStarts("boot", Target(0, FALSE))
RequestUpdates(requested, allowDowngrade) ==
  UpdateStarts("request", Target(requested, allowDowngrade))

UpdateGoes(u, at, todo) ==
  updating' = [updating EXCEPT ![u] = [at |-> at, target |-> updating[u].target, todo |-> todo]]

Downloaded(u) ==
  /\ updating[u].at = "download" /\ UpdateGoes(u, "readdir", {}) /\ UNCHANGED <<bundle, updatesOverlapped>>

\* GitHub does not answer, or has no such release or asset.
DownloadFails(u) ==
  /\ updating[u].at = "download"
  /\ updating' = [updating EXCEPT ![u] = NoUpdate] /\ UNCHANGED <<bundle, updatesOverlapped>>

ReadDir(u) ==
  /\ updating[u].at = "readdir"
  /\ UpdateGoes(u, "clear", {p \in Parts : bundle[p] # 0}) /\ UNCHANGED <<bundle, updatesOverlapped>>

RemovePart(u, p) ==
  /\ updating[u].at = "clear" /\ p \in updating[u].todo
  /\ bundle' = [bundle EXCEPT ![p] = 0]
  /\ UpdateGoes(u, "clear", updating[u].todo \ {p}) /\ UNCHANGED updatesOverlapped

\* extractAllTo does not overwrite what is there.
BundleWith(u, parts) == [p \in Parts |-> IF p \in parts /\ bundle[p] = 0 THEN updating[u].target ELSE bundle[p]]

ExtractBundle(u) ==
  /\ updating[u].at = "clear" /\ updating[u].todo = {}
  /\ bundle' = BundleWith(u, Parts)
  /\ updating' = [updating EXCEPT ![u] = NoUpdate] /\ UNCHANGED updatesOverlapped

\* The server ends, with the archive extracted in part or not.
BundleCrash ==
  /\ updating' = [u \in Updaters |-> NoUpdate] /\ UNCHANGED updatesOverlapped
  /\ \/ UNCHANGED bundle
     \/ \E u \in Updaters, parts \in SUBSET Parts :
          updating[u].at = "clear" /\ updating[u].todo = {} /\ bundle' = BundleWith(u, parts)

BundleNext ==
  \/ BootUpdates \/ BundleCrash
  \/ \E r \in Releases \cup {0}, b \in BOOLEAN : RequestUpdates(r, b)
  \/ \E u \in Updaters :
       \/ Downloaded(u) \/ DownloadFails(u) \/ ReadDir(u) \/ ExtractBundle(u)
       \/ \E p \in Parts : RemovePart(u, p)

BundleSpec == BundleInit /\ [][BundleNext]_bundleVars

-----------------------------------------------------------------------------
\* As long as no two updates ran side by side: whatever an earlier crash left, a client the
\* next boot takes as it is has its package.json and its index.html of one release, the
\* minimum or a later one, and no part of another.
BootServesClient ==
  ~updatesOverlapped /\ (\A u \in Updaters : updating[u] = NoUpdate) /\ Target(0, FALSE) = 0 =>
    /\ bundle["package.json"] >= MinimumRelease /\ bundle["index.html"] = bundle["package.json"]
    /\ bundle["assets"] \in {0, bundle["package.json"]}

=============================================================================
