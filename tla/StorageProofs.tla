---------------------------- MODULE StorageProofs ----------------------------
(***************************************************************************)
(* What holds of what the server keeps on disk, of printers' files, of the *)
(* settings and of imports, for any number of releases, requests and rows. *)
(***************************************************************************)
EXTENDS ServicesProofs

-----------------------------------------------------------------------------
(* The web client on disk. *)

\* As long as no two updates ran side by side, what is there is of one release that is not too
\* old, and an update that clears has nothing left on disk but what it is about to remove.
ClientInv ==
  /\ bundle \in [Client!Parts -> Nat]
  /\ updating \in [Client!Updaters -> [at : {"idle", "download", "readdir", "clear"},
                                       target : Nat, todo : SUBSET Client!Parts]]
  /\ \A u \in Client!Updaters :
       IF updating[u].at = "idle" THEN updating[u] = Client!NoUpdate ELSE updating[u].target >= MinimumRelease
  /\ ~updatesOverlapped =>
       /\ \A u, o \in Client!Updaters : updating[u] # Client!NoUpdate /\ updating[o] # Client!NoUpdate => u = o
       /\ \A p \in Client!Parts : bundle[p] # 0 => bundle[p] >= MinimumRelease
       /\ \A p, q \in Client!Parts : bundle[p] # 0 /\ bundle[q] # 0 => bundle[p] = bundle[q]
       /\ \A u \in Client!Updaters : updating[u].at = "clear" => \A p \in Client!Parts : bundle[p] # 0 => p \in updating[u].todo

LEMMA ClientKeep ==
  ASSUME ClientInv, [Client!BundleNext]_bundleVars
  PROVE  ClientInv'
<1> USE ReleasesAreNumbered
<1> DEFINE Calls == [at : {"idle", "download", "readdir", "clear"}, target : Nat, todo : SUBSET Client!Parts]
<1>0. Client!NoUpdate \in Calls /\ Client!NoUpdate.at = "idle"
  BY DEF Client!NoUpdate
<1>1. ASSUME NEW requested \in Releases \cup {0}, NEW allow \in BOOLEAN
      PROVE  /\ Client!Target(requested, allow) \in Nat
             /\ Client!Target(requested, allow) # 0 => Client!Target(requested, allow) >= MinimumRelease
  BY DEF ClientInv, Client!Target, Client!Greater, Client!Parts
<1>2. ASSUME NEW u \in Client!Updaters, NEW requested \in Releases \cup {0}, NEW allow \in BOOLEAN,
             Client!UpdateStarts(u, Client!Target(requested, allow))
      PROVE  ClientInv'
  <2> DEFINE target == Client!Target(requested, allow)
             x == [at |-> "download", target |-> target, todo |-> {}]
  <2>1. /\ updating[u] = Client!NoUpdate /\ target # 0 /\ updating' = [updating EXCEPT ![u] = x]
        /\ updatesOverlapped' = (updatesOverlapped \/ \E o \in Client!Updaters : updating[o] # Client!NoUpdate)
        /\ UNCHANGED bundle
    BY <1>2 DEF Client!UpdateStarts
  <2>2. target \in Nat /\ target >= MinimumRelease
    BY <1>1, <2>1
  <2> HIDE DEF target
  <2>3. x \in Calls /\ x.at = "download" /\ x.target = target
    BY <2>2
  <2> HIDE DEF x, Calls
  <2>4. updating' \in [Client!Updaters -> Calls] /\ \A o \in Client!Updaters : updating'[o] = IF o = u THEN x ELSE updating[o]
    BY <2>1, <2>3 DEF ClientInv, Calls
  <2>5. ~updatesOverlapped' => ~updatesOverlapped /\ \A o \in Client!Updaters : updating[o] = Client!NoUpdate
    BY <2>1
  <2> QED BY <1>0, <2>1, <2>2, <2>3, <2>4, <2>5 DEF ClientInv, Calls
\* One of the updates goes on.
<1>3. ASSUME NEW u \in Client!Updaters, NEW x \in Calls, updating[u].at # "idle",
             updating' = [updating EXCEPT ![u] = x],
             x = Client!NoUpdate \/ (x.at # "idle" /\ x.target = updating[u].target),
             bundle' \in [Client!Parts -> Nat], UNCHANGED updatesOverlapped,
             ~updatesOverlapped =>
               /\ \A p \in Client!Parts : bundle'[p] # 0 => bundle'[p] >= MinimumRelease
               /\ \A p, q \in Client!Parts : bundle'[p] # 0 /\ bundle'[q] # 0 => bundle'[p] = bundle'[q]
               /\ x.at = "clear" => \A p \in Client!Parts : bundle'[p] # 0 => p \in x.todo
      PROVE  ClientInv'
  <2> HIDE DEF Calls
  <2>1. updating' \in [Client!Updaters -> Calls] /\ \A o \in Client!Updaters : updating'[o] = IF o = u THEN x ELSE updating[o]
    BY <1>3 DEF ClientInv, Calls
  <2>2. updating[u] # Client!NoUpdate
    BY <1>0, <1>3
  <2>3. ~updatesOverlapped => \A o \in Client!Updaters : o # u => updating[o] = Client!NoUpdate
    BY <2>2 DEF ClientInv
  <2>4. updating[u].target >= MinimumRelease
    BY <1>3 DEF ClientInv
  <2> QED BY <1>0, <1>3, <2>1, <2>3, <2>4 DEF ClientInv, Calls
<1>4. ASSUME NEW u \in Client!Updaters, Client!Downloaded(u) PROVE ClientInv'
  <2> DEFINE x == [at |-> "readdir", target |-> updating[u].target, todo |-> {}]
  <2>1. updating[u].at = "download" /\ updating' = [updating EXCEPT ![u] = x] /\ UNCHANGED <<bundle, updatesOverlapped>>
    BY <1>4 DEF Client!Downloaded, Client!UpdateGoes
  <2>2. x \in Calls /\ x.at = "readdir" /\ x.target = updating[u].target
    BY DEF ClientInv
  <2> HIDE DEF x, Calls
  <2> QED BY <1>3, <2>1, <2>2 DEF ClientInv
<1>5. ASSUME NEW u \in Client!Updaters, Client!DownloadFails(u) PROVE ClientInv'
  <2> HIDE DEF Calls
  <2> QED BY <1>0, <1>3, <1>5 DEF Client!DownloadFails, ClientInv
<1>6. ASSUME NEW u \in Client!Updaters, Client!ReadDir(u) PROVE ClientInv'
  <2> DEFINE todo == {p \in Client!Parts : bundle[p] # 0}
             x == [at |-> "clear", target |-> updating[u].target, todo |-> todo]
  <2>1. updating[u].at = "readdir" /\ updating' = [updating EXCEPT ![u] = x] /\ UNCHANGED <<bundle, updatesOverlapped>>
    BY <1>6 DEF Client!ReadDir, Client!UpdateGoes
  <2>2. x \in Calls /\ x.at = "clear" /\ x.target = updating[u].target /\ x.todo = todo
    BY DEF ClientInv
  <2> HIDE DEF x, Calls
  <2> QED BY <1>3, <2>1, <2>2 DEF ClientInv
<1>7. ASSUME NEW u \in Client!Updaters, NEW p \in Client!Parts, Client!RemovePart(u, p) PROVE ClientInv'
  <2> DEFINE x == [at |-> "clear", target |-> updating[u].target, todo |-> updating[u].todo \ {p}]
  <2>1. /\ updating[u].at = "clear" /\ updating' = [updating EXCEPT ![u] = x]
        /\ bundle' = [bundle EXCEPT ![p] = 0] /\ UNCHANGED updatesOverlapped
    BY <1>7 DEF Client!RemovePart, Client!UpdateGoes
  <2>2. x \in Calls /\ x.at = "clear" /\ x.target = updating[u].target /\ x.todo = updating[u].todo \ {p}
    BY DEF ClientInv
  <2> HIDE DEF x, Calls
  <2>3. bundle' \in [Client!Parts -> Nat] /\ \A q \in Client!Parts : bundle'[q] = IF q = p THEN 0 ELSE bundle[q]
    BY <2>1 DEF ClientInv
  <2>4. \A q \in Client!Parts : bundle'[q] # 0 => q # p /\ bundle'[q] = bundle[q]
    BY <2>3
  <2>5. ~updatesOverlapped =>
          /\ \A q \in Client!Parts : bundle'[q] # 0 => bundle'[q] >= MinimumRelease
          /\ \A q, r \in Client!Parts : bundle'[q] # 0 /\ bundle'[r] # 0 => bundle'[q] = bundle'[r]
    BY <2>4 DEF ClientInv
  <2>6. ~updatesOverlapped => \A q \in Client!Parts : bundle'[q] # 0 => q \in x.todo
    BY <2>1, <2>2, <2>4 DEF ClientInv
  <2> QED BY <1>3, <2>1, <2>2, <2>3, <2>5, <2>6
\* What an archive adds to an empty folder is of the release that was fetched.
<1>8. ASSUME NEW u \in Client!Updaters, NEW parts \in SUBSET Client!Parts,
             updating[u].at = "clear", updating[u].todo = {}, bundle' = Client!BundleWith(u, parts)
      PROVE  /\ bundle' \in [Client!Parts -> Nat]
             /\ ~updatesOverlapped =>
                  /\ \A p \in Client!Parts : bundle'[p] # 0 => bundle'[p] >= MinimumRelease
                  /\ \A p, q \in Client!Parts : bundle'[p] # 0 /\ bundle'[q] # 0 => bundle'[p] = bundle'[q]
  <2>1. updating[u].target \in Nat /\ updating[u].target >= MinimumRelease
    BY <1>8 DEF ClientInv
  <2>2. bundle' \in [Client!Parts -> Nat]
    BY <1>8, <2>1 DEF ClientInv, Client!BundleWith
  <2>3. ~updatesOverlapped => \A p \in Client!Parts : bundle[p] = 0
    BY <1>8 DEF ClientInv
  <2>4. ~updatesOverlapped => \A p \in Client!Parts : bundle'[p] \in {0, updating[u].target}
    BY <1>8, <2>3 DEF Client!BundleWith
  <2> QED BY <2>1, <2>2, <2>4
<1>9. ASSUME NEW u \in Client!Updaters, Client!ExtractBundle(u) PROVE ClientInv'
  <2>1. /\ updating[u].at = "clear" /\ updating[u].todo = {} /\ bundle' = Client!BundleWith(u, Client!Parts)
        /\ updating' = [updating EXCEPT ![u] = Client!NoUpdate] /\ UNCHANGED updatesOverlapped
    BY <1>9 DEF Client!ExtractBundle
  <2> HIDE DEF Calls
  <2> QED BY <1>0, <1>3, <1>8, <2>1
<1>10. CASE Client!BundleCrash
  <2>1. updating' = [u \in Client!Updaters |-> Client!NoUpdate] /\ UNCHANGED updatesOverlapped
    BY <1>10 DEF Client!BundleCrash
  <2>2. /\ bundle' \in [Client!Parts -> Nat]
        /\ ~updatesOverlapped =>
             /\ \A p \in Client!Parts : bundle'[p] # 0 => bundle'[p] >= MinimumRelease
             /\ \A p, q \in Client!Parts : bundle'[p] # 0 /\ bundle'[q] # 0 => bundle'[p] = bundle'[q]
    <3>1. CASE UNCHANGED bundle
      BY <3>1 DEF ClientInv
    <3>2. CASE ~UNCHANGED bundle
      BY <1>8, <1>10, <3>2 DEF Client!BundleCrash
    <3> QED BY <3>1, <3>2
  <2>3. updating' \in [Client!Updaters -> Calls] /\ \A u \in Client!Updaters : updating'[u] = Client!NoUpdate
    BY <1>0, <2>1
  <2> HIDE DEF Calls
  <2> QED BY <1>0, <2>1, <2>2, <2>3 DEF ClientInv, Calls
<1>11. CASE UNCHANGED bundleVars
  BY <1>11 DEF ClientInv, bundleVars, Client!Target, Client!NoUpdate
<1>12. CASE Client!BootUpdates
  BY <1>2, <1>12 DEF Client!BootUpdates, Client!Updaters
<1>13. ASSUME NEW r \in Releases \cup {0}, NEW b \in BOOLEAN, Client!RequestUpdates(r, b)
       PROVE  ClientInv'
  BY <1>2, <1>13 DEF Client!RequestUpdates, Client!Updaters
<1> QED BY <1>4, <1>5, <1>6, <1>7, <1>9, <1>10, <1>11, <1>12, <1>13 DEF Client!BundleNext

\* However many releases there are, and wherever crashes cut the updates: what a boot takes as
\* it is is a client of one release, the minimum or a later one.
THEOREM BootsServeClient == MCSpec => []BootServesClient
<1>1. MCInit => ClientInv
  BY DEF MCInit, ClientInv, Client!BundleInit, Client!NoUpdate
<1>2. ClientInv /\ [MCNext]_vars => ClientInv'
  BY Framed, ClientKeep
<1>3. ClientInv => BootServesClient
  <2> SUFFICES ASSUME ClientInv, ~updatesOverlapped, Client!Target(0, FALSE) = 0
               PROVE  /\ bundle["package.json"] >= MinimumRelease /\ bundle["index.html"] = bundle["package.json"]
                      /\ bundle["assets"] \in {0, bundle["package.json"]}
    BY DEF BootServesClient, Client!BootServesClient
  <2>1. bundle["package.json"] \in Nat /\ bundle["index.html"] \in Nat /\ bundle["assets"] \in Nat
    BY DEF ClientInv, Client!Parts
  <2>2. ~(bundle["package.json"] < MinimumRelease \/ bundle["index.html"] = 0)
    BY <2>1, ReleasesAreNumbered DEF Client!Target, Client!Greater
  <2>3. bundle["package.json"] >= MinimumRelease /\ bundle["package.json"] # 0 /\ bundle["index.html"] # 0
    BY <2>1, <2>2, ReleasesAreNumbered
  <2> QED BY <2>1, <2>3 DEF ClientInv, Client!Parts
<1> QED BY <1>1, <1>2, <1>3, PTL DEF MCSpec

-----------------------------------------------------------------------------
(* Files. *)

LEMMA FilesAreNamed == "none" \notin GcodeFiles
BY ServicesAssumption

Phases == {"list", "tryList", "cache", "check", "clean", "remove", "upload", "delete", "purge", "listAll", "purgeAll"}

\* Which phase of a plan another one follows.
PhaseOrder ==
  {<<"list", "cache">>, <<"tryList", "cache">>, <<"cache", "check">>, <<"check", "clean">>, <<"clean", "remove">>,
   <<"remove", "list">>, <<"cache", "upload">>, <<"upload", "list">>, <<"delete", "purge">>, <<"listAll", "remove">>,
   <<"remove", "purgeAll">>}

\* What is left of a plan.
Planned(p) ==
  /\ p \in Seq(Phases) /\ p # <<>> /\ p[Len(p)] \in {"cache", "purge", "purgeAll"}
  /\ \A i \in 1..(Len(p) - 1) : <<p[i], p[i + 1]>> \in PhaseOrder
  /\ \A i \in 1..Len(p) : p[i] \in {"upload", "listAll"} => Len(p) = i + 2

Filings == [plan : Seq(Phases), file : GcodeFiles \cup {"none"}, todo : SUBSET GcodeFiles,
            got : Files!Listings \cup {Files!NoList}]

\* A request is over, or has some of its plan to go, and a file when the plan is about one.
FilingOK(x) ==
  \/ x = Files!NoFiling
  \/ Planned(x.plan) /\ \A i \in 1..Len(x.plan) : x.plan[i] \in {"upload", "purge"} => x.file \in GcodeFiles

Uploads(x) == x.file # "none" /\ x.plan[1] # "delete" /\ x.plan # <<"purge">>

\* Nothing that is fresh on the printer is old in the list.
OldIsOld(listing, on) == \A f \in DOMAIN listing : listing[f] = "old" => on[f] # "fresh"

\* Each phase finds what it relies on, unless requests overlapped or a list was lost.
PhaseShows(x, list, on) ==
  /\ x = Files!NoFiling \/ x.plan[1] \in {"check", "upload", "delete"} => list \in {Files!NoList, on}
  /\ x # Files!NoFiling /\ x.plan[1] = "cache" => x.got = on
  /\ x # Files!NoFiling /\ x.plan[1] = "purge" =>
       list = Files!NoList \/ (list \in Files!Listings /\ on = [list EXCEPT ![x.file] = "none"])

FilesInv ==
  /\ device \in Files!Listings /\ cached \in Files!Listings \cup {Files!NoList}
  /\ filing \in [FileRequests -> Filings] /\ \A r \in FileRequests : FilingOK(filing[r])
  /\ filesTrouble = {} =>
       /\ \A r, o \in FileRequests : filing[r] # Files!NoFiling /\ filing[o] # Files!NoFiling => r = o
       /\ (\A r \in FileRequests : filing[r] = Files!NoFiling) => cached \in {Files!NoList, device}
       /\ \A r \in FileRequests : filing[r] # Files!NoFiling => PhaseShows(filing[r], cached, device)
  /\ "upload" \notin filesTrouble =>
       /\ \A r, o \in FileRequests : Uploads(filing[r]) /\ filing[o] # Files!NoFiling => r = o
       /\ OldIsOld(cached, device) \/ \E r \in FileRequests : Uploads(filing[r]) /\ Len(filing[r].plan) <= 2
       /\ \A r \in FileRequests : filing[r] # Files!NoFiling /\ filing[r].plan[1] = "cache" => OldIsOld(filing[r].got, device)
       /\ \A r \in FileRequests :
            filing[r] # Files!NoFiling /\ filing[r].plan[1] = "remove" /\ Len(filing[r].plan) > 2 =>
              \A f \in filing[r].todo : device[f] # "fresh"

LEMMA PlanIs ==
  ASSUME NEW p \in Seq(Phases), NEW n \in Nat \ {0}, Len(p) = n, p[n] \in {"cache", "purge", "purgeAll"},
         \A i \in 1..(n - 1) : <<p[i], p[i + 1]>> \in PhaseOrder,
         \A i \in 1..n : p[i] \in {"upload", "listAll"} => n = i + 2
  PROVE  Planned(p)
<1>1. p # <<>>
  OBVIOUS
<1> QED BY <1>1 DEF Planned

LEMMA PlanGoes ==
  ASSUME NEW p, Planned(p)
  PROVE  /\ Len(p) \in Nat \ {0} /\ p[1] \in Phases
         /\ Len(p) = 1 => p[1] \in {"cache", "purge", "purgeAll"}
         /\ Len(p) = 1 \/ Len(p) > 1
         /\ Len(p) > 1 => /\ Planned(Tail(p)) /\ Tail(p) # <<>> /\ <<p[1], Tail(p)[1]>> \in PhaseOrder
                          /\ Len(Tail(p)) = Len(p) - 1 /\ \A i \in 1..Len(Tail(p)) : Tail(p)[i] = p[i + 1]
         /\ p[1] \in {"upload", "listAll"} => Len(p) = 3
         /\ p[1] \in {"check", "clean"} => Len(p) > 2
         /\ p[1] = "delete" => Len(p) = 2
         /\ p[1] = "purge" => p = <<"purge">>
         /\ p[1] = "purgeAll" => Len(p) = 1
<1>1. p \in Seq(Phases) /\ Len(p) \in Nat /\ Len(p) >= 1 /\ 1 \in 1..Len(p)
  BY DEF Planned
<1>13. (Len(p) = 1 \/ Len(p) > 1) /\ (Len(p) = 1 \/ Len(p) = 2 \/ Len(p) > 2)
  <2>1. \A n \in Nat : n >= 1 => (n = 1 \/ n > 1) /\ (n = 1 \/ n = 2 \/ n > 2)
    OBVIOUS
  <2> QED BY <1>1, <2>1
<1>2. Len(p) = 1 => p[1] \in {"cache", "purge", "purgeAll"}
  BY DEF Planned
<1>3. p[1] \in {"upload", "listAll"} => Len(p) = 3
  <2>1. p[1] \in {"upload", "listAll"} => Len(p) = 1 + 2
    BY <1>1 DEF Planned
  <2> QED BY <2>1
<1>0. \A i \in 1..(Len(p) - 1) : <<p[i], p[i + 1]>> \in PhaseOrder
  BY DEF Planned
<1>4. Len(p) > 1 => <<p[1], p[2]>> \in PhaseOrder
  <2>1. Len(p) > 1 => 1 \in 1..(Len(p) - 1)
    BY <1>1
  <2>2. Len(p) > 1 => <<p[1], p[1 + 1]>> \in PhaseOrder
    BY <1>0, <2>1
  <2> QED BY <2>2
<1>5. Len(p) > 2 => <<p[2], p[3]>> \in PhaseOrder
  <2>1. Len(p) > 2 => 2 \in 1..(Len(p) - 1)
    BY <1>1
  <2>2. Len(p) > 2 => <<p[2], p[2 + 1]>> \in PhaseOrder
    BY <1>0, <2>1
  <2> QED BY <2>2
<1>6. Len(p) = 2 => p[2] \in {"cache", "purge", "purgeAll"}
  BY DEF Planned
<1>7. p[1] \in {"check", "clean"} => Len(p) > 2
  <2>1. p[1] \in {"check", "clean"} /\ Len(p) > 1 => p[2] \in {"clean", "remove"}
    BY <1>4 DEF PhaseOrder
  <2> QED BY <1>2, <1>6, <1>13, <2>1
<1>8. p[1] = "delete" => Len(p) = 2
  <2>1. p[1] = "delete" /\ Len(p) > 1 => p[2] = "purge"
    BY <1>4 DEF PhaseOrder
  <2>2. Len(p) > 2 => p[2] # "purge"
    BY <1>5 DEF PhaseOrder
  <2> QED BY <1>2, <1>13, <2>1, <2>2
<1>9. p[1] = "purge" => p = <<"purge">>
  <2>1. ~(Len(p) > 1) /\ Len(p) = 1 /\ p[1] = "purge" => p = <<"purge">>
    BY <1>1
  <2>2. p[1] = "purge" => ~(Len(p) > 1)
    BY <1>4 DEF PhaseOrder
  <2> QED BY <1>13, <2>1, <2>2
<1>10. p[1] = "purgeAll" => Len(p) = 1
  BY <1>4, <1>13 DEF PhaseOrder
<1>11. ASSUME Len(p) > 1
       PROVE  /\ Planned(Tail(p)) /\ Tail(p) # <<>> /\ <<p[1], Tail(p)[1]>> \in PhaseOrder
              /\ Len(Tail(p)) = Len(p) - 1 /\ \A i \in 1..Len(Tail(p)) : Tail(p)[i] = p[i + 1]
  <2>0. /\ Tail(p) \in Seq(Phases) /\ Len(Tail(p)) = Len(p) - 1
        /\ \A i \in 1..Len(Tail(p)) : Tail(p)[i] = p[i + 1]
    BY <1>1, <1>11
  <2>1. /\ Tail(p) \in Seq(Phases) /\ Tail(p) # <<>> /\ Len(Tail(p)) = Len(p) - 1
        /\ \A i \in 1..Len(Tail(p)) : Tail(p)[i] = p[i + 1]
    BY <1>1, <1>11, <2>0
  <2>2. Tail(p)[1] = p[2] /\ Tail(p)[Len(Tail(p))] = p[Len(p)]
    BY <1>1, <1>11, <2>1
  <2>3. \A i \in 1..(Len(Tail(p)) - 1) : <<Tail(p)[i], Tail(p)[i + 1]>> \in PhaseOrder
    <3> SUFFICES ASSUME NEW i \in 1..(Len(Tail(p)) - 1) PROVE <<Tail(p)[i], Tail(p)[i + 1]>> \in PhaseOrder
      OBVIOUS
    <3>1. i + 1 \in 1..(Len(p) - 1) /\ Tail(p)[i] = p[i + 1] /\ Tail(p)[i + 1] = p[(i + 1) + 1]
      BY <1>1, <2>1
    <3> QED BY <3>1 DEF Planned
  <2>4. \A i \in 1..Len(Tail(p)) : Tail(p)[i] \in {"upload", "listAll"} => Len(Tail(p)) = i + 2
    <3> SUFFICES ASSUME NEW i \in 1..Len(Tail(p)), Tail(p)[i] \in {"upload", "listAll"} PROVE Len(Tail(p)) = i + 2
      OBVIOUS
    <3>1. i + 1 \in 1..Len(p) /\ p[i + 1] \in {"upload", "listAll"}
      BY <1>1, <2>1
    <3>2. Len(p) = (i + 1) + 2
      BY <3>1 DEF Planned
    <3> QED BY <1>1, <2>1, <3>2
  <2>5. Planned(Tail(p))
    BY <2>1, <2>2, <2>3, <2>4 DEF Planned
  <2> QED BY <1>4, <1>11, <2>1, <2>2, <2>5
<1>12. p[1] \in Phases
  BY <1>1
<1> QED BY <1>1, <1>2, <1>3, <1>7, <1>8, <1>9, <1>10, <1>11, <1>12, <1>13

\* A request that goes on after a phase.
LEMMA PhaseOver ==
  ASSUME NEW q \in Filings, FilingOK(q), q.plan # <<>>, Len(q.plan) > 1
  PROVE  LET x == [q EXCEPT !.plan = Tail(q.plan)]
         IN  /\ x \in Filings /\ FilingOK(x) /\ x # Files!NoFiling /\ x.plan # <<>>
             /\ x.plan = Tail(q.plan) /\ x.file = q.file /\ x.todo = q.todo /\ x.got = q.got
             /\ <<q.plan[1], x.plan[1]>> \in PhaseOrder /\ Len(x.plan) = Len(q.plan) - 1
             /\ Uploads(x) <=> Uploads(q)
<1> DEFINE p == q.plan
           x == [q EXCEPT !.plan = Tail(p)]
<1>1. Planned(p) /\ \A i \in 1..Len(p) : p[i] \in {"upload", "purge"} => q.file \in GcodeFiles
  BY DEF FilingOK, Files!NoFiling
<1>2. /\ Planned(Tail(p)) /\ Tail(p) # <<>> /\ <<p[1], Tail(p)[1]>> \in PhaseOrder /\ Len(p) \in Nat
      /\ Len(Tail(p)) = Len(p) - 1 /\ \A i \in 1..Len(Tail(p)) : Tail(p)[i] = p[i + 1]
  BY <1>1, PlanGoes
<1>3. x \in Filings /\ x.plan = Tail(p) /\ x.file = q.file /\ x.todo = q.todo /\ x.got = q.got
  <2>1. PICK t \in Seq(Phases) : t = Tail(p)
    BY <1>2 DEF Planned
  <2>2. x = [q EXCEPT !.plan = t]
    BY <2>1
  <2> HIDE DEF x
  <2> QED BY <2>1, <2>2 DEF Filings
<1>4. x # Files!NoFiling
  BY <1>2, <1>3 DEF Files!NoFiling
<1> HIDE DEF x
<1>5. \A i \in 1..Len(x.plan) : x.plan[i] \in {"upload", "purge"} => x.file \in GcodeFiles
  <2> SUFFICES ASSUME NEW i \in 1..Len(x.plan), x.plan[i] \in {"upload", "purge"} PROVE x.file \in GcodeFiles
    OBVIOUS
  <2>1. i + 1 \in 1..Len(p) /\ p[i + 1] \in {"upload", "purge"}
    BY <1>2, <1>3
  <2> QED BY <1>1, <1>3, <2>1
<1>6. FilingOK(x)
  BY <1>2, <1>3, <1>5 DEF FilingOK
<1>7. Tail(p)[1] # "delete" /\ (p[1] # "delete" => Tail(p)[1] # "purge")
  BY <1>2 DEF PhaseOrder
<1>8. Uploads(q) => Uploads(x)
  <2>1. ASSUME NEW t, t = <<"purge">> PROVE t[1] = "purge"
    BY <2>1
  <2> QED BY <1>3, <1>7, <2>1 DEF Uploads
<1>9. Uploads(x) => Uploads(q)
  <2> SUFFICES ASSUME Uploads(x) PROVE Uploads(q)
    OBVIOUS
  <2>1. p # <<"purge">>
    <3>1. Len(<<"purge">>) = 1
      OBVIOUS
    <3>2. \A n \in Nat : n > 1 => n # 1
      OBVIOUS
    <3> QED BY <1>2, <3>1, <3>2
  <2>2. p[1] # "delete"
    <3> SUFFICES ASSUME p[1] = "delete" PROVE FALSE
      OBVIOUS
    <3>1. Tail(p)[1] = "purge"
      BY <1>2 DEF PhaseOrder
    <3>2. Tail(p) = <<"purge">>
      BY <1>2, <3>1, PlanGoes
    <3> QED BY <1>3, <3>2 DEF Uploads
  <2> QED BY <1>3, <2>1, <2>2 DEF Uploads
<1> QED BY <1>2, <1>3, <1>4, <1>6, <1>8, <1>9 DEF x

\* It goes on, or is over.
LEMMA FilingGoes ==
  ASSUME FilesInv, NEW r \in FileRequests, NEW q \in Filings, Files!Goes(r, q), FilingOK(q), q.plan # <<>>
  PROVE  \E x \in Filings :
           /\ filing' = [filing EXCEPT ![r] = x] /\ FilingOK(x) /\ (Uploads(x) => Uploads(q))
           /\ \/ x = Files!NoFiling /\ q.plan[1] \in {"cache", "purge", "purgeAll"} /\ Len(q.plan) = 1
              \/ /\ x # Files!NoFiling /\ x.file = q.file /\ x.todo = q.todo /\ x.got = q.got
                 /\ <<q.plan[1], x.plan[1]>> \in PhaseOrder /\ Len(x.plan) = Len(q.plan) - 1
                 /\ (Uploads(q) => Uploads(x)) /\ Len(q.plan) > 1
<1> DEFINE p == q.plan
           x == [q EXCEPT !.plan = Tail(p)]
<1>1. Planned(p)
  BY DEF FilingOK, Files!NoFiling
<1>2. Files!NoFiling \in Filings /\ FilingOK(Files!NoFiling) /\ ~Uploads(Files!NoFiling)
  BY DEF Filings, FilingOK, Uploads, Files!NoFiling
<1>3. CASE Len(p) = 1
  <2>1. filing' = [filing EXCEPT ![r] = Files!NoFiling]
    BY <1>3 DEF Files!Goes
  <2>2. p[1] \in {"cache", "purge", "purgeAll"}
    BY <1>1, <1>3, PlanGoes
  <2> QED BY <1>2, <1>3, <2>1, <2>2
<1>4. CASE Len(p) > 1
  <2>1. Len(p) # 1
    <3>1. \A n \in Nat : n > 1 => n # 1
      OBVIOUS
    <3> QED BY <1>1, <1>4, <3>1, PlanGoes
  <2>2. filing' = [filing EXCEPT ![r] = x]
    BY <2>1 DEF Files!Goes
  <2>3. /\ x \in Filings /\ FilingOK(x) /\ x # Files!NoFiling /\ x.file = q.file /\ x.todo = q.todo /\ x.got = q.got
        /\ <<p[1], x.plan[1]>> \in PhaseOrder /\ Len(x.plan) = Len(p) - 1 /\ (Uploads(x) <=> Uploads(q))
    BY <1>4, PhaseOver
  <2> HIDE DEF x
  <2> QED BY <1>4, <2>2, <2>3
<1>5. Len(p) = 1 \/ Len(p) > 1
  BY <1>1, PlanGoes
<1> QED BY <1>3, <1>4, <1>5

\* One request went on.
LEMMA OneGoes ==
  ASSUME FilesInv, NEW r \in FileRequests, filing[r] # Files!NoFiling, NEW x \in Filings, FilingOK(x),
         filing' = [filing EXCEPT ![r] = x],
         device' \in Files!Listings, cached' \in Files!Listings \cup {Files!NoList}, filesTrouble \subseteq filesTrouble',
         filesTrouble' = {} => PhaseShows(x, cached', device'),
         "upload" \notin filesTrouble' =>
           /\ Uploads(x) => Uploads(filing[r])
           /\ \/ \A f \in GcodeFiles : device'[f] = "fresh" => device[f] = "fresh"
              \/ \A o \in FileRequests \ {r} : filing[o] = Files!NoFiling
           /\ OldIsOld(cached', device') \/ (Uploads(x) /\ Len(x.plan) <= 2)
           /\ x # Files!NoFiling /\ x.plan[1] = "cache" => OldIsOld(x.got, device')
           /\ x # Files!NoFiling /\ x.plan[1] = "remove" /\ Len(x.plan) > 2 => \A f \in x.todo : device'[f] # "fresh"
  PROVE  FilesInv'
<1>1. filing' \in [FileRequests -> Filings] /\ \A o \in FileRequests : filing'[o] = IF o = r THEN x ELSE filing[o]
  BY DEF FilesInv
<1>2. \A o \in FileRequests : FilingOK(filing'[o])
  BY <1>1 DEF FilesInv
<1>3. ASSUME filesTrouble' = {}
      PROVE  /\ \A o, s \in FileRequests : filing'[o] # Files!NoFiling /\ filing'[s] # Files!NoFiling => o = s
             /\ (\A o \in FileRequests : filing'[o] = Files!NoFiling) => cached' \in {Files!NoList, device'}
             /\ \A o \in FileRequests : filing'[o] # Files!NoFiling => PhaseShows(filing'[o], cached', device')
  <2>1. \A o \in FileRequests : o # r => filing'[o] = Files!NoFiling
    BY <1>1, <1>3 DEF FilesInv
  <2>2. filing'[r] = x
    BY <1>1
  <2>3. PhaseShows(x, cached', device')
    BY <1>3
  <2>4. x = Files!NoFiling => cached' \in {Files!NoList, device'}
    BY <2>3 DEF PhaseShows
  <2>5. \A o \in FileRequests : filing'[o] # Files!NoFiling => o = r
    BY <2>1
  <2>6. PhaseShows(filing'[r], cached', device')
    BY <2>2, <2>3
  <2> QED BY <2>2, <2>4, <2>5, <2>6
<1>4. ASSUME "upload" \notin filesTrouble'
      PROVE  /\ \A o, s \in FileRequests : Uploads(filing'[o]) /\ filing'[s] # Files!NoFiling => o = s
             /\ OldIsOld(cached', device') \/ \E o \in FileRequests : Uploads(filing'[o]) /\ Len(filing'[o].plan) <= 2
             /\ \A o \in FileRequests : filing'[o] # Files!NoFiling /\ filing'[o].plan[1] = "cache" => OldIsOld(filing'[o].got, device')
             /\ \A o \in FileRequests :
                  filing'[o] # Files!NoFiling /\ filing'[o].plan[1] = "remove" /\ Len(filing'[o].plan) > 2 =>
                    \A f \in filing'[o].todo : device'[f] # "fresh"
  <2>1. "upload" \notin filesTrouble
    BY <1>4
  <2>2. \A o, s \in FileRequests : Uploads(filing'[o]) /\ filing'[s] # Files!NoFiling => o = s
    BY <1>1, <1>4, <2>1 DEF FilesInv
  <2>3. OldIsOld(cached', device') \/ \E o \in FileRequests : Uploads(filing'[o]) /\ Len(filing'[o].plan) <= 2
    BY <1>1, <1>4
  <2>4. ASSUME NEW o \in FileRequests, o # r, filing[o] # Files!NoFiling
        PROVE  /\ filing[o].plan[1] = "cache" => OldIsOld(filing[o].got, device')
               /\ filing[o].plan[1] = "remove" /\ Len(filing[o].plan) > 2 => \A f \in filing[o].todo : device'[f] # "fresh"
    <3>1. \A f \in GcodeFiles : device'[f] = "fresh" => device[f] = "fresh"
      BY <1>4, <2>4
    <3>2. filing[o].todo \subseteq GcodeFiles /\ filing[o].got \in Files!Listings \cup {Files!NoList}
      BY DEF FilesInv, Filings
    <3>3. DOMAIN filing[o].got \subseteq GcodeFiles
      BY <3>2 DEF Files!Listings, Files!NoList
    <3>4. /\ filing[o].plan[1] = "cache" => OldIsOld(filing[o].got, device)
          /\ filing[o].plan[1] = "remove" /\ Len(filing[o].plan) > 2 => \A f \in filing[o].todo : device[f] # "fresh"
      BY <2>1, <2>4 DEF FilesInv
    <3>5. OldIsOld(filing[o].got, device) => \A f \in DOMAIN filing[o].got : filing[o].got[f] = "old" => device'[f] # "fresh"
      BY <3>1, <3>3 DEF OldIsOld
    <3> QED BY <3>1, <3>2, <3>4, <3>5 DEF OldIsOld
  <2> QED BY <1>1, <1>4, <2>2, <2>3, <2>4
<1> QED BY <1>1, <1>2, <1>3, <1>4 DEF FilesInv

LEMMA FilesKeep ==
  ASSUME FilesInv, [Files!FilesNext]_filesVars
  PROVE  FilesInv'
<1>0. /\ device \in Files!Listings /\ cached \in Files!Listings \cup {Files!NoList} /\ Files!NoFiling \in Filings
      /\ FilingOK(Files!NoFiling) /\ ~Uploads(Files!NoFiling)
  BY DEF FilesInv, Filings, FilingOK, Uploads, Files!NoFiling
\* What a request is that is at a phase.
<1>1. ASSUME NEW r \in FileRequests, NEW phase, Files!At(r, phase)
      PROVE  /\ filing[r] # Files!NoFiling /\ filing[r] \in Filings /\ FilingOK(filing[r])
             /\ filing[r].plan # <<>> /\ filing[r].plan[1] = phase /\ Planned(filing[r].plan)
             /\ filesTrouble = {} =>
                  /\ \A o \in FileRequests : filing[o] # Files!NoFiling => o = r
                  /\ PhaseShows(filing[r], cached, device)
             /\ "upload" \notin filesTrouble =>
                  /\ Uploads(filing[r]) => \A o \in FileRequests \ {r} : filing[o] = Files!NoFiling
                  /\ OldIsOld(cached, device) \/ (Uploads(filing[r]) /\ Len(filing[r].plan) <= 2)
  <2>1. filing[r].plan # <<>> /\ filing[r].plan[1] = phase
    BY <1>1 DEF Files!At
  <2>2. filing[r] # Files!NoFiling
    BY <2>1 DEF Files!NoFiling
  <2>3. filing[r] \in Filings /\ FilingOK(filing[r])
    BY DEF FilesInv
  <2>4. Planned(filing[r].plan)
    BY <2>2, <2>3 DEF FilingOK
  <2>5. filesTrouble = {} =>
          (\A o \in FileRequests : filing[o] # Files!NoFiling => o = r) /\ PhaseShows(filing[r], cached, device)
    BY <2>2 DEF FilesInv
  <2>6. "upload" \notin filesTrouble =>
          /\ Uploads(filing[r]) => \A o \in FileRequests \ {r} : filing[o] = Files!NoFiling
          /\ OldIsOld(cached, device) \/ (Uploads(filing[r]) /\ Len(filing[r].plan) <= 2)
    BY <2>2 DEF FilesInv
  <2> QED BY <2>1, <2>2, <2>3, <2>4, <2>5, <2>6
\* The same request with another list or other files to remove.
<1>2. ASSUME NEW r \in FileRequests, NEW phase, Files!At(r, phase),
             NEW q \in Filings, q.plan = filing[r].plan, q.file = filing[r].file
      PROVE  FilingOK(q) /\ q.plan # <<>> /\ (Uploads(q) <=> Uploads(filing[r]))
  <2>1. FilingOK(filing[r]) /\ filing[r].plan # <<>> /\ filing[r] # Files!NoFiling
    BY <1>1, <1>2
  <2> QED BY <1>2, <2>1 DEF FilingOK, Uploads
\* A request goes on, and changes nothing.
<1>3. ASSUME NEW r \in FileRequests, NEW phase \in {"list", "tryList", "check", "clean", "listAll", "remove"}, Files!At(r, phase),
             NEW q \in Filings, FilingOK(q), q.plan = filing[r].plan, Uploads(q) <=> Uploads(filing[r]), Files!Goes(r, q),
             UNCHANGED <<device, cached, filesTrouble>>,
             phase \in {"list", "tryList"} => q.got = device,
             phase = "clean" /\ "upload" \notin filesTrouble => \A f \in q.todo : device[f] # "fresh"
      PROVE  FilesInv'
  <2>1. /\ filing[r] # Files!NoFiling /\ q.plan # <<>> /\ q.plan[1] = phase /\ Planned(q.plan)
        /\ "upload" \notin filesTrouble => OldIsOld(cached, device) \/ (Uploads(q) /\ Len(q.plan) <= 2)
    BY <1>1, <1>3
  <2>2. PICK x \in Filings :
           /\ filing' = [filing EXCEPT ![r] = x] /\ FilingOK(x) /\ (Uploads(x) => Uploads(q))
           /\ x # Files!NoFiling /\ x.file = q.file /\ x.todo = q.todo /\ x.got = q.got
           /\ <<phase, x.plan[1]>> \in PhaseOrder /\ Len(x.plan) = Len(q.plan) - 1
           /\ (Uploads(q) => Uploads(x)) /\ Len(q.plan) > 1
    BY <1>3, <2>1, FilingGoes
  <2>3. /\ x.plan[1] \in {"cache", "clean", "remove", "list", "purgeAll"}
        /\ x.plan[1] = "cache" => phase \in {"list", "tryList"}
        /\ x.plan[1] = "remove" => phase \in {"clean", "listAll"}
    BY <2>2 DEF PhaseOrder
  <2>4. PhaseShows(x, cached', device')
    BY <1>3, <2>2, <2>3 DEF PhaseShows
  <2>5. Len(q.plan) \in Nat /\ (phase = "listAll" => Len(q.plan) = 3)
    BY <2>1, PlanGoes
  <2>6. x.plan[1] = "remove" /\ Len(x.plan) > 2 => phase = "clean"
    <3>1. \A n \in Nat : n = 3 => ~(n - 1 > 2)
      OBVIOUS
    <3> QED BY <2>2, <2>3, <2>5, <3>1
  <2>7. ASSUME "upload" \notin filesTrouble'
        PROVE  /\ Uploads(x) => Uploads(filing[r])
               /\ \A f \in GcodeFiles : device'[f] = "fresh" => device[f] = "fresh"
               /\ OldIsOld(cached', device') \/ (Uploads(x) /\ Len(x.plan) <= 2)
               /\ x.plan[1] = "cache" => OldIsOld(x.got, device')
               /\ x.plan[1] = "remove" /\ Len(x.plan) > 2 => \A f \in x.todo : device'[f] # "fresh"
    <3>1. Uploads(x) => Uploads(filing[r])
      BY <1>3, <2>2
    <3>2. OldIsOld(cached', device') \/ (Uploads(x) /\ Len(x.plan) <= 2)
      BY <1>3, <2>1, <2>2, <2>5, <2>7
    <3>3. x.plan[1] = "cache" => OldIsOld(x.got, device')
      BY <1>3, <2>2, <2>3 DEF OldIsOld
    <3>4. x.plan[1] = "remove" /\ Len(x.plan) > 2 => \A f \in x.todo : device'[f] # "fresh"
      BY <1>3, <2>2, <2>6, <2>7
    <3> QED BY <1>3, <3>1, <3>2, <3>3, <3>4
  <2> QED BY <1>0, <1>3, <2>1, <2>2, <2>4, <2>7, OneGoes
\* A request ends early.
<1>4. ASSUME NEW r \in FileRequests, filing[r] # Files!NoFiling, Files!Ends(r), UNCHANGED <<device, cached>>,
             filesTrouble \subseteq filesTrouble', filesTrouble' = {} => cached \in {Files!NoList, device},
             "upload" \notin filesTrouble' => OldIsOld(cached, device)
      PROVE  FilesInv'
  <2>1. filing' = [filing EXCEPT ![r] = Files!NoFiling]
    BY <1>4 DEF Files!Ends
  <2>2. filesTrouble' = {} => PhaseShows(Files!NoFiling, cached', device')
    BY <1>4 DEF PhaseShows
  <2> QED BY <1>0, <1>4, <2>1, <2>2, OneGoes
<1>5. ASSUME NEW r \in FileRequests, Files!ListDevice(r) PROVE FilesInv'
  <2>1. PICK phase \in {"list", "tryList"} : Files!At(r, phase)
    BY <1>5 DEF Files!ListDevice
  <2>2. PICK q : q = [filing[r] EXCEPT !.got = device]
    OBVIOUS
  <2>3. filing[r] \in Filings
    BY <1>1, <2>1
  <2>4. q \in Filings /\ q.plan = filing[r].plan /\ q.file = filing[r].file /\ q.got = device
    BY <1>0, <2>2, <2>3 DEF Filings
  <2>5. FilingOK(q) /\ (Uploads(q) <=> Uploads(filing[r]))
    BY <1>2, <2>1, <2>4
  <2>6. Files!Goes(r, q) /\ UNCHANGED <<device, cached, filesTrouble>>
    BY <1>5, <2>2 DEF Files!ListDevice
  <2> QED BY <1>3, <2>1, <2>4, <2>5, <2>6
<1>6. ASSUME NEW r \in FileRequests, NEW todo \in SUBSET GcodeFiles, NEW phase \in {"clean", "listAll"}, Files!At(r, phase),
             Files!Goes(r, [filing[r] EXCEPT !.todo = todo]), UNCHANGED <<device, cached, filesTrouble>>,
             phase = "clean" /\ "upload" \notin filesTrouble => \A f \in todo : device[f] # "fresh"
      PROVE  FilesInv'
  <2>1. PICK q : q = [filing[r] EXCEPT !.todo = todo]
    OBVIOUS
  <2>2. filing[r] \in Filings
    BY <1>1, <1>6
  <2>3. q \in Filings /\ q.plan = filing[r].plan /\ q.file = filing[r].file /\ q.todo = todo
    BY <2>1, <2>2 DEF Filings
  <2>4. FilingOK(q) /\ (Uploads(q) <=> Uploads(filing[r]))
    BY <1>2, <1>6, <2>3
  <2>5. Files!Goes(r, q)
    BY <1>6, <2>1
  <2> QED BY <1>3, <1>6, <2>3, <2>4, <2>5
<1>7. ASSUME NEW r \in FileRequests, Files!CleanOutdated(r) \/ Files!ListAll(r) PROVE FilesInv'
  <2>1. Files!Outdated \in SUBSET GcodeFiles /\ Files!On(device) \in SUBSET GcodeFiles
    BY <1>0 DEF Files!Outdated, Files!On, Files!Listings, Files!NoList
  <2>2. ASSUME Files!At(r, "clean"), "upload" \notin filesTrouble
        PROVE  \A f \in Files!Outdated : device[f] # "fresh"
    <3>1. Planned(filing[r].plan) /\ filing[r].plan[1] = "clean"
          /\ (OldIsOld(cached, device) \/ (Uploads(filing[r]) /\ Len(filing[r].plan) <= 2))
      BY <1>1, <2>2
    <3>2. Len(filing[r].plan) \in Nat /\ Len(filing[r].plan) > 2
      BY <3>1, PlanGoes
    <3>3. OldIsOld(cached, device)
      BY <3>1, <3>2
    <3> QED BY <3>3 DEF OldIsOld, Files!Outdated, Files!On
  <2> QED BY <1>6, <1>7, <2>1, <2>2 DEF Files!CleanOutdated, Files!ListAll
<1>8. ASSUME NEW r \in FileRequests, Files!CheckOutdated(r) PROVE FilesInv'
  <2>1. Files!At(r, "check") /\ UNCHANGED <<device, cached, filesTrouble>> /\ (Files!Ends(r) \/ Files!Goes(r, filing[r]))
    BY <1>8 DEF Files!CheckOutdated
  <2>2. /\ filing[r] # Files!NoFiling /\ filing[r] \in Filings /\ FilingOK(filing[r])
        /\ Planned(filing[r].plan) /\ filing[r].plan[1] = "check"
        /\ filesTrouble = {} => PhaseShows(filing[r], cached, device)
        /\ "upload" \notin filesTrouble => OldIsOld(cached, device) \/ (Uploads(filing[r]) /\ Len(filing[r].plan) <= 2)
    BY <1>1, <2>1
  <2>3. Len(filing[r].plan) \in Nat /\ Len(filing[r].plan) > 2
    BY <2>2, PlanGoes
  <2>4. filesTrouble = {} => cached \in {Files!NoList, device}
    BY <2>2 DEF PhaseShows
  <2>5. "upload" \notin filesTrouble => OldIsOld(cached, device)
    BY <2>2, <2>3
  <2>6. CASE Files!Ends(r)
    BY <1>4, <2>1, <2>2, <2>4, <2>5, <2>6
  <2>7. CASE Files!Goes(r, filing[r])
    BY <1>3, <2>1, <2>2, <2>7
  <2> QED BY <2>1, <2>6, <2>7
<1>9. ASSUME NEW r \in FileRequests, Files!RemoveEnds(r) PROVE FilesInv'
  <2>1. filing[r] \in Filings /\ FilingOK(filing[r]) /\ Files!At(r, "remove")
    BY <1>1, <1>9 DEF Files!RemoveEnds
  <2> QED BY <1>3, <1>9, <2>1 DEF Files!RemoveEnds
<1>10. ASSUME NEW r \in FileRequests, Files!DeviceRefuses(r) PROVE FilesInv'
  <2>1. PICK phase \in {"delete", "upload"} : Files!At(r, phase)
    BY <1>10 DEF Files!DeviceRefuses
  <2>2. /\ filing[r] # Files!NoFiling /\ Planned(filing[r].plan) /\ filing[r].plan[1] = phase
        /\ filesTrouble = {} => PhaseShows(filing[r], cached, device)
        /\ "upload" \notin filesTrouble => OldIsOld(cached, device) \/ (Uploads(filing[r]) /\ Len(filing[r].plan) <= 2)
    BY <1>1, <2>1
  <2>3. Len(filing[r].plan) \in Nat /\ (phase = "upload" => Len(filing[r].plan) = 3) /\ (phase = "delete" => ~Uploads(filing[r]))
    BY <2>2, PlanGoes DEF Uploads
  <2>4. filesTrouble = {} => cached \in {Files!NoList, device}
    BY <2>2 DEF PhaseShows
  <2>5. "upload" \notin filesTrouble => OldIsOld(cached, device)
    BY <2>1, <2>2, <2>3
  <2> QED BY <1>4, <1>10, <2>2, <2>4, <2>5 DEF Files!DeviceRefuses
<1>11. ASSUME NEW r \in FileRequests, Files!ListFails(r) PROVE FilesInv'
  <2>1. PICK phase \in {"list", "tryList", "listAll"} : Files!At(r, phase)
    BY <1>11 DEF Files!ListFails
  <2>2. /\ filing[r] # Files!NoFiling /\ Planned(filing[r].plan) /\ filing[r].plan[1] = phase
        /\ filing[r] \in Filings /\ FilingOK(filing[r]) /\ filing[r].plan # <<>>
        /\ "upload" \notin filesTrouble => OldIsOld(cached, device) \/ (Uploads(filing[r]) /\ Len(filing[r].plan) <= 2)
    BY <1>1, <2>1
  <2>3. /\ UNCHANGED <<device, cached>> /\ filesTrouble \subseteq filesTrouble' /\ "other" \in filesTrouble'
        /\ "upload" \notin filesTrouble' => ~(Uploads(filing[r]) /\ Len(filing[r].plan) = 2)
    BY <1>11 DEF Files!ListFails, Files!Uploading, Uploads
  <2>4. Len(filing[r].plan) \in Nat /\ (Len(filing[r].plan) = 1 \/ Len(filing[r].plan) > 1) /\ Len(filing[r].plan) # 1
    BY <2>1, <2>2, PlanGoes
  <2>5. "upload" \notin filesTrouble' => OldIsOld(cached, device)
    <3>1. \A n \in Nat : n > 1 /\ n <= 2 => n = 2
      OBVIOUS
    <3> QED BY <2>2, <2>3, <2>4, <3>1
  <2>6. CASE Files!Ends(r)
    BY <1>4, <2>2, <2>3, <2>5, <2>6
  <2>7. CASE Files!At(r, "tryList") /\ Len(filing[r].plan) > 2 /\ Files!Goes(r, [filing[r] EXCEPT !.plan = Tail(filing[r].plan)])
    <3>1. PICK q : q = [filing[r] EXCEPT !.plan = Tail(filing[r].plan)]
      OBVIOUS
    <3>2. /\ q \in Filings /\ FilingOK(q) /\ q # Files!NoFiling /\ q.plan # <<>>
          /\ <<"tryList", q.plan[1]>> \in PhaseOrder /\ Len(q.plan) = Len(filing[r].plan) - 1
          /\ Uploads(q) <=> Uploads(filing[r])
      BY <2>2, <2>4, <2>7, <3>1, PhaseOver DEF Files!At
    <3>3. q.plan[1] = "cache" /\ Len(q.plan) > 1
      BY <2>4, <2>7, <3>2 DEF PhaseOrder
    <3>4. Files!Goes(r, q)
      BY <2>7, <3>1
    <3>5. Len(q.plan) # 1
      <4>1. \A n \in Nat : n > 2 => n - 1 # 1
        OBVIOUS
      <4> QED BY <2>4, <2>7, <3>2, <4>1
    <3>6. PICK x \in Filings :
             /\ filing' = [filing EXCEPT ![r] = x] /\ FilingOK(x) /\ (Uploads(x) => Uploads(q))
             /\ x # Files!NoFiling /\ <<"cache", x.plan[1]>> \in PhaseOrder
      BY <3>2, <3>3, <3>4, <3>5, FilingGoes
    <3>7. x.plan[1] \in {"check", "upload"}
      BY <3>6 DEF PhaseOrder
    <3> QED BY <1>0, <2>2, <2>3, <2>5, <3>2, <3>6, <3>7, OneGoes
  <2> QED BY <1>11, <2>6, <2>7 DEF Files!ListFails
<1>12. ASSUME NEW r \in FileRequests, Files!CacheFiles(r) PROVE FilesInv'
  <2>1. Files!At(r, "cache") /\ cached' = filing[r].got /\ Files!Goes(r, filing[r]) /\ UNCHANGED <<device, filesTrouble>>
    BY <1>12 DEF Files!CacheFiles
  <2>2. /\ filing[r] # Files!NoFiling /\ filing[r] \in Filings /\ FilingOK(filing[r]) /\ filing[r].plan # <<>>
        /\ filing[r].plan[1] = "cache" /\ (filesTrouble = {} => PhaseShows(filing[r], cached, device))
    BY <1>1, <2>1
  <2>3. filesTrouble = {} => filing[r].got = device
    BY <2>2 DEF PhaseShows
  <2>4. "upload" \notin filesTrouble => OldIsOld(filing[r].got, device)
    BY <2>2 DEF FilesInv
  <2>5. PICK x \in Filings :
           /\ filing' = [filing EXCEPT ![r] = x] /\ FilingOK(x) /\ (Uploads(x) => Uploads(filing[r]))
           /\ x = Files!NoFiling \/ <<"cache", x.plan[1]>> \in PhaseOrder
    <3>1. PICK x \in Filings :
             /\ filing' = [filing EXCEPT ![r] = x] /\ FilingOK(x) /\ (Uploads(x) => Uploads(filing[r]))
             /\ x = Files!NoFiling \/ <<filing[r].plan[1], x.plan[1]>> \in PhaseOrder
      BY <2>1, <2>2, FilingGoes
    <3> QED BY <2>2, <3>1
  <2>6. x = Files!NoFiling \/ x.plan[1] \in {"check", "upload"}
    BY <2>5 DEF PhaseOrder
  <2>7. cached' \in Files!Listings \cup {Files!NoList}
    BY <2>1, <2>2 DEF Filings
  <2>8. filesTrouble' = {} => PhaseShows(x, cached', device')
    BY <2>1, <2>3, <2>6 DEF PhaseShows
  <2>9. "upload" \notin filesTrouble' => OldIsOld(cached', device')
    BY <2>1, <2>4
  <2> QED BY <1>0, <2>1, <2>2, <2>5, <2>6, <2>7, <2>8, <2>9, OneGoes
\* Files go from the printer.
<1>13. ASSUME \A f \in GcodeFiles : device'[f] = "fresh" => device[f] = "fresh"
       PROVE  OldIsOld(cached, device) => OldIsOld(cached, device')
  <2>1. DOMAIN cached \subseteq GcodeFiles
    BY <1>0 DEF Files!Listings, Files!NoList
  <2> QED BY <1>13, <2>1 DEF OldIsOld
<1>14. ASSUME NEW r \in FileRequests, NEW f \in GcodeFiles, NEW ok \in BOOLEAN, Files!RemoveFile(r, f, ok)
       PROVE  FilesInv'
  <2>1. /\ Files!At(r, "remove") /\ filing' = [filing EXCEPT ![r].todo = @ \ {f}] /\ UNCHANGED <<cached, filesTrouble>>
        /\ device' = IF ok THEN [device EXCEPT ![f] = "none"] ELSE device
    BY <1>14 DEF Files!RemoveFile
  <2>2. filing[r] \in Filings /\ filing[r] # Files!NoFiling /\ filing[r].plan[1] = "remove"
        /\ ("upload" \notin filesTrouble => OldIsOld(cached, device) \/ (Uploads(filing[r]) /\ Len(filing[r].plan) <= 2))
    BY <1>1, <2>1
  <2>3. PICK x : x = [filing[r] EXCEPT !.todo = filing[r].todo \ {f}]
    OBVIOUS
  <2>4. x \in Filings /\ x.plan = filing[r].plan /\ x.file = filing[r].file /\ x.todo = filing[r].todo \ {f}
    BY <2>2, <2>3 DEF Filings
  <2>5. FilingOK(x) /\ x.plan # <<>> /\ (Uploads(x) <=> Uploads(filing[r]))
    BY <1>2, <2>1, <2>4
  <2>6. filing' = [filing EXCEPT ![r] = x]
    BY <2>1, <2>3
  <2>7. device' \in Files!Listings /\ \A g \in GcodeFiles : device'[g] = "fresh" => device[g] = "fresh"
    BY <1>0, <2>1 DEF Files!Listings
  <2>8. x # Files!NoFiling
    BY <2>5 DEF Files!NoFiling
  <2>9. PhaseShows(x, cached', device')
    BY <2>2, <2>4, <2>8 DEF PhaseShows
  <2>10. "upload" \notin filesTrouble' => OldIsOld(cached', device') \/ (Uploads(x) /\ Len(x.plan) <= 2)
    BY <1>13, <2>1, <2>2, <2>4, <2>5, <2>7
  <2>11. "upload" \notin filesTrouble' /\ Len(x.plan) > 2 => \A g \in x.todo : device'[g] # "fresh"
    <3>1. "upload" \notin filesTrouble /\ Len(filing[r].plan) > 2 => \A g \in filing[r].todo : device[g] # "fresh"
      BY <2>2 DEF FilesInv
    <3>2. filing[r].todo \subseteq GcodeFiles
      BY <2>2 DEF Filings
    <3> QED BY <2>1, <2>4, <2>7, <3>1, <3>2
  <2> QED BY <1>0, <2>1, <2>2, <2>4, <2>5, <2>6, <2>7, <2>9, <2>10, <2>11, OneGoes
<1>15. ASSUME NEW r \in FileRequests, Files!DeleteOnDevice(r) PROVE FilesInv'
  <2>1. /\ Files!At(r, "delete") /\ device' = [device EXCEPT ![filing[r].file] = "none"]
        /\ Files!Goes(r, filing[r]) /\ UNCHANGED <<cached, filesTrouble>>
    BY <1>15 DEF Files!DeleteOnDevice
  <2>2. /\ filing[r] \in Filings /\ FilingOK(filing[r]) /\ filing[r] # Files!NoFiling /\ filing[r].plan # <<>> /\ filing[r].plan[1] = "delete"
        /\ ("upload" \notin filesTrouble => OldIsOld(cached, device) \/ (Uploads(filing[r]) /\ Len(filing[r].plan) <= 2))
        /\ (filesTrouble = {} => PhaseShows(filing[r], cached, device))
    BY <1>1, <2>1
  <2>3. PICK x \in Filings :
           /\ filing' = [filing EXCEPT ![r] = x] /\ FilingOK(x) /\ (Uploads(x) => Uploads(filing[r]))
           /\ x # Files!NoFiling /\ x.file = filing[r].file /\ <<"delete", x.plan[1]>> \in PhaseOrder
    BY <2>1, <2>2, FilingGoes
  <2>4. x.plan[1] = "purge" /\ ~Uploads(filing[r])
    BY <2>2, <2>3 DEF PhaseOrder, Uploads
  <2>5. device' \in Files!Listings /\ \A g \in GcodeFiles : device'[g] = "fresh" => device[g] = "fresh"
    BY <1>0, <2>1 DEF Files!Listings
  <2>6. "upload" \notin filesTrouble' => OldIsOld(cached', device')
    BY <1>13, <2>1, <2>2, <2>4, <2>5
  <2>7. filesTrouble' = {} => PhaseShows(x, cached', device')
    BY <1>0, <2>1, <2>2, <2>3, <2>4 DEF PhaseShows
  <2> QED BY <1>0, <2>1, <2>2, <2>3, <2>4, <2>5, <2>6, <2>7, OneGoes
<1>16. ASSUME NEW r \in FileRequests, Files!UploadToDevice(r) PROVE FilesInv'
  <2>1. /\ Files!At(r, "upload") /\ device' = [device EXCEPT ![filing[r].file] = "fresh"]
        /\ Files!Goes(r, filing[r]) /\ UNCHANGED <<cached, filesTrouble>>
    BY <1>16 DEF Files!UploadToDevice
  <2>2. /\ filing[r] \in Filings /\ FilingOK(filing[r]) /\ filing[r] # Files!NoFiling /\ filing[r].plan # <<>> /\ filing[r].plan[1] = "upload"
        /\ Planned(filing[r].plan)
        /\ ("upload" \notin filesTrouble /\ Uploads(filing[r]) => \A o \in FileRequests \ {r} : filing[o] = Files!NoFiling)
    BY <1>1, <2>1
  <2>3. Len(filing[r].plan) = 3 /\ Len(filing[r].plan) \in Nat
    BY <2>2, PlanGoes
  <2>4. PICK x \in Filings :
           /\ filing' = [filing EXCEPT ![r] = x] /\ FilingOK(x) /\ (Uploads(x) => Uploads(filing[r]))
           /\ x # Files!NoFiling /\ <<"upload", x.plan[1]>> \in PhaseOrder /\ Len(x.plan) = Len(filing[r].plan) - 1
           /\ (Uploads(filing[r]) => Uploads(x))
    <3> DEFINE q == filing[r]
    <3>1. Files!Goes(r, q) /\ q \in Filings /\ FilingOK(q) /\ q.plan # <<>> /\ q.plan[1] = "upload"
      BY <2>1, <2>2
    <3> HIDE DEF q
    <3>2. PICK x \in Filings :
             /\ filing' = [filing EXCEPT ![r] = x] /\ FilingOK(x) /\ (Uploads(x) => Uploads(q))
             /\ \/ x = Files!NoFiling /\ q.plan[1] \in {"cache", "purge", "purgeAll"} /\ Len(q.plan) = 1
                \/ /\ x # Files!NoFiling /\ x.file = q.file /\ x.todo = q.todo /\ x.got = q.got
                   /\ <<q.plan[1], x.plan[1]>> \in PhaseOrder /\ Len(x.plan) = Len(q.plan) - 1
                   /\ (Uploads(q) => Uploads(x)) /\ Len(q.plan) > 1
      BY <3>1, FilingGoes
    <3>3. /\ x # Files!NoFiling /\ <<"upload", x.plan[1]>> \in PhaseOrder /\ Len(x.plan) = Len(q.plan) - 1
          /\ (Uploads(q) => Uploads(x)) /\ (Uploads(x) => Uploads(q))
      BY <3>1, <3>2
    <3> QED BY <3>2, <3>3 DEF q
  <2>5. x.plan[1] = "list" /\ Len(x.plan) <= 2
    BY <2>3, <2>4 DEF PhaseOrder
  <2>6. Uploads(filing[r])
    <3>1. 1 \in 1..Len(filing[r].plan)
      BY <2>3
    <3>2. filing[r].file \in GcodeFiles
      BY <2>2, <3>1 DEF FilingOK
    <3>3. filing[r].plan # <<"purge">>
      <4>1. ASSUME NEW t, t = <<"purge">> PROVE t[1] = "purge"
        BY <4>1
      <4> QED BY <2>2, <4>1
    <3> QED BY <2>2, <3>2, <3>3, FilesAreNamed DEF Uploads
  <2>7. device' \in Files!Listings
    BY <1>0, <2>1 DEF Files!Listings
  <2>8. PhaseShows(x, cached', device')
    BY <2>4, <2>5 DEF PhaseShows
  <2> QED BY <1>0, <2>1, <2>2, <2>4, <2>5, <2>6, <2>7, <2>8, OneGoes
<1>17. ASSUME NEW r \in FileRequests, Files!PurgeFile(r) PROVE FilesInv'
  <2>1. /\ Files!At(r, "purge") /\ Files!Goes(r, filing[r]) /\ UNCHANGED <<device, filesTrouble>>
        /\ cached' = IF cached = Files!NoList THEN Files!NoList ELSE [cached EXCEPT ![filing[r].file] = "none"]
    BY <1>17 DEF Files!PurgeFile
  <2>2. /\ filing[r] \in Filings /\ FilingOK(filing[r]) /\ filing[r] # Files!NoFiling /\ filing[r].plan # <<>> /\ filing[r].plan[1] = "purge"
        /\ Planned(filing[r].plan) /\ (filesTrouble = {} => PhaseShows(filing[r], cached, device))
        /\ ("upload" \notin filesTrouble => OldIsOld(cached, device) \/ (Uploads(filing[r]) /\ Len(filing[r].plan) <= 2))
    BY <1>1, <2>1
  <2>3. ~Uploads(filing[r])
    BY <2>2, PlanGoes DEF Uploads
  <2>4. filing' = [filing EXCEPT ![r] = Files!NoFiling]
    <3>1. PICK x \in Filings : filing' = [filing EXCEPT ![r] = x] /\ (x = Files!NoFiling \/ <<"purge", x.plan[1]>> \in PhaseOrder)
      BY <2>1, <2>2, FilingGoes
    <3> QED BY <3>1 DEF PhaseOrder
  <2>5. cached' \in Files!Listings \cup {Files!NoList}
    BY <1>0, <2>1 DEF Files!Listings
  <2>6. "upload" \notin filesTrouble => OldIsOld(cached', device)
    BY <1>0, <2>1, <2>2, <2>3 DEF OldIsOld, Files!Listings, Files!NoList
  <2>7. filesTrouble = {} => cached' \in {Files!NoList, device}
    BY <2>1, <2>2 DEF PhaseShows
  <2>8. filesTrouble = {} => PhaseShows(Files!NoFiling, cached', device')
    BY <2>1, <2>7 DEF PhaseShows
  <2> QED BY <1>0, <2>1, <2>2, <2>4, <2>5, <2>6, <2>8, OneGoes
<1>18. ASSUME NEW r \in FileRequests, Files!PurgePrinterFiles(r) PROVE FilesInv'
  <2>1. Files!At(r, "purgeAll") /\ Files!Goes(r, filing[r]) /\ cached' = Files!NoList /\ UNCHANGED <<device, filesTrouble>>
    BY <1>18 DEF Files!PurgePrinterFiles
  <2>2. /\ filing[r] \in Filings /\ FilingOK(filing[r]) /\ filing[r] # Files!NoFiling /\ filing[r].plan # <<>> /\ filing[r].plan[1] = "purgeAll"
    BY <1>1, <2>1
  <2>3. filing' = [filing EXCEPT ![r] = Files!NoFiling]
    <3>1. PICK x \in Filings : filing' = [filing EXCEPT ![r] = x] /\ (x = Files!NoFiling \/ <<"purgeAll", x.plan[1]>> \in PhaseOrder)
      BY <2>1, <2>2, FilingGoes
    <3> QED BY <3>1 DEF PhaseOrder
  <2>4. OldIsOld(cached', device')
    BY <2>1 DEF OldIsOld, Files!NoList
  <2>5. PhaseShows(Files!NoFiling, cached', device')
    BY <2>1 DEF PhaseShows
  <2> QED BY <1>0, <2>1, <2>2, <2>3, <2>4, <2>5, OneGoes
<1>19. ASSUME Files!PurgeFiles PROVE FilesInv'
  <2>1. cached' = Files!NoList /\ UNCHANGED <<device, filing, filesTrouble>>
    BY <1>19 DEF Files!PurgeFiles
  <2>2. OldIsOld(Files!NoList, device)
    BY DEF OldIsOld, Files!NoList
  <2>3. ASSUME NEW x, PhaseShows(x, cached, device) PROVE PhaseShows(x, Files!NoList, device)
    BY <2>3 DEF PhaseShows
  <2>4. filing' = filing /\ device' = device /\ filesTrouble' = filesTrouble
    BY <2>1
  <2>5. /\ device \in Files!Listings /\ Files!NoList \in Files!Listings \cup {Files!NoList}
        /\ filing \in [FileRequests -> Filings] /\ \A r \in FileRequests : FilingOK(filing[r])
    BY DEF FilesInv
  <2>6. filesTrouble = {} =>
          /\ \A r, o \in FileRequests : filing[r] # Files!NoFiling /\ filing[o] # Files!NoFiling => r = o
          /\ \A r \in FileRequests : filing[r] # Files!NoFiling => PhaseShows(filing[r], Files!NoList, device)
    BY <2>3 DEF FilesInv
  <2>7. "upload" \notin filesTrouble =>
          /\ \A r, o \in FileRequests : Uploads(filing[r]) /\ filing[o] # Files!NoFiling => r = o
          /\ \A r \in FileRequests : filing[r] # Files!NoFiling /\ filing[r].plan[1] = "cache" => OldIsOld(filing[r].got, device)
          /\ \A r \in FileRequests :
               filing[r] # Files!NoFiling /\ filing[r].plan[1] = "remove" /\ Len(filing[r].plan) > 2 =>
                 \A f \in filing[r].todo : device[f] # "fresh"
    BY DEF FilesInv
  <2> QED BY <2>1, <2>2, <2>4, <2>5, <2>6, <2>7 DEF FilesInv
<1>20. ASSUME NEW f \in GcodeFiles, NEW age \in {"none", "fresh"}, Files!ByHand(f, age) PROVE FilesInv'
  <2>1. /\ device' = [device EXCEPT ![f] = age] /\ UNCHANGED <<cached, filing>>
        /\ "other" \in filesTrouble' /\ filesTrouble \subseteq filesTrouble' /\ ("upload" \notin filesTrouble' => age = "none")
    BY <1>20 DEF Files!ByHand
  <2>2. device' \in Files!Listings /\ ("upload" \notin filesTrouble' => \A g \in GcodeFiles : device'[g] = "fresh" => device[g] = "fresh")
    BY <1>0, <2>1 DEF Files!Listings
  <2>3. ASSUME "upload" \notin filesTrouble'
        PROVE  /\ \A r, o \in FileRequests : Uploads(filing[r]) /\ filing[o] # Files!NoFiling => r = o
               /\ OldIsOld(cached, device') \/ \E r \in FileRequests : Uploads(filing[r]) /\ Len(filing[r].plan) <= 2
               /\ \A r \in FileRequests : filing[r] # Files!NoFiling /\ filing[r].plan[1] = "cache" => OldIsOld(filing[r].got, device')
               /\ \A r \in FileRequests :
                    filing[r] # Files!NoFiling /\ filing[r].plan[1] = "remove" /\ Len(filing[r].plan) > 2 =>
                      \A g \in filing[r].todo : device'[g] # "fresh"
    <3>1. "upload" \notin filesTrouble /\ \A g \in GcodeFiles : device'[g] = "fresh" => device[g] = "fresh"
      BY <2>1, <2>2, <2>3
    <3>2. OldIsOld(cached, device') \/ \E r \in FileRequests : Uploads(filing[r]) /\ Len(filing[r].plan) <= 2
      BY <1>13, <3>1 DEF FilesInv
    <3>3. \A r, o \in FileRequests : Uploads(filing[r]) /\ filing[o] # Files!NoFiling => r = o
      BY <3>1 DEF FilesInv
    <3>4. ASSUME NEW r \in FileRequests, filing[r] # Files!NoFiling
          PROVE  /\ filing[r].plan[1] = "cache" => OldIsOld(filing[r].got, device')
                 /\ filing[r].plan[1] = "remove" /\ Len(filing[r].plan) > 2 => \A g \in filing[r].todo : device'[g] # "fresh"
      <4>1. filing[r].todo \subseteq GcodeFiles /\ filing[r].got \in Files!Listings \cup {Files!NoList}
        BY DEF FilesInv, Filings
      <4>2. DOMAIN filing[r].got \subseteq GcodeFiles
        BY <4>1 DEF Files!Listings, Files!NoList
      <4>3. /\ filing[r].plan[1] = "cache" => OldIsOld(filing[r].got, device)
            /\ filing[r].plan[1] = "remove" /\ Len(filing[r].plan) > 2 => \A g \in filing[r].todo : device[g] # "fresh"
        BY <3>1, <3>4 DEF FilesInv
      <4>4. OldIsOld(filing[r].got, device) => OldIsOld(filing[r].got, device')
        BY <3>1, <4>2 DEF OldIsOld
      <4> QED BY <3>1, <4>1, <4>3, <4>4
    <3> QED BY <3>2, <3>3, <3>4
  <2>4. filesTrouble' # {} /\ cached' = cached /\ filing' = filing
    BY <2>1
  <2>5. /\ cached \in Files!Listings \cup {Files!NoList}
        /\ filing \in [FileRequests -> Filings] /\ \A r \in FileRequests : FilingOK(filing[r])
    BY DEF FilesInv
  <2> QED BY <2>2, <2>3, <2>4, <2>5 DEF FilesInv
<1>21. ASSUME Files!FilesRestart PROVE FilesInv'
  <2>1. /\ cached' = Files!NoList /\ filing' = [r \in FileRequests |-> Files!NoFiling] /\ filesTrouble' = {} /\ device' = device
    BY <1>21 DEF Files!FilesRestart
  <2>2. OldIsOld(cached', device')
    BY <2>1 DEF OldIsOld, Files!NoList
  <2>3. filing' \in [FileRequests -> Filings] /\ \A r \in FileRequests : filing'[r] = Files!NoFiling
    BY <1>0, <2>1
  <2> QED BY <1>0, <2>1, <2>2, <2>3 DEF FilesInv
<1>22. ASSUME Files!Age PROVE FilesInv'
  <2>1. /\ device' = Files!Aged(device) /\ cached' = Files!Aged(cached) /\ filesTrouble' = filesTrouble
        /\ filing' = [r \in FileRequests |-> [filing[r] EXCEPT !.got = Files!Aged(filing[r].got)]]
    BY <1>22 DEF Files!Age
  <2>2. /\ \A l \in Files!Listings : Files!Aged(l) \in Files!Listings /\ \A f \in GcodeFiles : Files!Aged(l)[f] # "fresh"
        /\ Files!Aged(Files!NoList) = Files!NoList
    BY DEF Files!Aged, Files!Listings, Files!NoList
  <2>3. ASSUME NEW r \in FileRequests
        PROVE  /\ filing'[r] \in Filings /\ filing'[r].plan = filing[r].plan /\ filing'[r].file = filing[r].file
               /\ filing'[r].todo = filing[r].todo /\ filing'[r].got = Files!Aged(filing[r].got)
               /\ filing[r] = Files!NoFiling <=> filing'[r] = Files!NoFiling
               /\ FilingOK(filing'[r]) /\ (Uploads(filing'[r]) <=> Uploads(filing[r]))
    <3>1. filing[r] \in Filings /\ FilingOK(filing[r])
      BY DEF FilesInv
    <3>2. PICK a \in Files!Listings \cup {Files!NoList} : a = Files!Aged(filing[r].got)
      BY <2>2, <3>1 DEF Filings
    <3>3. filing'[r] = [filing[r] EXCEPT !.got = a]
      BY <2>1, <3>2
    <3>4. /\ filing'[r] \in Filings /\ filing'[r].plan = filing[r].plan /\ filing'[r].file = filing[r].file
          /\ filing'[r].todo = filing[r].todo /\ filing'[r].got = a
      BY <3>1, <3>2, <3>3 DEF Filings
    <3>5. ASSUME filing[r] = Files!NoFiling PROVE filing'[r] = Files!NoFiling
      <4>1. a = Files!NoList
        BY <2>2, <3>2, <3>5 DEF Files!NoFiling
      <4>2. PICK l : l = Files!NoList
        OBVIOUS
      <4>3. Files!NoFiling = [plan |-> <<>>, file |-> "none", todo |-> {}, got |-> l]
        BY <4>2 DEF Files!NoFiling
      <4>4. [Files!NoFiling EXCEPT !.got = l] = Files!NoFiling
        BY <4>3
      <4> QED BY <3>3, <3>5, <4>1, <4>2, <4>4
    <3>6. ASSUME filing'[r] = Files!NoFiling PROVE filing[r] = Files!NoFiling
      <4>1. filing[r].plan = <<>>
        BY <3>4, <3>6 DEF Files!NoFiling
      <4> QED BY <3>1, <4>1 DEF FilingOK, Planned
    <3>7. FilingOK(filing'[r]) /\ (Uploads(filing'[r]) <=> Uploads(filing[r]))
      BY <3>1, <3>4, <3>5 DEF FilingOK, Uploads
    <3> QED BY <3>2, <3>4, <3>5, <3>6, <3>7
  <2>4. /\ device' \in Files!Listings /\ cached' \in Files!Listings \cup {Files!NoList}
        /\ \A f \in GcodeFiles : device'[f] # "fresh"
    BY <1>0, <2>1, <2>2
  <2>5. \A l \in Files!Listings \cup {Files!NoList} : OldIsOld(l, device')
    BY <2>4 DEF OldIsOld, Files!Listings, Files!NoList
  <2>6. cached \in {Files!NoList, device} => cached' \in {Files!NoList, device'}
    BY <2>1, <2>2
  <2>7. ASSUME NEW r \in FileRequests, filing[r] # Files!NoFiling, PhaseShows(filing[r], cached, device)
        PROVE  PhaseShows(filing'[r], cached', device')
    <3>1. /\ filing'[r].plan = filing[r].plan /\ filing'[r].file = filing[r].file /\ filing'[r] # Files!NoFiling
          /\ filing'[r].got = Files!Aged(filing[r].got)
      BY <2>3, <2>7
    <3>2. filing[r].plan[1] \in {"check", "upload", "delete"} => cached' \in {Files!NoList, device'}
      BY <2>6, <2>7 DEF PhaseShows
    <3>3. filing[r].plan[1] = "cache" => filing'[r].got = device'
      BY <2>1, <2>7, <3>1 DEF PhaseShows
    <3>4. ASSUME filing[r].plan[1] = "purge"
          PROVE  cached' = Files!NoList \/ (cached' \in Files!Listings /\ device' = [cached' EXCEPT ![filing[r].file] = "none"])
      <4>1. cached = Files!NoList \/ (cached \in Files!Listings /\ device = [cached EXCEPT ![filing[r].file] = "none"])
        BY <2>7, <3>4 DEF PhaseShows
      <4>2. ASSUME cached \in Files!Listings, device = [cached EXCEPT ![filing[r].file] = "none"]
            PROVE  Files!Aged(device) = [Files!Aged(cached) EXCEPT ![filing[r].file] = "none"]
        BY <4>2 DEF Files!Aged, Files!Listings
      <4> QED BY <2>1, <2>2, <4>1, <4>2
    <3>5. filing[r].plan # <<>>
      BY <2>7 DEF FilesInv, FilingOK, Planned
    <3> QED BY <3>1, <3>2, <3>3, <3>4 DEF PhaseShows
  <2>8. filing' \in [FileRequests -> Filings] /\ \A r \in FileRequests : FilingOK(filing'[r])
    <3>1. DOMAIN filing' = FileRequests /\ filing' = [r \in FileRequests |-> filing'[r]]
      BY <2>1
    <3> QED BY <2>3, <3>1
  <2>9. filesTrouble' = {} =>
          /\ \A r, o \in FileRequests : filing'[r] # Files!NoFiling /\ filing'[o] # Files!NoFiling => r = o
          /\ (\A r \in FileRequests : filing'[r] = Files!NoFiling) => cached' \in {Files!NoList, device'}
          /\ \A r \in FileRequests : filing'[r] # Files!NoFiling => PhaseShows(filing'[r], cached', device')
    <3> SUFFICES ASSUME filesTrouble = {}
                 PROVE  /\ \A r, o \in FileRequests : filing'[r] # Files!NoFiling /\ filing'[o] # Files!NoFiling => r = o
                        /\ (\A r \in FileRequests : filing'[r] = Files!NoFiling) => cached' \in {Files!NoList, device'}
                        /\ \A r \in FileRequests : filing'[r] # Files!NoFiling => PhaseShows(filing'[r], cached', device')
      BY <2>1
    <3>1. \A r \in FileRequests : filing'[r] = Files!NoFiling <=> filing[r] = Files!NoFiling
      BY <2>3
    <3>2. /\ \A r, o \in FileRequests : filing[r] # Files!NoFiling /\ filing[o] # Files!NoFiling => r = o
          /\ (\A r \in FileRequests : filing[r] = Files!NoFiling) => cached \in {Files!NoList, device}
          /\ \A r \in FileRequests : filing[r] # Files!NoFiling => PhaseShows(filing[r], cached, device)
      BY DEF FilesInv
    <3> QED BY <2>6, <2>7, <3>1, <3>2
  <2>10. "upload" \notin filesTrouble' =>
          /\ \A r, o \in FileRequests : Uploads(filing'[r]) /\ filing'[o] # Files!NoFiling => r = o
          /\ OldIsOld(cached', device')
          /\ \A r \in FileRequests : filing'[r] # Files!NoFiling /\ filing'[r].plan[1] = "cache" => OldIsOld(filing'[r].got, device')
          /\ \A r \in FileRequests :
               filing'[r] # Files!NoFiling /\ filing'[r].plan[1] = "remove" /\ Len(filing'[r].plan) > 2 =>
                 \A f \in filing'[r].todo : device'[f] # "fresh"
    <3>1. "upload" \notin filesTrouble' => \A r, o \in FileRequests : Uploads(filing'[r]) /\ filing'[o] # Files!NoFiling => r = o
      BY <2>1, <2>3 DEF FilesInv
    <3>2. \A r \in FileRequests : filing'[r].todo \subseteq GcodeFiles /\ filing'[r].got \in Files!Listings \cup {Files!NoList}
      BY <2>3 DEF Filings
    <3> QED BY <2>4, <2>5, <3>1, <3>2
  <2> QED BY <2>4, <2>8, <2>9, <2>10 DEF FilesInv
\* A request starts.
<1>23. ASSUME NEW r \in FileRequests, NEW plan, NEW file \in GcodeFiles \cup {"none"}, NEW kind,
              Files!StartFiling(r, plan, file, kind), Planned(plan), plan[1] \in Phases \ {"cache", "purge", "remove"},
              file \in GcodeFiles \/ \A i \in 1..Len(plan) : plan[i] \notin {"upload", "purge"},
              file \in GcodeFiles /\ plan[1] # "delete" => kind = "upload"
       PROVE  FilesInv'
  <2>1. PICK x : x = [Files!NoFiling EXCEPT !.plan = plan, !.file = file]
    OBVIOUS
  <2>2. /\ x \in Filings /\ x.plan = plan /\ x.file = file /\ x.plan # <<>>
    <3>1. plan \in Seq(Phases) /\ plan # <<>>
      BY <1>23 DEF Planned
    <3> QED BY <1>23, <2>1, <3>1 DEF Filings, Files!NoFiling
  <2>3. FilingOK(x) /\ x # Files!NoFiling
    BY <1>23, <2>2 DEF FilingOK, Files!NoFiling
  <2>4. Uploads(x) => kind = "upload"
    BY <1>23, <2>2, FilesAreNamed DEF Uploads
  <2>5. filing' = [filing EXCEPT ![r] = x] /\ filing[r] = Files!NoFiling /\ UNCHANGED <<device, cached>>
    BY <1>23, <2>1 DEF Files!StartFiling
  <2>6. filing' \in [FileRequests -> Filings] /\ \A o \in FileRequests : filing'[o] = IF o = r THEN x ELSE filing[o]
    BY <2>2, <2>5 DEF FilesInv
  <2>7. ASSUME filesTrouble' = {}
        PROVE  filesTrouble = {} /\ \A o \in FileRequests : filing[o] = Files!NoFiling
    BY <1>23, <2>7 DEF Files!StartFiling
  <2>8. ASSUME "upload" \notin filesTrouble'
        PROVE  /\ "upload" \notin filesTrouble
               /\ \A o, s \in FileRequests : Uploads(filing'[o]) /\ filing'[s] # Files!NoFiling => o = s
    <3>1. /\ "upload" \notin filesTrouble
          /\ \A o \in FileRequests : filing[o] # Files!NoFiling => kind # "upload" /\ ~Uploads(filing[o])
      BY <1>23, <2>8 DEF Files!StartFiling, Files!Uploading, Uploads
    <3>2. ~Uploads(Files!NoFiling)
      BY <1>0
    <3> QED BY <2>4, <2>5, <2>6, <3>1, <3>2
  <2>9. ASSUME filesTrouble' = {}
        PROVE  /\ \A o, s \in FileRequests : filing'[o] # Files!NoFiling /\ filing'[s] # Files!NoFiling => o = s
               /\ (\A o \in FileRequests : filing'[o] = Files!NoFiling) => cached' \in {Files!NoList, device'}
               /\ \A o \in FileRequests : filing'[o] # Files!NoFiling => PhaseShows(filing'[o], cached', device')
    <3>1. cached \in {Files!NoList, device}
      BY <2>7, <2>9 DEF FilesInv
    <3>2. PhaseShows(x, cached', device')
      BY <1>23, <2>2, <2>5, <3>1 DEF PhaseShows
    <3> QED BY <2>5, <2>6, <2>7, <2>9, <3>1, <3>2
  <2>10. ASSUME "upload" \notin filesTrouble'
         PROVE  /\ OldIsOld(cached', device') \/ \E o \in FileRequests : Uploads(filing'[o]) /\ Len(filing'[o].plan) <= 2
                /\ \A o \in FileRequests : filing'[o] # Files!NoFiling /\ filing'[o].plan[1] = "cache" => OldIsOld(filing'[o].got, device')
                /\ \A o \in FileRequests :
                     filing'[o] # Files!NoFiling /\ filing'[o].plan[1] = "remove" /\ Len(filing'[o].plan) > 2 =>
                       \A f \in filing'[o].todo : device'[f] # "fresh"
    <3>1. "upload" \notin filesTrouble
      BY <2>8, <2>10
    <3>2. OldIsOld(cached, device) \/ \E o \in FileRequests \ {r} : Uploads(filing[o]) /\ Len(filing[o].plan) <= 2
      BY <1>0, <2>5, <3>1 DEF FilesInv
    <3>3. x.plan[1] # "cache" /\ x.plan[1] # "remove"
      BY <1>23, <2>2
    <3>4. OldIsOld(cached', device') \/ \E o \in FileRequests : Uploads(filing'[o]) /\ Len(filing'[o].plan) <= 2
      BY <2>5, <2>6, <3>2
    <3>5. ASSUME NEW o \in FileRequests, o # r, filing[o] # Files!NoFiling
          PROVE  /\ filing[o].plan[1] = "cache" => OldIsOld(filing[o].got, device)
                 /\ filing[o].plan[1] = "remove" /\ Len(filing[o].plan) > 2 => \A f \in filing[o].todo : device[f] # "fresh"
      BY <3>1, <3>5 DEF FilesInv
    <3> QED BY <2>5, <2>6, <3>3, <3>4, <3>5
  <2>11. device' \in Files!Listings /\ cached' \in Files!Listings \cup {Files!NoList} /\ \A o \in FileRequests : FilingOK(filing'[o])
    BY <1>0, <2>3, <2>5, <2>6 DEF FilesInv
  <2> QED BY <2>6, <2>8, <2>9, <2>10, <2>11 DEF FilesInv
\* The plans of the requests.
<1>24. Planned(<<"list", "cache">>) /\ \A i \in 1..Len(<<"list", "cache">>) : <<"list", "cache">>[i] \notin {"upload", "purge"}
  <2> DEFINE p == <<"list", "cache">>
  <2>1. p \in Seq(Phases) /\ Len(p) = 2 /\ p[1] = "list" /\ p[2] = "cache"
    BY DEF Phases
  <2> HIDE DEF p
  <2>2. \A i \in 1..2 : i = 1 \/ i = 2
    OBVIOUS
  <2>3. \A i \in 1..(2 - 1) : <<p[i], p[i + 1]>> \in PhaseOrder
    BY <2>1 DEF PhaseOrder
  <2>4. \A i \in 1..2 : p[i] \in {"upload", "listAll"} => 2 = i + 2
    BY <2>1, <2>2
  <2>0. 2 \in Nat \ {0} /\ p[2] \in {"cache", "purge", "purgeAll"} /\ p \in Seq(Phases) /\ Len(p) = 2
    BY <2>1
  <2>5. Planned(p)
    BY <2>0, <2>3, <2>4, PlanIs, Zenon
  <2>6. \A i \in 1..2 : p[i] \notin {"upload", "purge"}
    BY <2>1, <2>2
  <2> QED BY <2>1, <2>5, <2>6 DEF p
<1>25. Planned(<<"tryList", "cache">>) /\ \A i \in 1..Len(<<"tryList", "cache">>) : <<"tryList", "cache">>[i] \notin {"upload", "purge"}
  <2> DEFINE p == <<"tryList", "cache">>
  <2>1. p \in Seq(Phases) /\ Len(p) = 2 /\ p[1] = "tryList" /\ p[2] = "cache"
    BY DEF Phases
  <2> HIDE DEF p
  <2>2. \A i \in 1..2 : i = 1 \/ i = 2
    OBVIOUS
  <2>3. \A i \in 1..(2 - 1) : <<p[i], p[i + 1]>> \in PhaseOrder
    BY <2>1 DEF PhaseOrder
  <2>4. \A i \in 1..2 : p[i] \in {"upload", "listAll"} => 2 = i + 2
    BY <2>1, <2>2
  <2>0. 2 \in Nat \ {0} /\ p[2] \in {"cache", "purge", "purgeAll"} /\ p \in Seq(Phases) /\ Len(p) = 2
    BY <2>1
  <2>5. Planned(p)
    BY <2>0, <2>3, <2>4, PlanIs, Zenon
  <2>6. \A i \in 1..2 : p[i] \notin {"upload", "purge"}
    BY <2>1, <2>2
  <2> QED BY <2>1, <2>5, <2>6 DEF p
<1>26. /\ Planned(Files!BootCleanPlan) /\ \A i \in 1..Len(Files!BootCleanPlan) : Files!BootCleanPlan[i] \notin {"upload", "purge"}
       /\ Files!BootCleanPlan[1] = "tryList"
  <2> DEFINE p == Files!BootCleanPlan
  <2>1. /\ p \in Seq(Phases) /\ Len(p) = 7 /\ p[1] = "tryList" /\ p[2] = "cache" /\ p[3] = "check" /\ p[4] = "clean"
        /\ p[5] = "remove" /\ p[6] = "list" /\ p[7] = "cache"
    BY DEF Phases, Files!BootCleanPlan, Files!CleanPlan
  <2> HIDE DEF p
  <2>2. \A i \in 1..7 : i = 1 \/ i = 2 \/ i = 3 \/ i = 4 \/ i = 5 \/ i = 6 \/ i = 7
    OBVIOUS
  <2>3. \A i \in 1..(7 - 1) : <<p[i], p[i + 1]>> \in PhaseOrder
    BY <2>1 DEF PhaseOrder
  <2>4. \A i \in 1..7 : p[i] \in {"upload", "listAll"} => 7 = i + 2
    BY <2>1, <2>2
  <2>0. 7 \in Nat \ {0} /\ p[7] \in {"cache", "purge", "purgeAll"} /\ p \in Seq(Phases) /\ Len(p) = 7
    BY <2>1
  <2>5. Planned(p)
    BY <2>0, <2>3, <2>4, PlanIs, Zenon
  <2>6. \A i \in 1..7 : p[i] \notin {"upload", "purge"}
    BY <2>1, <2>2
  <2> QED BY <2>1, <2>5, <2>6 DEF p
<1>27. Planned(Files!ClearPlan) /\ Files!ClearPlan[1] = "listAll" /\ \A i \in 1..Len(Files!ClearPlan) : Files!ClearPlan[i] \notin {"upload", "purge"}
  <2> DEFINE p == Files!ClearPlan
  <2>1. p \in Seq(Phases) /\ Len(p) = 3 /\ p[1] = "listAll" /\ p[2] = "remove" /\ p[3] = "purgeAll"
    BY DEF Phases, Files!ClearPlan
  <2> HIDE DEF p
  <2>2. \A i \in 1..3 : i = 1 \/ i = 2 \/ i = 3
    OBVIOUS
  <2>3. \A i \in 1..(3 - 1) : <<p[i], p[i + 1]>> \in PhaseOrder
    BY <2>1 DEF PhaseOrder
  <2>4. \A i \in 1..3 : p[i] \in {"upload", "listAll"} => 3 = i + 2
    BY <2>1, <2>2
  <2>0. 3 \in Nat \ {0} /\ p[3] \in {"cache", "purge", "purgeAll"} /\ p \in Seq(Phases) /\ Len(p) = 3
    BY <2>1
  <2>5. Planned(p)
    BY <2>0, <2>3, <2>4, PlanIs, Zenon
  <2>6. \A i \in 1..3 : p[i] \notin {"upload", "purge"}
    BY <2>1, <2>2
  <2> QED BY <2>1, <2>5, <2>6 DEF p
<1>28. Planned(Files!DeletePlan) /\ Files!DeletePlan[1] = "delete"
  <2> DEFINE p == Files!DeletePlan
  <2>1. p \in Seq(Phases) /\ Len(p) = 2 /\ p[1] = "delete" /\ p[2] = "purge"
    BY DEF Phases, Files!DeletePlan
  <2> HIDE DEF p
  <2>2. \A i \in 1..2 : i = 1 \/ i = 2
    OBVIOUS
  <2>3. \A i \in 1..(2 - 1) : <<p[i], p[i + 1]>> \in PhaseOrder
    BY <2>1 DEF PhaseOrder
  <2>4. \A i \in 1..2 : p[i] \in {"upload", "listAll"} => 2 = i + 2
    BY <2>1, <2>2
  <2>0. 2 \in Nat \ {0} /\ p[2] \in {"cache", "purge", "purgeAll"} /\ p \in Seq(Phases) /\ Len(p) = 2
    BY <2>1
  <2>5. Planned(p)
    BY <2>0, <2>3, <2>4, PlanIs, Zenon
  <2> QED BY <2>1, <2>5 DEF p
<1>29. Planned(Files!UploadPlan(FALSE)) /\ Files!UploadPlan(FALSE)[1] = "upload"
  <2> DEFINE p == Files!UploadPlan(FALSE)
  <2>1. p \in Seq(Phases) /\ Len(p) = 3 /\ p[1] = "upload" /\ p[2] = "list" /\ p[3] = "cache"
    BY DEF Phases, Files!UploadPlan
  <2> HIDE DEF p
  <2>2. \A i \in 1..3 : i = 1 \/ i = 2 \/ i = 3
    OBVIOUS
  <2>3. \A i \in 1..(3 - 1) : <<p[i], p[i + 1]>> \in PhaseOrder
    BY <2>1 DEF PhaseOrder
  <2>4. \A i \in 1..3 : p[i] \in {"upload", "listAll"} => 3 = i + 2
    BY <2>1, <2>2
  <2>0. 3 \in Nat \ {0} /\ p[3] \in {"cache", "purge", "purgeAll"} /\ p \in Seq(Phases) /\ Len(p) = 3
    BY <2>1
  <2>5. Planned(p)
    BY <2>0, <2>3, <2>4, PlanIs, Zenon
  <2> QED BY <2>1, <2>5 DEF p
<1>30. Planned(Files!UploadPlan(TRUE)) /\ Files!UploadPlan(TRUE)[1] = "clean"
  <2> DEFINE p == Files!UploadPlan(TRUE)
  <2>1. /\ p \in Seq(Phases) /\ Len(p) = 7 /\ p[1] = "clean" /\ p[2] = "remove" /\ p[3] = "list" /\ p[4] = "cache"
        /\ p[5] = "upload" /\ p[6] = "list" /\ p[7] = "cache"
    BY DEF Phases, Files!UploadPlan, Files!CleanPlan
  <2> HIDE DEF p
  <2>2. \A i \in 1..7 : i = 1 \/ i = 2 \/ i = 3 \/ i = 4 \/ i = 5 \/ i = 6 \/ i = 7
    OBVIOUS
  <2>3. \A i \in 1..(7 - 1) : <<p[i], p[i + 1]>> \in PhaseOrder
    BY <2>1 DEF PhaseOrder
  <2>4. \A i \in 1..7 : p[i] \in {"upload", "listAll"} => 7 = i + 2
    BY <2>1, <2>2
  <2>0. 7 \in Nat \ {0} /\ p[7] \in {"cache", "purge", "purgeAll"} /\ p \in Seq(Phases) /\ Len(p) = 7
    BY <2>1
  <2>5. Planned(p)
    BY <2>0, <2>3, <2>4, PlanIs, Zenon
  <2> QED BY <2>1, <2>5 DEF p
<1>31. ASSUME NEW r \in FileRequests,
              \/ Files!GetFiles(r) \/ Files!ClearPrinterFiles(r) \/ \E b \in BOOLEAN : Files!BootClean(r, b)
              \/ \E f \in GcodeFiles : Files!DeleteFile(r, f) \/ \E b \in BOOLEAN : Files!UploadPrinterFile(r, f, b)
       PROVE  FilesInv'
  <2> HIDE DEF FilesInv
  <2>1. CASE Files!GetFiles(r)
    <3>1. <<"list", "cache">>[1] \in Phases \ {"cache", "purge", "remove"}
      BY DEF Phases
    <3> QED BY <1>23, <1>24, <2>1, <3>1, FilesAreNamed DEF Files!GetFiles
  <2>2. CASE Files!ClearPrinterFiles(r)
    <3>1. Files!ClearPlan[1] \in Phases \ {"cache", "purge", "remove"}
      BY <1>27 DEF Phases
    <3> QED BY <1>23, <1>27, <2>2, <3>1, FilesAreNamed DEF Files!ClearPrinterFiles
  <2>3. ASSUME NEW b \in BOOLEAN, Files!BootClean(r, b) PROVE FilesInv'
    <3>1. Files!BootCleanPlan[1] \in Phases \ {"cache", "purge", "remove"} /\ <<"tryList", "cache">>[1] \in Phases \ {"cache", "purge", "remove"}
      BY <1>26 DEF Phases
    <3>2. CASE Files!StartFiling(r, Files!BootCleanPlan, "none", "clean")
      BY <1>23, <1>26, <3>1, <3>2, FilesAreNamed
    <3>3. CASE Files!StartFiling(r, <<"tryList", "cache">>, "none", "clean")
      BY <1>23, <1>25, <3>1, <3>3, FilesAreNamed
    <3> QED BY <2>3, <3>2, <3>3 DEF Files!BootClean
  <2>4. ASSUME NEW f \in GcodeFiles, Files!DeleteFile(r, f) PROVE FilesInv'
    <3>1. Files!DeletePlan[1] \in Phases \ {"cache", "purge", "remove"}
      BY <1>28 DEF Phases
    <3> QED BY <1>23, <1>28, <2>4, <3>1 DEF Files!DeleteFile
  <2>5. ASSUME NEW f \in GcodeFiles, NEW b \in BOOLEAN, Files!UploadPrinterFile(r, f, b) PROVE FilesInv'
    <3>1. Planned(Files!UploadPlan(b)) /\ Files!UploadPlan(b)[1] \in Phases \ {"cache", "purge", "remove"}
      BY <1>29, <1>30 DEF Phases
    <3> QED BY <1>23, <2>5, <3>1 DEF Files!UploadPrinterFile
  <2> QED BY <1>31, <2>1, <2>2, <2>3, <2>4, <2>5
<1>32. ASSUME NEW r \in FileRequests,
              \/ Files!ListDevice(r) \/ Files!ListFails(r) \/ Files!CacheFiles(r) \/ Files!CheckOutdated(r) \/ Files!CleanOutdated(r)
              \/ Files!ListAll(r) \/ Files!RemoveEnds(r) \/ \E f \in GcodeFiles, ok \in BOOLEAN : Files!RemoveFile(r, f, ok)
              \/ Files!DeleteOnDevice(r) \/ Files!UploadToDevice(r) \/ Files!DeviceRefuses(r) \/ Files!PurgeFile(r)
              \/ Files!PurgePrinterFiles(r)
       PROVE  FilesInv'
  BY <1>5, <1>7, <1>8, <1>9, <1>10, <1>11, <1>12, <1>14, <1>15, <1>16, <1>17, <1>18, <1>32
<1>33. CASE UNCHANGED Files!filesVars
  <2>1. device' = device /\ cached' = cached /\ filing' = filing /\ filesTrouble' = filesTrouble
    BY <1>33 DEF Files!filesVars
  <2> QED BY <2>1 DEF FilesInv, PhaseShows
<1>34. CASE Files!FilesNext
  BY <1>19, <1>20, <1>21, <1>22, <1>31, <1>32, <1>34 DEF Files!FilesNext
<1> QED BY <1>33, <1>34 DEF filesVars, Files!filesVars

LEMMA FilesStart == ASSUME MCInit PROVE FilesInv
<1>1. device \in Files!Listings /\ cached = Files!NoList /\ filing = [r \in FileRequests |-> Files!NoFiling] /\ filesTrouble = {}
  BY DEF MCInit, Files!FilesInit
<1>2. Files!NoFiling \in Filings /\ FilingOK(Files!NoFiling) /\ ~Uploads(Files!NoFiling)
  BY DEF Filings, FilingOK, Uploads, Files!NoFiling
<1>3. OldIsOld(cached, device)
  BY <1>1 DEF OldIsOld, Files!NoList
<1>4. filing \in [FileRequests -> Filings] /\ \A r \in FileRequests : filing[r] = Files!NoFiling
  BY <1>1, <1>2
<1> QED BY <1>1, <1>2, <1>3, <1>4 DEF FilesInv

\* The list users see is what is on the printer when requests neither overlapped nor lost
\* a list, and a clean deletes no file that is fresh there (PrinterFilesStore,
\* PrinterFileCleanTask).
THEOREM FilesListed == MCSpec => FilesAreAsListed
<1>1. MCInit => FilesInv
  BY FilesStart
<1>2. FilesInv /\ [MCNext]_vars => FilesInv'
  BY Framed, FilesKeep
<1>3. FilesInv /\ FilesInv' => [Files!CacheShowsDevice']_Files!filesVars
  BY DEF FilesInv, Files!CacheShowsDevice
<1>4. FilesInv => [\A r \in FileRequests, f \in GcodeFiles :
         /\ Files!At(r, "remove") /\ Len(filing[r].plan) > 2 /\ f \in filing[r].todo /\ f \notin filing'[r].todo
         /\ device[f] = "fresh" /\ device'[f] = "none"
         => "upload" \in filesTrouble]_Files!filesVars
  <2> SUFFICES ASSUME FilesInv, NEW r \in FileRequests, NEW f \in GcodeFiles, Files!At(r, "remove"), Len(filing[r].plan) > 2,
                      f \in filing[r].todo, device[f] = "fresh"
               PROVE  "upload" \in filesTrouble
    OBVIOUS
  <2>1. filing[r] # Files!NoFiling /\ filing[r].plan[1] = "remove"
    BY DEF Files!At, Files!NoFiling
  <2> QED BY <2>1 DEF FilesInv
<1> QED BY <1>1, <1>2, <1>3, <1>4, PTL DEF MCSpec, FilesAreAsListed, Files!FilesAreAsListed,
                                           Files!CleanSparesFresh

-----------------------------------------------------------------------------
(* Settings. *)

PatchSteps == {"patch", "update", "write", "assign", "find", "migrate", "found"}

\* Switches for some of the fields.
Partials == UNION {[C -> BOOLEAN] : C \in SUBSET Patches!Fields}

\* What a request carries.
PatchAsks ==
  [at : PatchSteps, field : Patches!Fields, patch : Partials,
   entity : Patches!Entities \cup {Patches!NotLoaded}, before : Patches!Entities]

\* e is what was there before the request q, but for its field, and atBoot.
AsBefore(e, q) == \A f \in Patches!Fields \ {q.field, "atBoot"} : e[f] = q.before[f]

\* How far a request has come with the row.
PatchInv(q) ==
  /\ q \in PatchAsks /\ q.field \in DOMAIN q.patch /\ \E s \in Patches!Sections : DOMAIN q.patch \subseteq s
  /\ \A f \in DOMAIN q.patch \ {q.field, "atBoot"} : q.patch[f] = q.before[f]
  /\ sentryEnabled = q.before["sentry"]
  /\ q.at \in {"patch", "update", "find"} => row = q.before
  /\ q.at \in {"write", "assign", "migrate", "found"} => q.entity \in Patches!Entities /\ AsBefore(q.entity, q)
  /\ q.at \in {"write", "assign"} => q.entity[q.field] = q.patch[q.field]
  /\ q.at = "assign" => row = q.entity

\* Until two patches overlap, one request at most is on its way, and between requests Sentry is
\* as the row says.
SettingsInv ==
  ~patchesOverlapped =>
    /\ DOMAIN patching = SettingsRequests
    /\ row \in Patches!Entities \cup {Patches!NotLoaded}
    /\ settings # Patches!NotLoaded => row \in Patches!Entities
    /\ \A r \in SettingsRequests : patching[r] # Patches!NoPatch =>
         /\ PatchInv(patching[r]) /\ settings # Patches!NotLoaded
         /\ \A o \in SettingsRequests \ {r} : patching[o] = Patches!NoPatch
    /\ settings # Patches!NotLoaded /\ (\A r \in SettingsRequests : patching[r] = Patches!NoPatch) =>
         sentryEnabled = row["sentry"]

\* A section that a patch was merged into has the patch, and for the rest what it had.
LEMMA MergedIs ==
  ASSUME NEW e \in Patches!Entities, NEW p \in Partials, \E s \in Patches!Sections : DOMAIN p \subseteq s
  PROVE  /\ Patches!MergedSection(e, p) \in Partials
         /\ \E t \in Patches!Sections : DOMAIN Patches!MergedSection(e, p) \subseteq t
         /\ DOMAIN p \subseteq DOMAIN Patches!MergedSection(e, p)
         /\ \A f \in DOMAIN Patches!MergedSection(e, p) :
              Patches!MergedSection(e, p)[f] = IF f \in DOMAIN p THEN p[f] ELSE e[f]
<1>1. PICK t : t = CHOOSE u \in Patches!Sections : DOMAIN p \subseteq u
  OBVIOUS
<1>2. t \in Patches!Sections /\ DOMAIN p \subseteq t /\ t \subseteq Patches!Fields
  BY <1>1 DEF Patches!Fields
<1>3. Patches!MergedSection(e, p) = [f \in t |-> IF f \in DOMAIN p THEN p[f] ELSE e[f]]
  BY <1>1 DEF Patches!MergedSection
<1>4. \A f \in t : (IF f \in DOMAIN p THEN p[f] ELSE e[f]) \in BOOLEAN
  BY <1>2 DEF Patches!Entities, Partials
<1>5. Patches!MergedSection(e, p) \in [t -> BOOLEAN]
  BY <1>3, <1>4
<1> QED BY <1>2, <1>3, <1>5 DEF Partials

\* An entity with a patch has the patch, and for the rest what it had.
LEMMA AssignedIs ==
  ASSUME NEW e \in Patches!Entities, NEW D \in SUBSET Patches!Fields, NEW p \in [D -> BOOLEAN]
  PROVE  /\ Patches!Assigned(e, p) \in Patches!Entities
         /\ \A f \in Patches!Fields : Patches!Assigned(e, p)[f] = IF f \in D THEN p[f] ELSE e[f]
BY DEF Patches!Assigned, Patches!Entities

\* A row that was read is the row, but for atBoot.
LEMMA MigratedIs ==
  ASSUME NEW e \in Patches!Entities
  PROVE  /\ Patches!Migrated(e) \in Patches!Entities
         /\ \A f \in Patches!Fields \ {"atBoot"} : Patches!Migrated(e)[f] = e[f]
<1>1. {"beforeUpload", "sentry"} \subseteq Patches!Fields
  BY DEF Patches!Fields, Patches!Sections
<1> QED BY <1>1 DEF Patches!Migrated, Patches!Entities

LEMMA SettingsFacts ==
  /\ Patches!NotLoaded \notin Patches!Entities /\ "sentry" \in Patches!Fields /\ "sentry" # "atBoot"
  /\ Patches!DefaultSettings \in Patches!Entities
  /\ \A f \in Patches!Fields : \E s \in Patches!Sections : {f} \subseteq s
<1>1. "sentry" \in Patches!Fields /\ \A f \in Patches!Fields : \E s \in Patches!Sections : {f} \subseteq s
  BY DEF Patches!Fields, Patches!Sections
<1>2. DOMAIN Patches!NotLoaded = {}
  BY DEF Patches!NotLoaded
<1>3. \A e \in Patches!Entities : DOMAIN e = Patches!Fields
  BY DEF Patches!Entities
<1>4. Patches!DefaultSettings \in Patches!Entities
  BY DEF Patches!DefaultSettings, Patches!Entities
<1> QED BY <1>1, <1>2, <1>3, <1>4

\* A request goes on.
LEMMA PatchGoes ==
  ASSUME SettingsInv, ~patchesOverlapped, NEW r \in SettingsRequests, patching[r] # Patches!NoPatch,
         NEW q, patching' = [patching EXCEPT ![r] = q], PatchInv(q)',
         row' \in Patches!Entities, UNCHANGED <<settings, patchesOverlapped>>
  PROVE  SettingsInv'
<1>1. q # Patches!NoPatch
  BY DEF PatchInv, PatchAsks, Patches!NoPatch
<1>2. \A o \in SettingsRequests \ {r} : patching'[o] = Patches!NoPatch
  BY DEF SettingsInv
<1>3. patching'[r] = q /\ DOMAIN patching' = SettingsRequests /\ settings # Patches!NotLoaded
  BY DEF SettingsInv
<1> HIDE DEF PatchInv
<1> QED BY <1>1, <1>2, <1>3 DEF SettingsInv

LEMMA SettingsKeep ==
  ASSUME SettingsInv, [Patches!SettingsNext]_settingsVars
  PROVE  SettingsInv'
<1> USE SettingsFacts
<1>1. CASE Patches!LoadSettings
  <2>1. PICK e : e = Patches!GetOrCreate
    OBVIOUS
  <2>2. /\ settings = Patches!NotLoaded /\ settings' = e /\ sentryEnabled' = e["sentry"]
        /\ row' = (IF row = Patches!NotLoaded \/ settingsDb = "mongo" THEN e ELSE row)
        /\ patching' = patching /\ patchesOverlapped' = patchesOverlapped
    BY <1>1, <2>1 DEF Patches!LoadSettings, Patches!ProcessSentryEnabled
  <2> SUFFICES ASSUME ~patchesOverlapped PROVE SettingsInv'
    BY <2>2 DEF SettingsInv
  <2>3. row \in Patches!Entities \cup {Patches!NotLoaded} /\ \A r \in SettingsRequests : patching[r] = Patches!NoPatch
    BY <2>2 DEF SettingsInv
  <2>4. CASE row = Patches!NotLoaded
    <3>1. e = Patches!DefaultSettings
      BY <2>1, <2>4 DEF Patches!GetOrCreate
    <3> QED BY <2>2, <2>3, <2>4, <3>1 DEF SettingsInv
  <2>5. CASE row \in Patches!Entities
    <3>1. e = Patches!Migrated(row)
      BY <2>1, <2>5 DEF Patches!GetOrCreate
    <3>2. e \in Patches!Entities /\ e["sentry"] = row["sentry"]
      BY <2>5, <3>1, MigratedIs
    <3> QED BY <2>2, <2>3, <2>5, <3>2 DEF SettingsInv
  <2> QED BY <2>3, <2>4, <2>5
<1>2. CASE Patches!RestartSettings
  <2>1. /\ settings' = Patches!NotLoaded /\ row' = row
        /\ patching' = [r \in SettingsRequests |-> Patches!NoPatch] /\ patchesOverlapped' = patchesOverlapped
    BY <1>2 DEF Patches!RestartSettings
  <2> QED BY <2>1 DEF SettingsInv
<1>3. ASSUME NEW r \in SettingsRequests, NEW f \in Patches!Fields, NEW value \in BOOLEAN, Patches!StartPatch(r, f, value)
      PROVE  SettingsInv'
  <2>1. PICK q : q = [at |-> IF settingsDb = "mongo" THEN "find" ELSE IF f = "timeout" THEN "update" ELSE "patch",
                      field |-> f, patch |-> [x \in {f} |-> value], entity |-> Patches!NotLoaded, before |-> row]
    OBVIOUS
  <2>2. /\ settings # Patches!NotLoaded /\ patching[r] = Patches!NoPatch /\ ~patchesOverlapped
        /\ patching' = [patching EXCEPT ![r] = q]
        /\ row' = row /\ settings' = settings /\ sentryEnabled' = sentryEnabled
        /\ ~patchesOverlapped' => \A o \in SettingsRequests : patching[o] = Patches!NoPatch
    BY <1>3, <2>1 DEF Patches!StartPatch
  <2> SUFFICES ASSUME \A o \in SettingsRequests : patching[o] = Patches!NoPatch PROVE SettingsInv'
    BY <2>2 DEF SettingsInv
  <2>3. row \in Patches!Entities /\ sentryEnabled = row["sentry"] /\ DOMAIN patching = SettingsRequests
    BY <2>2 DEF SettingsInv
  <2>4. /\ q.field = f /\ q.patch = [x \in {f} |-> value] /\ q.before = row
        /\ q.at \in {"patch", "update", "find"} /\ q.entity = Patches!NotLoaded
    BY <2>1
  <2>5. q.patch \in [{f} -> BOOLEAN] /\ {f} \in SUBSET Patches!Fields
    BY <2>4
  <2>6. q \in PatchAsks
    BY <2>1, <2>3, <2>4, <2>5 DEF PatchAsks, PatchSteps, Partials
  <2>7. PatchInv(q)'
    BY <2>2, <2>3, <2>4, <2>6 DEF PatchInv
  <2>8. q # Patches!NoPatch
    BY <2>4 DEF Patches!NoPatch
  <2> HIDE DEF PatchInv
  <2> QED BY <2>2, <2>3, <2>7, <2>8 DEF SettingsInv
\* The awaits of a request that overlaps no other.
<1>4. ASSUME NEW r \in SettingsRequests, ~patchesOverlapped, patching[r] # Patches!NoPatch
      PROVE  /\ PatchInv(patching[r]) /\ settings # Patches!NotLoaded /\ row \in Patches!Entities
             /\ \A o \in SettingsRequests \ {r} : patching[o] = Patches!NoPatch
             /\ DOMAIN patching = SettingsRequests
  BY <1>4 DEF SettingsInv
<1>5. ASSUME NEW r \in SettingsRequests, Patches!ReadSection(r) PROVE SettingsInv'
  <2>1. PICK req : req = patching[r]
    OBVIOUS
  <2>2. PICK m : m = Patches!MergedSection(Patches!GetOrCreate, req.patch)
    OBVIOUS
  <2>3. PICK q : q = [req EXCEPT !.at = "update", !.patch = m]
    OBVIOUS
  <2>4. /\ req.at = "patch" /\ patching' = [patching EXCEPT ![r] = q]
        /\ row' = row /\ settings' = settings /\ sentryEnabled' = sentryEnabled /\ patchesOverlapped' = patchesOverlapped
    BY <1>5, <2>1, <2>2, <2>3 DEF Patches!ReadSection, Patches!Goes
  <2> SUFFICES ASSUME ~patchesOverlapped PROVE SettingsInv'
    BY <2>4 DEF SettingsInv
  <2>5. req # Patches!NoPatch
    BY <2>4 DEF Patches!NoPatch
  <2>6. PatchInv(req) /\ row \in Patches!Entities
    BY <1>4, <2>1, <2>5
  <2>7. PICK e : e = Patches!Migrated(row)
    OBVIOUS
  <2>8. e = Patches!GetOrCreate /\ e \in Patches!Entities /\ \A f \in Patches!Fields \ {"atBoot"} : e[f] = row[f]
    BY <2>6, <2>7, MigratedIs DEF Patches!GetOrCreate
  <2>9. PICK D \in SUBSET Patches!Fields : req.patch \in [D -> BOOLEAN]
    BY <2>6 DEF PatchInv, PatchAsks, Partials
  <2>10. req.patch \in Partials /\ \E s \in Patches!Sections : DOMAIN req.patch \subseteq s
    BY <2>6 DEF PatchInv, PatchAsks
  <2>11. /\ m \in Partials
         /\ \E t \in Patches!Sections : DOMAIN m \subseteq t
         /\ D \subseteq DOMAIN m
         /\ \A f \in DOMAIN m : m[f] = IF f \in D THEN req.patch[f] ELSE e[f]
    <3>1. m = Patches!MergedSection(e, req.patch)
      BY <2>2, <2>8
    <3> QED BY <2>8, <2>9, <2>10, <3>1, MergedIs
  <2>12. /\ q \in PatchAsks /\ q.at = "update" /\ q.field = req.field /\ q.patch = m /\ q.before = req.before
    BY <2>3, <2>6, <2>11 DEF PatchInv, PatchAsks, PatchSteps
  <2>13. DOMAIN m \subseteq Patches!Fields
    BY <2>11 DEF Partials
  <2>14. row = req.before /\ sentryEnabled = req.before["sentry"] /\ req.field \in D
         /\ \A f \in D \ {req.field, "atBoot"} : req.patch[f] = req.before[f]
    BY <2>4, <2>6, <2>9 DEF PatchInv
  <2>15. \A f \in DOMAIN m \ {req.field, "atBoot"} : m[f] = req.before[f]
    BY <2>8, <2>11, <2>13, <2>14
  <2>16. PatchInv(q)'
    BY <2>4, <2>11, <2>12, <2>14, <2>15 DEF PatchInv
  <2> HIDE DEF PatchInv, SettingsInv
  <2> QED BY <2>1, <2>4, <2>5, <2>6, <2>16, PatchGoes
<1>6. ASSUME NEW r \in SettingsRequests, Patches!ReadEntity(r) PROVE SettingsInv'
  <2>1. PICK req : req = patching[r]
    OBVIOUS
  <2>2. PICK m : m = Patches!Assigned(Patches!GetOrCreate, req.patch)
    OBVIOUS
  <2>3. PICK q : q = [req EXCEPT !.at = "write", !.entity = m]
    OBVIOUS
  <2>4. /\ req.at = "update" /\ patching' = [patching EXCEPT ![r] = q]
        /\ row' = row /\ settings' = settings /\ sentryEnabled' = sentryEnabled /\ patchesOverlapped' = patchesOverlapped
    BY <1>6, <2>1, <2>2, <2>3 DEF Patches!ReadEntity, Patches!Goes
  <2> SUFFICES ASSUME ~patchesOverlapped PROVE SettingsInv'
    BY <2>4 DEF SettingsInv
  <2>5. req # Patches!NoPatch
    BY <2>4 DEF Patches!NoPatch
  <2>6. PatchInv(req) /\ row \in Patches!Entities
    BY <1>4, <2>1, <2>5
  <2>7. PICK e : e = Patches!Migrated(row)
    OBVIOUS
  <2>8. e = Patches!GetOrCreate /\ e \in Patches!Entities /\ \A f \in Patches!Fields \ {"atBoot"} : e[f] = row[f]
    BY <2>6, <2>7, MigratedIs DEF Patches!GetOrCreate
  <2>9. PICK D \in SUBSET Patches!Fields : req.patch \in [D -> BOOLEAN]
    BY <2>6 DEF PatchInv, PatchAsks, Partials
  <2>10. m \in Patches!Entities /\ \A f \in Patches!Fields : m[f] = IF f \in D THEN req.patch[f] ELSE e[f]
    BY <2>2, <2>8, <2>9, AssignedIs
  <2>11. /\ q \in PatchAsks /\ q.at = "write" /\ q.field = req.field /\ q.patch = req.patch /\ q.before = req.before /\ q.entity = m
    BY <2>3, <2>6, <2>10 DEF PatchInv, PatchAsks, PatchSteps
  <2>12. /\ row = req.before /\ sentryEnabled = req.before["sentry"] /\ req.field \in D /\ req.field \in Patches!Fields
         /\ \A f \in D \ {req.field, "atBoot"} : req.patch[f] = req.before[f]
    BY <2>4, <2>6, <2>9 DEF PatchInv, PatchAsks, Partials
  <2>13. AsBefore(m, q) /\ m[req.field] = req.patch[req.field]
    BY <2>8, <2>10, <2>11, <2>12 DEF AsBefore
  <2>14. PatchInv(q)'
    BY <2>4, <2>6, <2>10, <2>11, <2>12, <2>13 DEF PatchInv, AsBefore
  <2> HIDE DEF PatchInv, SettingsInv
  <2> QED BY <2>1, <2>4, <2>5, <2>6, <2>14, PatchGoes
<1>7. ASSUME NEW r \in SettingsRequests, Patches!WriteEntity(r) \/ Patches!StoreMigrated(r)
      PROVE  SettingsInv'
  <2>1. PICK req : req = patching[r]
    OBVIOUS
  <2>2. PICK q \in {[req EXCEPT !.at = "assign"], [req EXCEPT !.at = "found"]} :
          /\ patching' = [patching EXCEPT ![r] = q]
          /\ req.at = (IF q.at = "assign" THEN "write" ELSE "migrate")
    BY <1>7, <2>1 DEF Patches!WriteEntity, Patches!StoreMigrated, Patches!Goes
  <2>3. /\ row' = req.entity /\ settings' = settings /\ sentryEnabled' = sentryEnabled /\ patchesOverlapped' = patchesOverlapped
    BY <1>7, <2>1 DEF Patches!WriteEntity, Patches!StoreMigrated
  <2> SUFFICES ASSUME ~patchesOverlapped PROVE SettingsInv'
    BY <2>3 DEF SettingsInv
  <2>4. req # Patches!NoPatch /\ req.at \in {"write", "migrate"}
    BY <2>2 DEF Patches!NoPatch
  <2>5. PatchInv(req) /\ row \in Patches!Entities
    BY <1>4, <2>1, <2>4
  <2>6. /\ q \in PatchAsks /\ q.at \in {"assign", "found"} /\ q.field = req.field /\ q.patch = req.patch /\ q.before = req.before
        /\ q.entity = req.entity /\ (q.at = "assign" => req.at = "write")
    BY <2>2, <2>5 DEF PatchInv, PatchAsks, PatchSteps
  <2>7. PatchInv(q)'
    BY <2>3, <2>4, <2>5, <2>6 DEF PatchInv, AsBefore
  <2>8. row' \in Patches!Entities
    BY <2>3, <2>4, <2>5 DEF PatchInv
  <2> HIDE DEF PatchInv, SettingsInv
  <2> QED BY <2>1, <2>2, <2>3, <2>4, <2>7, <2>8, PatchGoes
<1>8. ASSUME NEW r \in SettingsRequests, Patches!FindSettings(r) PROVE SettingsInv'
  <2>1. PICK req : req = patching[r]
    OBVIOUS
  <2>2. PICK e : e = Patches!Migrated(row)
    OBVIOUS
  <2>3. PICK q : q = [req EXCEPT !.at = "migrate", !.entity = e]
    OBVIOUS
  <2>4. /\ req.at = "find" /\ patching' = [patching EXCEPT ![r] = q]
        /\ row' = row /\ settings' = settings /\ sentryEnabled' = sentryEnabled /\ patchesOverlapped' = patchesOverlapped
    BY <1>8, <2>1, <2>2, <2>3 DEF Patches!FindSettings, Patches!Goes
  <2> SUFFICES ASSUME ~patchesOverlapped PROVE SettingsInv'
    BY <2>4 DEF SettingsInv
  <2>5. req # Patches!NoPatch
    BY <2>4 DEF Patches!NoPatch
  <2>6. PatchInv(req) /\ row \in Patches!Entities
    BY <1>4, <2>1, <2>5
  <2>7. e \in Patches!Entities /\ \A f \in Patches!Fields \ {"atBoot"} : e[f] = row[f]
    BY <2>2, <2>6, MigratedIs
  <2>8. /\ q \in PatchAsks /\ q.at = "migrate" /\ q.field = req.field /\ q.patch = req.patch /\ q.before = req.before /\ q.entity = e
    BY <2>3, <2>6, <2>7 DEF PatchInv, PatchAsks, PatchSteps
  <2>9. PatchInv(q)'
    BY <2>4, <2>6, <2>7, <2>8 DEF PatchInv, AsBefore
  <2> HIDE DEF PatchInv, SettingsInv
  <2> QED BY <2>1, <2>4, <2>5, <2>6, <2>9, PatchGoes
<1>9. ASSUME NEW r \in SettingsRequests, Patches!StorePatched(r) PROVE SettingsInv'
  <2>1. PICK req : req = patching[r]
    OBVIOUS
  <2>2. PICK m : m = Patches!MergedSection(req.entity, req.patch)
    OBVIOUS
  <2>3. PICK e : e = Patches!Assigned(req.entity, m)
    OBVIOUS
  <2>4. PICK q : q = [req EXCEPT !.at = "assign", !.entity = e]
    OBVIOUS
  <2>5. /\ req.at = "found" /\ patching' = [patching EXCEPT ![r] = q]
        /\ row' = e /\ settings' = settings /\ sentryEnabled' = sentryEnabled /\ patchesOverlapped' = patchesOverlapped
    BY <1>9, <2>1, <2>2, <2>3, <2>4 DEF Patches!StorePatched, Patches!Goes
  <2> SUFFICES ASSUME ~patchesOverlapped PROVE SettingsInv'
    BY <2>5 DEF SettingsInv
  <2>6. req # Patches!NoPatch
    BY <2>5 DEF Patches!NoPatch
  <2>7. PatchInv(req) /\ row \in Patches!Entities
    BY <1>4, <2>1, <2>6
  <2>8. PICK D \in SUBSET Patches!Fields : req.patch \in [D -> BOOLEAN]
    BY <2>7 DEF PatchInv, PatchAsks, Partials
  <2>9. req.patch \in Partials /\ \E s \in Patches!Sections : DOMAIN req.patch \subseteq s
    BY <2>7 DEF PatchInv, PatchAsks
  <2>10. req.entity \in Patches!Entities /\ AsBefore(req.entity, req)
    BY <2>5, <2>7 DEF PatchInv
  <2>11. PICK C \in SUBSET Patches!Fields : m \in [C -> BOOLEAN] /\ D \subseteq C
           /\ \A f \in C : m[f] = IF f \in D THEN req.patch[f] ELSE req.entity[f]
    <3>1. /\ m \in Partials
          /\ \E t \in Patches!Sections : DOMAIN m \subseteq t
          /\ D \subseteq DOMAIN m
          /\ \A f \in DOMAIN m : m[f] = IF f \in D THEN req.patch[f] ELSE req.entity[f]
      BY <2>2, <2>8, <2>9, <2>10, MergedIs
    <3> QED BY <3>1 DEF Partials
  <2>12. e \in Patches!Entities /\ \A f \in Patches!Fields : e[f] = IF f \in D THEN req.patch[f] ELSE req.entity[f]
    BY <2>3, <2>10, <2>11, AssignedIs
  <2>13. /\ q \in PatchAsks /\ q.at = "assign" /\ q.field = req.field /\ q.patch = req.patch /\ q.before = req.before /\ q.entity = e
    BY <2>4, <2>7, <2>12 DEF PatchInv, PatchAsks, PatchSteps
  <2>14. /\ req.field \in D /\ req.field \in Patches!Fields
         /\ \A f \in D \ {req.field, "atBoot"} : req.patch[f] = req.before[f]
    BY <2>7, <2>8 DEF PatchInv, PatchAsks, Partials
  <2>15. AsBefore(e, q) /\ e[req.field] = req.patch[req.field]
    BY <2>10, <2>12, <2>13, <2>14 DEF AsBefore
  <2>16. PatchInv(q)'
    BY <2>5, <2>7, <2>12, <2>13, <2>15 DEF PatchInv, AsBefore
  <2> HIDE DEF PatchInv, SettingsInv
  <2> QED BY <2>1, <2>5, <2>6, <2>7, <2>12, <2>16, PatchGoes
<1>10. ASSUME NEW r \in SettingsRequests, Patches!AssignSettings(r) PROVE SettingsInv'
  <2>1. PICK req : req = patching[r]
    OBVIOUS
  <2>2. /\ req.at = "assign" /\ settings' = req.entity /\ patching' = [patching EXCEPT ![r] = Patches!NoPatch]
        /\ sentryEnabled' = (IF req.field = "sentry" THEN req.entity["sentry"] ELSE sentryEnabled)
        /\ row' = row /\ patchesOverlapped' = patchesOverlapped
    BY <1>10, <2>1 DEF Patches!AssignSettings, Patches!Goes, Patches!ProcessSentryEnabled
  <2> SUFFICES ASSUME ~patchesOverlapped PROVE SettingsInv'
    BY <2>2 DEF SettingsInv
  <2>3. req # Patches!NoPatch
    BY <2>2 DEF Patches!NoPatch
  <2>4. PatchInv(req) /\ row \in Patches!Entities /\ \A o \in SettingsRequests \ {r} : patching[o] = Patches!NoPatch
    BY <1>4, <2>1, <2>3
  <2>5. row = req.entity /\ sentryEnabled' = row["sentry"]
    BY <2>2, <2>4 DEF PatchInv, AsBefore
  <2>6. \A o \in SettingsRequests : patching'[o] = Patches!NoPatch
    BY <2>2, <2>4 DEF SettingsInv
  <2> QED BY <2>2, <2>4, <2>5, <2>6 DEF SettingsInv
<1>11. CASE UNCHANGED settingsVars
  BY <1>11 DEF SettingsInv, PatchInv, AsBefore, settingsVars
<1> HIDE DEF SettingsInv
<1> QED BY <1>1, <1>2, <1>3, <1>5, <1>6, <1>7, <1>8, <1>9, <1>10, <1>11 DEF Patches!SettingsNext

\* Patches that do not overlap compose: each leaves its field as asked for and the others alone,
\* in the row and in memory, on sqlite as on MongoDB (SettingsStore, SettingsService).
THEOREM SettingsCompose == MCSpec => PatchesCompose
<1>1. MCInit => SettingsInv
  <2> SUFFICES ASSUME MCInit PROVE SettingsInv
    OBVIOUS
  <2>1. row = Patches!NotLoaded /\ settings = Patches!NotLoaded /\ patching = [r \in SettingsRequests |-> Patches!NoPatch]
    BY DEF MCInit, Patches!SettingsInit
  <2> QED BY <2>1 DEF SettingsInv
<1>2. SettingsInv /\ [MCNext]_vars => SettingsInv'
  BY Framed, SettingsKeep
<1>3. SettingsInv /\ [MCNext]_vars =>
      [\A r \in SettingsRequests :
         patching[r].at = "assign" /\ patching'[r] = Patches!NoPatch /\ ~patchesOverlapped /\ settings' # Patches!NotLoaded =>
           /\ settings' = row /\ sentryEnabled' = row["sentry"]
           /\ row[patching[r].field] = patching[r].patch[patching[r].field]
           /\ \A other \in Patches!Fields \ {patching[r].field, "atBoot"} :
                row[other] = patching[r].before[other]]_Patches!settingsVars
  <2> SUFFICES ASSUME SettingsInv, Patches!SettingsNext,
                      NEW r \in SettingsRequests, patching[r].at = "assign", patching'[r] = Patches!NoPatch,
                      ~patchesOverlapped, settings' # Patches!NotLoaded
               PROVE  /\ settings' = row /\ sentryEnabled' = row["sentry"]
                      /\ row[patching[r].field] = patching[r].patch[patching[r].field]
                      /\ \A other \in Patches!Fields \ {patching[r].field, "atBoot"} :
                           row[other] = patching[r].before[other]
    BY Framed DEF settingsVars, Patches!settingsVars
  <2>1. PICK req : req = patching[r]
    OBVIOUS
  <2>2. req # Patches!NoPatch
    BY <2>1 DEF Patches!NoPatch
  <2>3. PatchInv(req) /\ settings # Patches!NotLoaded /\ \A o \in SettingsRequests \ {r} : patching[o] = Patches!NoPatch
    BY <2>1, <2>2 DEF SettingsInv
  <2>4. Patches!AssignSettings(r)
    <3>1. ~Patches!LoadSettings /\ ~Patches!RestartSettings
      BY <2>3 DEF Patches!LoadSettings, Patches!RestartSettings
    <3>2. ASSUME NEW o \in SettingsRequests, NEW f \in Patches!Fields, NEW value \in BOOLEAN, Patches!StartPatch(o, f, value)
          PROVE  FALSE
      <4>1. patching[o] = Patches!NoPatch /\ patching'[r] = patching[r] 
        BY <2>1, <2>2, <3>2 DEF Patches!StartPatch
      <4> QED BY <2>1, <2>2, <4>1
    <3>3. ASSUME NEW o \in SettingsRequests,
                 \/ Patches!ReadSection(o) \/ Patches!ReadEntity(o) \/ Patches!WriteEntity(o)
                 \/ Patches!FindSettings(o) \/ Patches!StoreMigrated(o) \/ Patches!StorePatched(o)
          PROVE  FALSE
      <4>1. patching[o].at # "idle" /\ patching[o].at # "assign"
        BY <3>3 DEF Patches!ReadSection, Patches!ReadEntity, Patches!WriteEntity, Patches!FindSettings,
                    Patches!StoreMigrated, Patches!StorePatched
      <4>2. o # r /\ patching[o] # Patches!NoPatch
        BY <4>1 DEF Patches!NoPatch
      <4> QED BY <2>3, <4>2
    <3>4. ASSUME NEW o \in SettingsRequests, Patches!AssignSettings(o) PROVE o = r
      <4>1. patching[o] # Patches!NoPatch
        BY <3>4 DEF Patches!AssignSettings, Patches!NoPatch
      <4> QED BY <2>3, <4>1
    <3> QED BY <3>1, <3>2, <3>3, <3>4 DEF Patches!SettingsNext
  <2>5. settings' = req.entity /\ sentryEnabled' = (IF req.field = "sentry" THEN req.entity["sentry"] ELSE sentryEnabled)
    BY <2>1, <2>4 DEF Patches!AssignSettings, Patches!ProcessSentryEnabled
  <2> QED BY <2>1, <2>3, <2>5, SettingsFacts DEF PatchInv, AsBefore
<1> QED BY <1>1, <1>2, <1>3, PTL DEF MCSpec, PatchesCompose, Patches!PatchesCompose

-----------------------------------------------------------------------------
(* Imports. *)

\* What is left of a plan to bring imported rows into a table: rows to insert, of names that the
\* table does not have, and rows to update, each with the row of its name.
Left(todo) == todo.insert \cup DOMAIN todo.update
PlanOf(todo, imported, table) ==
  /\ todo = [insert |-> todo.insert, update |-> todo.update]
  /\ todo.update = [i \in DOMAIN todo.update |-> todo.update[i]]
  /\ todo.insert \subseteq DOMAIN imported /\ DOMAIN todo.update \subseteq DOMAIN imported
  /\ todo.insert \cap DOMAIN todo.update = {}
  /\ \A i \in todo.insert : Import!NameOf(imported[i]) \notin Import!NamesOf(table)
  /\ \A i \in DOMAIN todo.update :
       /\ todo.update[i] \in DOMAIN table
       /\ Import!NameOf(table[todo.update[i]]) = Import!NameOf(imported[i])
\* No row is lost, or gets another name.
KeepsNames(table, before) ==
  \A j \in DOMAIN before : j \in DOMAIN table /\ Import!NameOf(table[j]) = Import!NameOf(before[j])

\* An import as the code holds it, in its three steps.
ImportIs ==
  /\ importing = [at |-> importing.at, printers |-> importing.printers, floors |-> importing.floors,
                  groups |-> importing.groups, printerIdMap |-> importing.printerIdMap,
                  group |-> importing.group, remove |-> importing.remove, add |-> importing.add,
                  before |-> importing.before]
  /\ importing.at \in {"printers", "floors", "write"}
  /\ Import!HasTables(importing.before)
  /\ importing.at # "write" => db = importing.before
  /\ importing.at # "write" => Left(importing.printers) = DOMAIN yaml.printers
  /\ importing.at = "floors" => Left(importing.floors) = DOMAIN yaml.floors
  /\ PlanOf(importing.printers, yaml.printers, importing.before.printers)
  /\ importing.at # "printers" => PlanOf(importing.floors, yaml.floors, importing.before.floors)
  /\ importing.at = "write" => PlanOf(importing.groups, yaml.groups, importing.before.groups)
  /\ importing.at # "write" => importing.group = 0
  /\ importing.group = 0 => importing.remove = {} /\ importing.add = {}

\* Printers that were written are mapped to rows like theirs, and nothing else was added.
PrintersWritten ==
  /\ importing.printerIdMap = [i \in DOMAIN importing.printerIdMap |-> importing.printerIdMap[i]]
  /\ DOMAIN importing.printerIdMap = DOMAIN yaml.printers \ Left(importing.printers)
  /\ \A i \in DOMAIN importing.printerIdMap :
       /\ importing.printerIdMap[i] \in DOMAIN db.printers
       /\ db.printers[importing.printerIdMap[i]] = yaml.printers[i]
  /\ \A j \in DOMAIN importing.before.printers :
       j \in DOMAIN db.printers /\ db.printers[j] = importing.before.printers[j]
  /\ \A j \in DOMAIN db.printers :
       \/ j \in DOMAIN importing.before.printers
       \/ \E i \in DOMAIN importing.printerIdMap : importing.printerIdMap[i] = j
  /\ Import!NamesDiffer(db.printers)

\* Floors that were written hold the printers that theirs are mapped to; before the printers
\* are written there are none.
FloorsWritten ==
  /\ KeepsNames(db.floors, importing.before.floors)
  /\ importing.at = "write" =>
       /\ Left(importing.printers) # {} => Left(importing.floors) = DOMAIN yaml.floors
       /\ \A f \in DOMAIN yaml.floors \ Left(importing.floors) : \E j \in DOMAIN db.floors :
            /\ Import!NameOf(db.floors[j]) = Import!NameOf(yaml.floors[f])
            /\ db.floors[j].printers = Import!Mapped(yaml.floors[f].printers)

\* The same of groups, with what the one in progress loses and gets; groups after the first one
\* that was there already are not imported.
Reached(g) == \A h \in DOMAIN yaml.groups :
  h < g => Import!NameOf(yaml.groups[h]) \notin Import!NamesOf(importing.before.groups)
HasGroup(groups, g, group, remove, add) == \E j \in DOMAIN groups :
  /\ Import!NameOf(groups[j]) = Import!NameOf(yaml.groups[g])
  /\ Import!Mapped(yaml.groups[g].printers) =
       IF j = group THEN (groups[j].printers \ remove) \cup add ELSE groups[j].printers
GroupsWritten ==
  /\ KeepsNames(db.groups, importing.before.groups)
  /\ importing.at = "write" =>
       /\ Left(importing.printers) # {} => \A g \in DOMAIN yaml.groups : Reached(g) => g \in Left(importing.groups)
       /\ \A g \in DOMAIN yaml.groups \ Left(importing.groups) : Reached(g) =>
            HasGroup(db.groups, g, importing.group, importing.remove, importing.add)

\* The names of the file, and of what it is imported into, tell rows apart.
NamesTell ==
  \A t \in {yaml.printers, yaml.floors, yaml.groups, importing.before.printers,
            importing.before.floors, importing.before.groups} : Import!NamesDiffer(t)

ImportInv ==
  /\ Import!WellFormed(yaml)
  /\ ~importDisturbed => Import!HasTables(db)
  /\ ~importDisturbed /\ importing # Import!NoImport => ImportIs
  /\ ~importDisturbed /\ importing # Import!NoImport /\ NamesTell =>
       PrintersWritten /\ FloorsWritten /\ GroupsWritten

\* The first of some ids is the least one of them.
LEMMA FirstIs ==
  ASSUME NEW ids \in SUBSET Import!Ids, ids # {}
  PROVE  Import!First(ids) \in ids /\ \A j \in ids : Import!First(ids) <= j
<1>1. ids \in SUBSET Nat
  BY TablesAreWellFormed DEF Import!Ids
<1>2. \E i \in ids : \A j \in ids : i <= j
  BY <1>1, LeastIsThere
<1> QED BY <1>2 DEF Import!First

\* A new id is one that no row has.
LEMMA NewIdIs ==
  ASSUME NEW table, DOMAIN table \subseteq Import!Ids, Import!HasRoom(table)
  PROVE  Import!NewId(table) \in Import!Ids \ DOMAIN table
<1>1. PICK i \in Import!Ids : \A j \in DOMAIN table : j < i
  BY DEF Import!HasRoom
<1>2. i \notin DOMAIN table
  BY <1>1, TablesAreWellFormed DEF Import!Ids
<1> QED BY <1>1, <1>2 DEF Import!NewId

\* What the analysis plans is all of the imported rows.
LEMMA UpsertsPlan ==
  ASSUME NEW imported, NEW table, DOMAIN table \subseteq Import!Ids
  PROVE  /\ PlanOf(Import!Upserts(imported, table), imported, table)
         /\ Left(Import!Upserts(imported, table)) = DOMAIN imported
<1> DEFINE Same(i) == Import!Named(table, Import!NameOf(imported[i]))
           known == {i \in DOMAIN imported : Same(i) # {}}
           todo == Import!Upserts(imported, table)
<1>1. todo = [insert |-> DOMAIN imported \ known, update |-> [i \in known |-> Import!First(Same(i))]]
  BY DEF Import!Upserts
<1>2. ASSUME NEW i \in known PROVE Import!First(Same(i)) \in Same(i)
  <2>1. Same(i) \in SUBSET Import!Ids /\ Same(i) # {}
    BY DEF Import!Named
  <2> HIDE DEF Same
  <2> QED BY <2>1, FirstIs
<1>3. ASSUME NEW i \in DOMAIN imported \ known
      PROVE  Import!NameOf(imported[i]) \notin Import!NamesOf(table)
  BY DEF Import!Named, Import!NamesOf, Import!NamesIn
<1>4. \A i \in known : /\ todo.update[i] \in DOMAIN table
                       /\ Import!NameOf(table[todo.update[i]]) = Import!NameOf(imported[i])
  BY <1>1, <1>2 DEF Import!Named
<1>5. /\ todo = [insert |-> todo.insert, update |-> todo.update]
      /\ todo.update = [i \in DOMAIN todo.update |-> todo.update[i]]
      /\ todo.insert = DOMAIN imported \ known /\ DOMAIN todo.update = known
  <2> HIDE DEF Same, known
  <2> QED BY <1>1
<1>6. known \subseteq DOMAIN imported
  OBVIOUS
<1> HIDE DEF todo, known, Same
<1>7. PlanOf(todo, imported, table) /\ Left(todo) = DOMAIN imported
  BY <1>3, <1>4, <1>5, <1>6 DEF PlanOf, Left
<1> QED BY <1>7 DEF todo

\* What it plans of the groups: those that come before the first one that is there, and that one.
LEMMA GroupUpsertsPlan ==
  ASSUME NEW imported, NEW table, DOMAIN table \subseteq Import!Ids, DOMAIN imported \subseteq Import!Ids
  PROVE  /\ PlanOf(Import!GroupUpserts(imported, table), imported, table)
         /\ \A g \in DOMAIN imported :
              (\A h \in DOMAIN imported : h < g => Import!NameOf(imported[h]) \notin Import!NamesOf(table))
              => g \in Left(Import!GroupUpserts(imported, table))
<1> DEFINE all == Import!Upserts(imported, table)
           first == Import!First(DOMAIN all.update)
           todo == Import!GroupUpserts(imported, table)
<1>1. PlanOf(all, imported, table) /\ Left(all) = DOMAIN imported
  BY UpsertsPlan
<1>2. CASE DOMAIN all.update = {}
  BY <1>1, <1>2 DEF Import!GroupUpserts
<1>3. CASE DOMAIN all.update # {}
  <2>1. todo = [insert |-> {i \in all.insert : i < first}, update |-> [i \in {first} |-> all.update[i]]]
    BY <1>3 DEF Import!GroupUpserts
  <2> HIDE DEF all
  <2>2. first \in DOMAIN all.update /\ \A j \in DOMAIN all.update : first <= j
    BY <1>1, <1>3, FirstIs DEF PlanOf
  <2> HIDE DEF first, todo
  <2>3. PlanOf(todo, imported, table)
    BY <1>1, <2>1, <2>2 DEF PlanOf
  <2>4. ASSUME NEW g \in DOMAIN imported, g \notin Left(todo) PROVE first < g
    <3>1. first \in Nat /\ g \in Nat
      BY <1>1, <2>2, TablesAreWellFormed DEF Import!Ids, PlanOf
    <3>2. g # first /\ ~(g \in all.insert /\ g < first)
      BY <2>1, <2>4 DEF Left
    <3>3. g \in all.insert \/ g \in DOMAIN all.update
      BY <1>1 DEF Left
    <3> QED BY <2>2, <3>1, <3>2, <3>3
  <2>5. first \in DOMAIN imported /\ Import!NameOf(imported[first]) \in Import!NamesOf(table)
    <3>1. /\ all.update[first] \in DOMAIN table
          /\ Import!NameOf(table[all.update[first]]) = Import!NameOf(imported[first])
      BY <1>1, <2>2 DEF PlanOf
    <3> QED BY <1>1, <2>2, <3>1 DEF PlanOf, Import!NamesOf, Import!NamesIn
  <2> QED BY <2>3, <2>4, <2>5 DEF todo
<1> QED BY <1>2, <1>3

\* A plan goes on row by row.
LEMMA PlanGoesOn ==
  ASSUME NEW todo, NEW imported, NEW table, PlanOf(todo, imported, table), NEW i
  PROVE  /\ i \in todo.insert =>
              /\ PlanOf([todo EXCEPT !.insert = @ \ {i}], imported, table)
              /\ Left([todo EXCEPT !.insert = @ \ {i}]) = Left(todo) \ {i}
         /\ i \in DOMAIN todo.update =>
              /\ PlanOf([todo EXCEPT !.update = Import!Restrict(@, DOMAIN @ \ {i})], imported, table)
              /\ Left([todo EXCEPT !.update = Import!Restrict(@, DOMAIN @ \ {i})]) = Left(todo) \ {i}
<1>1. CASE i \in todo.insert
  <2> DEFINE next == [todo EXCEPT !.insert = @ \ {i}]
  <2>1. next = [insert |-> todo.insert \ {i}, update |-> todo.update]
    BY DEF PlanOf
  <2> HIDE DEF next
  <2>2. i \notin DOMAIN todo.update
    BY <1>1 DEF PlanOf
  <2>3. PlanOf(next, imported, table) /\ Left(next) = Left(todo) \ {i}
    BY <2>1, <2>2 DEF PlanOf, Left
  <2> QED BY <2>2, <2>3 DEF next
<1>2. CASE i \in DOMAIN todo.update
  <2> DEFINE next == [todo EXCEPT !.update = Import!Restrict(@, DOMAIN @ \ {i})]
             rest == [j \in DOMAIN todo.update \ {i} |-> todo.update[j]]
  <2>1. next = [insert |-> todo.insert, update |-> rest]
    BY DEF PlanOf, Import!Restrict
  <2>2. i \notin todo.insert
    BY <1>2 DEF PlanOf
  <2>3. DOMAIN rest = DOMAIN todo.update \ {i} /\ \A j \in DOMAIN rest : rest[j] = todo.update[j]
    OBVIOUS
  <2>4. rest = [j \in DOMAIN rest |-> rest[j]]
    OBVIOUS
  <2> HIDE DEF next, rest
  <2>5. PlanOf(next, imported, table) /\ Left(next) = Left(todo) \ {i}
    BY <2>1, <2>2, <2>3, <2>4 DEF PlanOf, Left
  <2> QED BY <2>2, <2>5 DEF next
<1> QED BY <1>1, <1>2

\* Which printers a row of the file stands for changes only with the map.
LEMMA MappedIs ==
  ASSUME ImportIs, PrintersWritten, Import!NamesDiffer(yaml.printers), Left(importing.printers) = {},
         NEW ps \in SUBSET DOMAIN yaml.printers, NEW qs \in SUBSET DOMAIN yaml.printers
  PROVE  /\ Import!NamesIn(db.printers, Import!Mapped(ps)) = Import!NamesIn(yaml.printers, ps)
         /\ ps \cap qs = {} => Import!Mapped(ps) \cap Import!Mapped(qs) = {}
<1> DEFINE M == importing.printerIdMap
<1>1. DOMAIN M = DOMAIN yaml.printers /\ \A p \in DOMAIN M : db.printers[M[p]] = yaml.printers[p]
  BY DEF PrintersWritten
<1>2. Import!Mapped(ps) = {M[p] : p \in ps} /\ Import!Mapped(qs) = {M[p] : p \in qs}
  BY <1>1 DEF Import!Mapped
<1> HIDE DEF M
<1>3. ASSUME NEW p \in ps, NEW q \in qs, M[p] = M[q] PROVE p = q
  BY <1>1, <1>3 DEF Import!NamesDiffer
<1> QED BY <1>1, <1>2, <1>3 DEF Import!NamesIn

\* A printer that is inserted, or updated, is mapped to a row like its own.
LEMMA PrinterWritten ==
  ASSUME ImportInv, ~importDisturbed, importing # Import!NoImport, UNCHANGED <<yaml, importDisturbed>>,
         importing.at = "write", importing.group = 0,
         NEW i \in Left(importing.printers), NEW n, NEW todo,
         PlanOf(todo, yaml.printers, importing.before.printers), Left(todo) = Left(importing.printers) \ {i},
         importing' = [importing EXCEPT !.printers = todo, !.printerIdMap = Import!Put(@, i, n)],
         Import!HasTables(db'), db'.floors = db.floors, db'.groups = db.groups,
         n \in DOMAIN db'.printers, db'.printers[n] = yaml.printers[i],
         \A j \in DOMAIN db'.printers : j \in DOMAIN db.printers \/ j = n,
         NamesTell =>
           /\ \A j \in DOMAIN db.printers : j \in DOMAIN db'.printers /\ db'.printers[j] = db.printers[j]
           /\ Import!NamesDiffer(db'.printers)
  PROVE  ImportInv'
<1> DEFINE M == importing.printerIdMap
<1>1. ImportIs
  BY DEF ImportInv
<1>2. importing' = [at |-> importing.at, printers |-> todo, floors |-> importing.floors,
                    groups |-> importing.groups, printerIdMap |-> Import!Put(M, i, n),
                    group |-> importing.group, remove |-> importing.remove, add |-> importing.add,
                    before |-> importing.before]
  BY <1>1 DEF ImportIs
<1>3. ImportIs'
  BY <1>1, <1>2 DEF ImportIs
<1>4. SUFFICES ASSUME NamesTell
               PROVE  PrintersWritten' /\ FloorsWritten' /\ GroupsWritten'
  <2>1. NamesTell' => NamesTell
    BY <1>2 DEF NamesTell
  <2> QED BY <1>3, <2>1 DEF ImportInv
<1>5. PrintersWritten /\ FloorsWritten /\ GroupsWritten
  BY <1>4 DEF ImportInv
<1>6. PrintersWritten'
  <2> DEFINE N == Import!Put(M, i, n)
  <2>1. /\ DOMAIN N = DOMAIN M \cup {i} /\ N = [j \in DOMAIN N |-> N[j]]
        /\ N[i] = n /\ \A j \in DOMAIN M : j # i => N[j] = M[j]
    BY DEF Import!Put
  <2>2. importing'.printerIdMap = N /\ importing'.printers = todo /\ importing'.before = importing.before
    BY <1>2
  <2>3. i \in DOMAIN yaml.printers /\ i \notin DOMAIN M
    BY <1>1, <1>5 DEF PrintersWritten, ImportIs, PlanOf, Left
  <2> HIDE DEF N
  <2>4. DOMAIN N = DOMAIN yaml.printers \ Left(todo)
    BY <1>5, <2>1, <2>3 DEF PrintersWritten
  <2>5. \A j \in DOMAIN N : N[j] \in DOMAIN db'.printers /\ db'.printers[N[j]] = yaml.printers[j]
    BY <1>4, <1>5, <2>1, <2>3 DEF PrintersWritten
  <2>6. \A j \in DOMAIN importing.before.printers :
          j \in DOMAIN db'.printers /\ db'.printers[j] = importing.before.printers[j]
    BY <1>4, <1>5 DEF PrintersWritten
  <2>7. \A j \in DOMAIN db'.printers : j \in DOMAIN importing.before.printers \/ \E k \in DOMAIN N : N[k] = j
    BY <1>5, <2>1, <2>3 DEF PrintersWritten
  <2>8. Import!NamesDiffer(db'.printers)
    BY <1>4
  <2>9. importing'.printerIdMap = [j \in DOMAIN importing'.printerIdMap |-> importing'.printerIdMap[j]]
    BY <2>1, <2>2
  <2>10. DOMAIN importing'.printerIdMap = DOMAIN yaml'.printers \ Left(importing'.printers)
    BY <2>2, <2>4
  <2>11. Import!NamesDiffer(db.printers)'
    BY <2>8 DEF Import!NamesDiffer
  <2> QED BY <2>2, <2>5, <2>6, <2>7, <2>9, <2>10, <2>11 DEF PrintersWritten
<1>7. FloorsWritten'
  BY <1>2, <1>5 DEF FloorsWritten, KeepsNames
<1>8. GroupsWritten'
  BY <1>2, <1>5 DEF GroupsWritten, KeepsNames, Reached
<1> QED BY <1>6, <1>7, <1>8

\* A floor that is written has its printers, and takes none from a floor that was written before.
LEMMA FloorWritten ==
  ASSUME ImportInv, ~importDisturbed, importing # Import!NoImport, UNCHANGED <<yaml, importDisturbed>>,
         importing.at = "write", importing.group = 0, Left(importing.printers) = {},
         NEW i \in Left(importing.floors), NEW id \in Import!Ids,
         \/ id \notin DOMAIN db.floors
         \/ /\ id \in DOMAIN importing.before.floors
            /\ Import!NameOf(importing.before.floors[id]) = Import!NameOf(yaml.floors[i]),
         NEW todo,
         PlanOf(todo, yaml.floors, importing.before.floors), Left(todo) = Left(importing.floors) \ {i},
         importing' = [importing EXCEPT !.floors = todo],
         db' = [db EXCEPT !.floors = Import!PlaceOn(@, id, yaml.floors[i].name, Import!Mapped(yaml.floors[i].printers))]
  PROVE  ImportInv'
<1> DEFINE ps == Import!Mapped(yaml.floors[i].printers)
           floor == [name |-> yaml.floors[i].name, printers |-> ps]
           floors == Import!PlaceOn(db.floors, id, yaml.floors[i].name, ps)
<1>1. ImportIs /\ Import!HasTables(db) /\ Import!WellFormed(yaml)
  BY DEF ImportInv
<1>2. importing' = [at |-> importing.at, printers |-> importing.printers, floors |-> todo,
                    groups |-> importing.groups, printerIdMap |-> importing.printerIdMap,
                    group |-> importing.group, remove |-> importing.remove, add |-> importing.add,
                    before |-> importing.before]
  BY <1>1 DEF ImportIs
<1>3. /\ db' = [printers |-> db.printers, floors |-> floors, groups |-> db.groups]
      /\ \A j \in DOMAIN db.floors : db.floors[j] = [name |-> db.floors[j].name, printers |-> db.floors[j].printers]
  BY <1>1 DEF Import!HasTables
<1>4. DOMAIN floors = DOMAIN db.floors \cup {id} /\ floors = [j \in DOMAIN floors |-> floors[j]]
  BY DEF Import!PlaceOn, Import!Put
<1>5. /\ floors[id] = [name |-> floors[id].name, printers |-> floors[id].printers]
      /\ floors[id].name = yaml.floors[i].name /\ floors[id].printers = ps
  <2>1. floors[id] = floor
    BY DEF Import!PlaceOn, Import!Put
  <2> HIDE DEF floors, ps
  <2> QED BY <2>1
<1>6. ASSUME NEW j \in DOMAIN db.floors, j # id
      PROVE  /\ floors[j] = [name |-> floors[j].name, printers |-> floors[j].printers]
             /\ floors[j].name = db.floors[j].name /\ floors[j].printers = db.floors[j].printers \ ps
  <2>1. floors[j] = [db.floors[j] EXCEPT !.printers = @ \ ps]
    BY <1>6 DEF Import!PlaceOn, Import!Put
  <2> HIDE DEF floors, ps
  <2>2. floors[j] = [name |-> db.floors[j].name, printers |-> db.floors[j].printers \ ps]
    BY <1>3, <2>1
  <2> QED BY <2>2
<1> HIDE DEF floors, ps
<1>7. Import!HasTables(db')
  <2>1. \A j \in DOMAIN floors : floors[j] = [name |-> floors[j].name, printers |-> floors[j].printers]
    BY <1>4, <1>5, <1>6
  <2>2. Import!IsTable(floors)
    BY <1>1, <1>4 DEF Import!HasTables, Import!IsTable
  <2> QED BY <1>1, <1>3, <2>1, <2>2 DEF Import!HasTables
<1>8. ImportIs'
  BY <1>1, <1>2 DEF ImportIs
<1>9. SUFFICES ASSUME NamesTell
               PROVE  PrintersWritten' /\ FloorsWritten' /\ GroupsWritten'
  <2>1. NamesTell' => NamesTell
    BY <1>2 DEF NamesTell
  <2> QED BY <1>1, <1>7, <1>8, <2>1 DEF ImportInv
<1>10. PrintersWritten /\ FloorsWritten /\ GroupsWritten
  BY <1>9 DEF ImportInv
<1>11. PrintersWritten'
  BY <1>2, <1>3, <1>10 DEF PrintersWritten, Import!NamesDiffer
<1>12. i \in DOMAIN yaml.floors
  BY <1>1 DEF ImportIs, PlanOf, Left
<1>13. KeepsNames(floors, importing.before.floors)
  <2> SUFFICES ASSUME NEW j \in DOMAIN importing.before.floors
               PROVE  j \in DOMAIN floors /\ Import!NameOf(floors[j]) = Import!NameOf(importing.before.floors[j])
    BY DEF KeepsNames
  <2>1. j \in DOMAIN db.floors /\ db.floors[j].name = importing.before.floors[j].name
    BY <1>10 DEF FloorsWritten, KeepsNames, Import!NameOf
  <2>2. j = id => yaml.floors[i].name = importing.before.floors[j].name
    BY <2>1 DEF Import!NameOf
  <2> QED BY <1>4, <1>5, <1>6, <2>1, <2>2 DEF Import!NameOf
<1>14. ASSUME NEW f \in DOMAIN yaml.floors \ Left(todo)
       PROVE  \E j \in DOMAIN floors : /\ floors[j].name = yaml.floors[f].name
                                       /\ floors[j].printers = Import!Mapped(yaml.floors[f].printers)
  <2>1. CASE f = i
    BY <1>4, <1>5, <2>1 DEF ps
  <2>2. CASE f # i
    <3>1. PICK j \in DOMAIN db.floors : /\ db.floors[j].name = yaml.floors[f].name
                                        /\ db.floors[j].printers = Import!Mapped(yaml.floors[f].printers)
      BY <1>10, <2>2 DEF FloorsWritten, Import!NameOf
    <3>2. yaml.floors[f].name # yaml.floors[i].name
      BY <1>9, <1>12, <2>2 DEF NamesTell, Import!NamesDiffer, Import!NameOf
    <3>3. j # id
      BY <1>10, <3>1, <3>2 DEF FloorsWritten, KeepsNames, Import!NameOf
    <3>4. Import!Mapped(yaml.floors[f].printers) \cap ps = {}
      <4>1. /\ yaml.floors[f].printers \in SUBSET DOMAIN yaml.printers
            /\ yaml.floors[i].printers \in SUBSET DOMAIN yaml.printers
            /\ yaml.floors[f].printers \cap yaml.floors[i].printers = {}
        BY <1>1, <1>12, <2>2 DEF Import!WellFormed
      <4>2. Import!NamesDiffer(yaml.printers)
        BY <1>9 DEF NamesTell
      <4> QED BY <1>1, <1>10, <4>1, <4>2, MappedIs DEF ps
    <3>5. floors[j].name = yaml.floors[f].name /\ floors[j].printers = Import!Mapped(yaml.floors[f].printers)
      <4>1. db.floors[j].printers \ ps = db.floors[j].printers
        BY <3>1, <3>4
      <4> QED BY <1>6, <3>1, <3>3, <4>1
    <3> QED BY <1>4, <3>5
  <2> QED BY <2>1, <2>2
<1>15. FloorsWritten'
  <2>1. /\ importing'.printerIdMap = importing.printerIdMap /\ importing'.before = importing.before
        /\ importing'.floors = todo /\ Left(importing'.printers) = {} /\ db'.floors = floors
    BY <1>2, <1>3
  <2>2. \A f \in DOMAIN yaml.floors \ Left(todo) : \E j \in DOMAIN floors :
          /\ Import!NameOf(floors[j]) = Import!NameOf(yaml.floors[f])
          /\ floors[j].printers = Import!Mapped(yaml.floors[f].printers)'
    <3>1. ASSUME NEW f \in DOMAIN yaml.floors
          PROVE  Import!Mapped(yaml.floors[f].printers)' = Import!Mapped(yaml.floors[f].printers)
      BY <2>1 DEF Import!Mapped
    <3> QED BY <1>14, <3>1 DEF Import!NameOf
  <2>3. KeepsNames(db.floors, importing.before.floors)'
    BY <1>13, <2>1 DEF KeepsNames
  <2> QED BY <2>1, <2>2, <2>3 DEF FloorsWritten
<1>16. GroupsWritten'
  BY <1>2, <1>3, <1>10 DEF GroupsWritten, KeepsNames, Reached, HasGroup, Import!Mapped
<1> QED BY <1>11, <1>15, <1>16

\* A group that is written is one that has its members, or gets them in the steps that follow.
LEMMA GroupWritten ==
  ASSUME ImportInv, ~importDisturbed, importing # Import!NoImport, UNCHANGED <<yaml, importDisturbed>>,
         importing.at = "write",
         NEW todo, NEW group, NEW remove, NEW add,
         PlanOf(todo, yaml.groups, importing.before.groups),
         Left(importing.printers) # {} => Left(todo) = Left(importing.groups),
         group = 0 => remove = {} /\ add = {},
         importing' = [importing EXCEPT !.groups = todo, !.group = group, !.remove = remove, !.add = add],
         Import!HasTables(db'), db'.printers = db.printers, db'.floors = db.floors,
         KeepsNames(db'.groups, db.groups),
         NamesTell => \A g \in DOMAIN yaml.groups \ Left(todo) : Reached(g) =>
           HasGroup(db'.groups, g, group, remove, add)
  PROVE  ImportInv'
<1>1. ImportIs
  BY DEF ImportInv
<1>2. importing' = [at |-> importing.at, printers |-> importing.printers, floors |-> importing.floors,
                    groups |-> todo, printerIdMap |-> importing.printerIdMap,
                    group |-> group, remove |-> remove, add |-> add, before |-> importing.before]
  BY <1>1 DEF ImportIs
<1>3. ImportIs'
  BY <1>1, <1>2 DEF ImportIs
<1>4. SUFFICES ASSUME NamesTell
               PROVE  PrintersWritten' /\ FloorsWritten' /\ GroupsWritten'
  <2>1. NamesTell' => NamesTell
    BY <1>2 DEF NamesTell
  <2> QED BY <1>3, <2>1 DEF ImportInv
<1>5. PrintersWritten /\ FloorsWritten /\ GroupsWritten
  BY <1>4 DEF ImportInv
<1>6. PrintersWritten'
  BY <1>2, <1>5 DEF PrintersWritten, Import!NamesDiffer
<1>7. FloorsWritten'
  BY <1>2, <1>5 DEF FloorsWritten, KeepsNames, Import!Mapped
<1>8. KeepsNames(db'.groups, importing.before.groups)
  BY <1>5 DEF GroupsWritten, KeepsNames
<1>9. Left(importing.printers) # {} => \A g \in DOMAIN yaml.groups : Reached(g) => g \in Left(todo)
  BY <1>5 DEF GroupsWritten
<1>10. \A g : Reached(g)' <=> Reached(g)
  BY <1>2 DEF Reached
<1>11. \A g \in DOMAIN yaml.groups \ Left(todo) : Reached(g) => HasGroup(db.groups, g, group, remove, add)'
  BY <1>2, <1>4 DEF HasGroup, Import!Mapped
<1>12. GroupsWritten'
  BY <1>2, <1>8, <1>9, <1>10, <1>11 DEF GroupsWritten, KeepsNames
<1> QED BY <1>6, <1>7, <1>12

\* What changes groups leaves tables of the other kinds.
LEMMA GroupsChange ==
  ASSUME Import!HasTables(db), NEW groups, DOMAIN groups \subseteq Import!Ids, groups = [j \in DOMAIN groups |-> groups[j]],
         \A j \in DOMAIN groups : groups[j] = [name |-> groups[j].name, printers |-> groups[j].printers],
         db' = [db EXCEPT !.groups = groups]
  PROVE  Import!HasTables(db') /\ db'.printers = db.printers /\ db'.floors = db.floors /\ db'.groups = groups
<1>1. db' = [printers |-> db.printers, floors |-> db.floors, groups |-> groups]
  BY DEF Import!HasTables
<1> QED BY <1>1 DEF Import!HasTables, Import!IsTable

\* One group gets other members, and keeps its name.
LEMMA MembersChange ==
  ASSUME Import!HasTables(db), NEW group \in DOMAIN db.groups, NEW printers,
         db' = [db EXCEPT !.groups[group].printers = printers]
  PROVE  /\ Import!HasTables(db') /\ db'.printers = db.printers /\ db'.floors = db.floors
         /\ DOMAIN db'.groups = DOMAIN db.groups /\ KeepsNames(db'.groups, db.groups)
         /\ db'.groups[group].printers = printers
         /\ \A j \in DOMAIN db.groups \ {group} : db'.groups[j] = db.groups[j]
<1> DEFINE groups == [db.groups EXCEPT ![group].printers = printers]
<1>1. /\ DOMAIN db.groups \subseteq Import!Ids
      /\ \A j \in DOMAIN db.groups : db.groups[j] = [name |-> db.groups[j].name, printers |-> db.groups[j].printers]
  BY DEF Import!HasTables, Import!IsTable
<1>2. db' = [db EXCEPT !.groups = groups]
  OBVIOUS
<1>3. /\ DOMAIN groups = DOMAIN db.groups /\ groups = [j \in DOMAIN groups |-> groups[j]]
      /\ groups[group] = [db.groups[group] EXCEPT !.printers = printers]
      /\ \A j \in DOMAIN db.groups \ {group} : groups[j] = db.groups[j]
  OBVIOUS
<1> HIDE DEF groups
<1>4. groups[group] = [name |-> db.groups[group].name, printers |-> printers]
  BY <1>1, <1>3
<1>5. \A j \in DOMAIN groups : groups[j] = [name |-> groups[j].name, printers |-> groups[j].printers]
  <2> SUFFICES ASSUME NEW j \in DOMAIN groups PROVE groups[j] = [name |-> groups[j].name, printers |-> groups[j].printers]
    OBVIOUS
  <2>1. CASE j = group
    BY <1>4, <2>1
  <2>2. CASE j # group
    BY <1>1, <1>3, <2>2
  <2> QED BY <2>1, <2>2
<1>6. Import!HasTables(db') /\ db'.printers = db.printers /\ db'.floors = db.floors /\ db'.groups = groups
  BY <1>1, <1>2, <1>3, <1>5, GroupsChange
<1>7. KeepsNames(groups, db.groups)
  BY <1>3, <1>4 DEF KeepsNames, Import!NameOf
<1> QED BY <1>3, <1>4, <1>6, <1>7

\* The file is what it was, and once disturbed an import is of no account.
LEMMA Disturbed ==
  ASSUME [Import!YamlNext]_yamlVars
  PROVE  UNCHANGED yaml /\ (importDisturbed => importDisturbed')
<1>1. CASE Import!StartImport \/ Import!AnalyseFloors \/ Import!AnalyseGroups \/ Import!GroupDone
           \/ Import!ImportDone \/ Import!ImportFails
  BY <1>1 DEF Import!StartImport, Import!AnalyseFloors, Import!AnalyseGroups, Import!GroupDone,
              Import!ImportDone, Import!ImportFails
<1>2. ASSUME NEW i \in Import!Ids, \/ Import!InsertPrinter(i) \/ Import!UpdatePrinter(i) \/ Import!InsertFloor(i)
                                   \/ Import!UpdateFloor(i) \/ Import!CreateGroup(i) \/ Import!CompareGroup(i)
      PROVE  UNCHANGED <<yaml, importDisturbed>>
  BY <1>2 DEF Import!InsertPrinter, Import!UpdatePrinter, Import!InsertFloor, Import!UpdateFloor,
              Import!WriteFloor, Import!CreateGroup, Import!CompareGroup
<1>3. ASSUME NEW p \in Import!Ids, Import!RemovePrinterFromGroup(p) \/ Import!AddPrinterToGroup(p)
      PROVE  UNCHANGED <<yaml, importDisturbed>>
  BY <1>3 DEF Import!RemovePrinterFromGroup, Import!AddPrinterToGroup
<1>4. ASSUME NEW tables, Import!Disturb(tables) PROVE UNCHANGED yaml /\ importDisturbed'
  BY <1>4 DEF Import!Disturb
<1>5. CASE UNCHANGED yamlVars
  BY <1>5 DEF yamlVars
<1> QED BY <1>1, <1>2, <1>3, <1>4, <1>5 DEF Import!YamlNext, Import!DeletePrinterRow,
                                            Import!DeleteGroup, Import!DeleteFloor

LEMMA ImportKeep ==
  ASSUME ImportInv, [Import!YamlNext]_yamlVars
  PROVE  ImportInv'
<1> USE DEF Import!Writing
<1>1. UNCHANGED yaml /\ (importDisturbed => importDisturbed')
  BY Disturbed
<1>2. SUFFICES ASSUME ~importDisturbed, ~importDisturbed' PROVE ImportInv'
  BY <1>1 DEF ImportInv
<1>3. /\ Import!WellFormed(yaml) /\ Import!HasTables(yaml) /\ Import!HasTables(db)
      /\ importing # Import!NoImport => ImportIs
  BY <1>2 DEF ImportInv, Import!WellFormed
<1>4. \A at : importing.at = at /\ at # "idle" => importing # Import!NoImport
  BY DEF Import!NoImport
\* The steps of the analysis.
<1>5. CASE Import!StartImport
  <2> DEFINE todo == Import!Upserts(yaml.printers, db.printers)
  <2>1. /\ importing' = [at |-> "printers", printers |-> todo, floors |-> Import!NoUpserts, groups |-> Import!NoUpserts,
                         printerIdMap |-> Import!NoRows, group |-> 0, remove |-> {}, add |-> {}, before |-> db]
        /\ UNCHANGED <<yaml, db, importDisturbed>>
    BY <1>5 DEF Import!StartImport
  <2>2. PlanOf(todo, yaml.printers, db.printers) /\ Left(todo) = DOMAIN yaml.printers
    BY <1>3, UpsertsPlan DEF Import!HasTables, Import!IsTable
  <2> HIDE DEF todo
  <2>3. ImportIs'
    BY <1>3, <2>1, <2>2 DEF ImportIs
  <2>4. NamesTell' => PrintersWritten'
    BY <2>1, <2>2 DEF PrintersWritten, NamesTell, Import!NoRows
  <2>5. FloorsWritten' /\ GroupsWritten'
    BY <2>1 DEF FloorsWritten, GroupsWritten, KeepsNames
  <2> QED BY <1>3, <2>1, <2>3, <2>4, <2>5 DEF ImportInv
<1>6. CASE Import!AnalyseFloors
  <2> DEFINE todo == Import!Upserts(yaml.floors, db.floors)
  <2>1. /\ importing.at = "printers" /\ UNCHANGED <<yaml, db, importDisturbed>>
        /\ importing' = [importing EXCEPT !.at = "floors", !.floors = todo]
    BY <1>6 DEF Import!AnalyseFloors
  <2>2. importing # Import!NoImport /\ ImportIs
    BY <1>3, <1>4, <2>1
  <2>3. PlanOf(todo, yaml.floors, db.floors) /\ Left(todo) = DOMAIN yaml.floors
    BY <1>3, UpsertsPlan DEF Import!HasTables, Import!IsTable
  <2> HIDE DEF todo
  <2>4. importing' = [at |-> "floors", printers |-> importing.printers, floors |-> todo,
                      groups |-> importing.groups, printerIdMap |-> importing.printerIdMap,
                      group |-> importing.group, remove |-> importing.remove, add |-> importing.add,
                      before |-> importing.before]
    BY <2>1, <2>2 DEF ImportIs
  <2>5. ImportIs'
    BY <2>1, <2>2, <2>3, <2>4 DEF ImportIs
  <2>6. NamesTell' => NamesTell /\ PrintersWritten'
    BY <1>2, <2>1, <2>2, <2>4 DEF ImportInv, PrintersWritten, NamesTell, Import!NamesDiffer
  <2>7. FloorsWritten' /\ GroupsWritten'
    BY <2>1, <2>2, <2>4 DEF FloorsWritten, GroupsWritten, KeepsNames, ImportIs
  <2> QED BY <1>3, <2>1, <2>5, <2>6, <2>7 DEF ImportInv
<1>7. CASE Import!AnalyseGroups
  <2> DEFINE todo == Import!GroupUpserts(yaml.groups, db.groups)
  <2>1. /\ importing.at = "floors" /\ UNCHANGED <<yaml, db, importDisturbed>>
        /\ importing' = [importing EXCEPT !.at = "write", !.groups = todo]
    BY <1>7 DEF Import!AnalyseGroups
  <2>2. importing # Import!NoImport /\ ImportIs
    BY <1>3, <1>4, <2>1
  <2>3. /\ PlanOf(todo, yaml.groups, db.groups)
        /\ \A g \in DOMAIN yaml.groups :
             (\A h \in DOMAIN yaml.groups : h < g => Import!NameOf(yaml.groups[h]) \notin Import!NamesOf(db.groups))
             => g \in Left(todo)
    BY <1>3, GroupUpsertsPlan DEF Import!HasTables, Import!IsTable
  <2> HIDE DEF todo
  <2>4. importing' = [at |-> "write", printers |-> importing.printers, floors |-> importing.floors,
                      groups |-> todo, printerIdMap |-> importing.printerIdMap,
                      group |-> importing.group, remove |-> importing.remove, add |-> importing.add,
                      before |-> importing.before]
    BY <2>1, <2>2 DEF ImportIs
  <2>5. importing.before = db
    BY <2>1, <2>2 DEF ImportIs
  <2>6. ImportIs'
    BY <2>1, <2>2, <2>3, <2>4, <2>5 DEF ImportIs
  <2>7. NamesTell' => NamesTell /\ PrintersWritten'
    BY <1>2, <2>1, <2>2, <2>4 DEF ImportInv, PrintersWritten, NamesTell, Import!NamesDiffer
  <2>8. FloorsWritten'
    BY <2>1, <2>2, <2>4, <2>5 DEF FloorsWritten, KeepsNames, ImportIs
  <2>9. \A g \in DOMAIN yaml.groups : Reached(g)' => g \in Left(todo)
    BY <2>1, <2>3, <2>4, <2>5 DEF Reached
  <2>10. GroupsWritten'
    BY <2>1, <2>4, <2>5, <2>9 DEF GroupsWritten, KeepsNames
  <2> QED BY <1>3, <2>1, <2>6, <2>7, <2>8, <2>10 DEF ImportInv
\* The writes.
<1>8. ASSUME NEW part \in {"printers", "floors", "groups"}, Import!Writing(part)
      PROVE  /\ importing.at = "write" /\ importing.group = 0 /\ importing # Import!NoImport /\ ImportIs
             /\ importing.remove = {} /\ importing.add = {}
             /\ part # "printers" => Left(importing.printers) = {}
  <2>1. importing.at = "write" /\ importing.group = 0 /\ importing # Import!NoImport /\ ImportIs
    BY <1>3, <1>4, <1>8
  <2> QED BY <1>8, <2>1 DEF ImportIs, Left, Import!NoRows
<1>9. ASSUME NEW i \in Import!Ids, Import!InsertPrinter(i) PROVE ImportInv'
  <2> DEFINE n == Import!NewId(db.printers)
             todo == [importing.printers EXCEPT !.insert = @ \ {i}]
             printers == Import!Put(db.printers, n, yaml.printers[i])
  <2>1. /\ Import!Writing("printers") /\ Import!HasRoom(db.printers) /\ i \in importing.printers.insert
        /\ UNCHANGED <<yaml, importDisturbed>>
    <3>1. Import!Writing("printers") /\ Import!HasRoom(db.printers) /\ Import!Upcoming("printers", "insert", i)
          /\ UNCHANGED <<yaml, importDisturbed>>
      BY <1>9 DEF Import!InsertPrinter
    <3>2. importing.printers.insert \in SUBSET Import!Ids
      BY <1>3, <1>8, <3>1 DEF ImportIs, PlanOf, Import!HasTables, Import!IsTable
    <3>3. importing.printers.insert # {} /\ i = Import!First(importing.printers.insert)
      BY <3>1 DEF Import!Upcoming
    <3> QED BY <3>1, <3>2, <3>3, FirstIs
  <2>2. importing' = [importing EXCEPT !.printers = todo, !.printerIdMap = Import!Put(@, i, n)]
    BY <1>8, <1>9, <2>1 DEF Import!InsertPrinter, Import!Inserted, ImportIs
  <2>3. db' = [printers |-> printers, floors |-> db.floors, groups |-> db.groups]
    BY <1>3, <1>9 DEF Import!InsertPrinter, Import!HasTables
  <2>4. n \in Import!Ids \ DOMAIN db.printers
    BY <1>3, <2>1, NewIdIs DEF Import!HasTables, Import!IsTable
  <2>5. PlanOf(todo, yaml.printers, importing.before.printers) /\ Left(todo) = Left(importing.printers) \ {i}
    BY <1>8, <2>1, PlanGoesOn DEF ImportIs
  <2>6. i \in Left(importing.printers) /\ i \in DOMAIN yaml.printers
    BY <1>8, <2>1 DEF ImportIs, PlanOf, Left
  <2> HIDE DEF todo, n
  <2>7. /\ DOMAIN printers = DOMAIN db.printers \cup {n} /\ printers = [j \in DOMAIN printers |-> printers[j]]
        /\ printers[n] = yaml.printers[i]
        /\ \A j \in DOMAIN db.printers : printers[j] = db.printers[j]
    BY <2>4 DEF Import!Put
  <2> HIDE DEF printers
  <2>8. Import!HasTables(db')
    <3>1. Import!IsTable(printers)
      BY <1>3, <2>4, <2>7 DEF Import!IsTable, Import!HasTables
    <3>2. \A j \in DOMAIN printers : printers[j] = [name |-> printers[j].name]
      BY <1>3, <2>6, <2>7 DEF Import!HasTables
    <3> QED BY <1>3, <2>3, <3>1, <3>2 DEF Import!HasTables
  <2>9. ASSUME NamesTell PROVE Import!NamesDiffer(printers)
    <3>1. PrintersWritten /\ Import!NamesDiffer(yaml.printers)
      BY <1>2, <1>8, <2>1, <2>9 DEF ImportInv, NamesTell
    <3>2. ASSUME NEW j \in DOMAIN db.printers PROVE db.printers[j].name # yaml.printers[i].name
      <4>1. CASE j \in DOMAIN importing.before.printers
        <5>1. yaml.printers[i].name \notin Import!NamesOf(importing.before.printers)
          BY <1>8, <2>1 DEF ImportIs, PlanOf, Import!NameOf
        <5> QED BY <3>1, <4>1, <5>1 DEF PrintersWritten, Import!NamesOf, Import!NamesIn, Import!NameOf
      <4>2. CASE j \notin DOMAIN importing.before.printers
        <5>1. PICK k \in DOMAIN importing.printerIdMap : importing.printerIdMap[k] = j
          BY <3>1, <4>2 DEF PrintersWritten
        <5>2. k \in DOMAIN yaml.printers /\ k # i /\ db.printers[j] = yaml.printers[k]
          BY <2>6, <3>1, <5>1 DEF PrintersWritten
        <5> QED BY <2>6, <3>1, <5>2 DEF Import!NamesDiffer, Import!NameOf
      <4> QED BY <4>1, <4>2
    <3> QED BY <2>7, <3>1, <3>2 DEF PrintersWritten, Import!NamesDiffer, Import!NameOf
  <2>10. /\ n \in DOMAIN db'.printers /\ db'.printers[n] = yaml.printers[i] /\ db'.floors = db.floors /\ db'.groups = db.groups
         /\ \A j \in DOMAIN db.printers : j \in DOMAIN db'.printers /\ db'.printers[j] = db.printers[j]
         /\ \A j \in DOMAIN db'.printers : j \in DOMAIN db.printers \/ j = n
         /\ NamesTell => Import!NamesDiffer(db'.printers)
    BY <2>3, <2>7, <2>9
  <2> QED BY <1>2, <1>8, <2>1, <2>2, <2>5, <2>6, <2>8, <2>10, PrinterWritten
<1>10. ASSUME NEW i \in Import!Ids, Import!UpdatePrinter(i) PROVE ImportInv'
  <2> DEFINE u == importing.printers.update[i]
             todo == [importing.printers EXCEPT !.update = Import!Restrict(@, DOMAIN @ \ {i})]
             printers == [db.printers EXCEPT ![u] = yaml.printers[i]]
  <2>1. /\ Import!Writing("printers") /\ i \in DOMAIN importing.printers.update /\ u \in DOMAIN db.printers
        /\ UNCHANGED <<yaml, importDisturbed>>
    BY <1>10 DEF Import!UpdatePrinter, Import!Upcoming
  <2>2. importing' = [importing EXCEPT !.printers = todo, !.printerIdMap = Import!Put(@, i, u)]
    <3>0. todo = [importing.printers EXCEPT !.update = Import!Restrict(@, DOMAIN @ \ {i})]
      OBVIOUS
    <3> HIDE DEF todo
    <3>1. Import!UpdatedRow("printers", i) = [importing EXCEPT !.printers = todo]
      BY <3>0 DEF Import!UpdatedRow
    <3>2. importing' = [Import!UpdatedRow("printers", i) EXCEPT !.printerIdMap = Import!Put(@, i, u)]
      BY <1>10 DEF Import!UpdatePrinter, Import!MappedTo
    <3> HIDE DEF todo, u
    <3> QED BY <1>8, <2>1, <3>1, <3>2 DEF ImportIs
  <2>3. db' = [printers |-> printers, floors |-> db.floors, groups |-> db.groups]
    BY <1>3, <1>10 DEF Import!UpdatePrinter, Import!HasTables
  <2>4. PlanOf(todo, yaml.printers, importing.before.printers) /\ Left(todo) = Left(importing.printers) \ {i}
    BY <1>8, <2>1, PlanGoesOn DEF ImportIs
  <2>5. i \in Left(importing.printers) /\ i \in DOMAIN yaml.printers
    BY <1>8, <2>1 DEF ImportIs, PlanOf, Left
  <2>6. u \in DOMAIN importing.before.printers /\ importing.before.printers[u].name = yaml.printers[i].name
    BY <1>8, <2>1 DEF ImportIs, PlanOf, Import!NameOf
  <2> HIDE DEF todo, u
  <2>7. /\ DOMAIN printers = DOMAIN db.printers /\ printers = [j \in DOMAIN printers |-> printers[j]]
        /\ printers[u] = yaml.printers[i] /\ \A j \in DOMAIN db.printers : j # u => printers[j] = db.printers[j]
    BY <2>1
  <2> HIDE DEF printers
  <2>8. Import!HasTables(db')
    <3>1. Import!IsTable(printers)
      BY <1>3, <2>7 DEF Import!IsTable, Import!HasTables
    <3>2. \A j \in DOMAIN printers : printers[j] = [name |-> printers[j].name]
      BY <1>3, <2>5, <2>7 DEF Import!HasTables
    <3> QED BY <1>3, <2>3, <3>1, <3>2 DEF Import!HasTables
  <2>9. ASSUME NamesTell
        PROVE  (\A j \in DOMAIN db.printers : printers[j] = db.printers[j]) /\ Import!NamesDiffer(printers)
    <3>1. PrintersWritten
      BY <1>2, <1>8, <2>1, <2>9 DEF ImportInv
    <3>2. db.printers[u] = importing.before.printers[u]
      BY <2>6, <3>1 DEF PrintersWritten
    <3>3. importing.before.printers[u] = yaml.printers[i]
      BY <1>3, <1>8, <2>1, <2>5, <2>6 DEF ImportIs, Import!HasTables
    <3>4. \A j \in DOMAIN db.printers : printers[j] = db.printers[j]
      BY <2>7, <3>2, <3>3
    <3> QED BY <2>7, <3>1, <3>4 DEF PrintersWritten, Import!NamesDiffer
  <2>10. /\ u \in DOMAIN db'.printers /\ db'.printers[u] = yaml.printers[i] /\ db'.floors = db.floors /\ db'.groups = db.groups
         /\ \A j \in DOMAIN db'.printers : j \in DOMAIN db.printers \/ j = u
         /\ NamesTell => /\ \A j \in DOMAIN db.printers : j \in DOMAIN db'.printers /\ db'.printers[j] = db.printers[j]
                         /\ Import!NamesDiffer(db'.printers)
    BY <2>1, <2>3, <2>7, <2>9 DEF u
  <2> QED BY <1>2, <1>8, <2>1, <2>2, <2>4, <2>5, <2>8, <2>10, PrinterWritten
<1>11. ASSUME NEW i \in Import!Ids, Import!InsertFloor(i) PROVE ImportInv'
  <2> DEFINE id == Import!NewId(db.floors)
             todo == [importing.floors EXCEPT !.insert = @ \ {i}]
  <2>1. /\ Import!Writing("floors") /\ Import!HasRoom(db.floors) /\ i \in importing.floors.insert
        /\ UNCHANGED <<yaml, importDisturbed>>
    <3>1. Import!Writing("floors") /\ Import!HasRoom(db.floors) /\ Import!Upcoming("floors", "insert", i)
          /\ UNCHANGED <<yaml, importDisturbed>>
      BY <1>11 DEF Import!InsertFloor, Import!WriteFloor
    <3>2. importing.floors.insert \in SUBSET Import!Ids
      BY <1>3, <1>8, <3>1 DEF ImportIs, PlanOf, Import!HasTables, Import!IsTable
    <3>3. importing.floors.insert # {} /\ i = Import!First(importing.floors.insert)
      BY <3>1 DEF Import!Upcoming
    <3> QED BY <3>1, <3>2, <3>3, FirstIs
  <2>2. /\ importing' = [importing EXCEPT !.floors = todo]
        /\ db' = [db EXCEPT !.floors = Import!PlaceOn(@, id, yaml.floors[i].name, Import!Mapped(yaml.floors[i].printers))]
    BY <1>11 DEF Import!InsertFloor, Import!WriteFloor, Import!Inserted
  <2>3. id \in Import!Ids \ DOMAIN db.floors
    BY <1>3, <2>1, NewIdIs DEF Import!HasTables, Import!IsTable
  <2>4. PlanOf(todo, yaml.floors, importing.before.floors) /\ Left(todo) = Left(importing.floors) \ {i}
    BY <1>8, <2>1, PlanGoesOn DEF ImportIs
  <2>5. i \in Left(importing.floors)
    BY <2>1 DEF Left
  <2> HIDE DEF todo, id
  <2> QED BY <1>2, <1>8, <2>1, <2>2, <2>3, <2>4, <2>5, FloorWritten
<1>12. ASSUME NEW i \in Import!Ids, Import!UpdateFloor(i) PROVE ImportInv'
  <2> DEFINE id == importing.floors.update[i]
             todo == [importing.floors EXCEPT !.update = Import!Restrict(@, DOMAIN @ \ {i})]
  <2>1. /\ Import!Writing("floors") /\ i \in DOMAIN importing.floors.update /\ id \in DOMAIN db.floors
        /\ UNCHANGED <<yaml, importDisturbed>>
    BY <1>12 DEF Import!UpdateFloor, Import!WriteFloor, Import!Upcoming
  <2>2. /\ importing' = [importing EXCEPT !.floors = todo]
        /\ db' = [db EXCEPT !.floors = Import!PlaceOn(@, id, yaml.floors[i].name, Import!Mapped(yaml.floors[i].printers))]
    <3>0. todo = [importing.floors EXCEPT !.update = Import!Restrict(@, DOMAIN @ \ {i})]
      OBVIOUS
    <3> HIDE DEF todo
    <3>1. Import!UpdatedRow("floors", i) = [importing EXCEPT !.floors = todo]
      BY <3>0 DEF Import!UpdatedRow
    <3> HIDE DEF todo
    <3> QED BY <1>12, <3>1 DEF Import!UpdateFloor, Import!WriteFloor
  <2>3. /\ id \in Import!Ids /\ id \in DOMAIN importing.before.floors
        /\ Import!NameOf(importing.before.floors[id]) = Import!NameOf(yaml.floors[i])
    BY <1>3, <1>8, <2>1 DEF Import!HasTables, Import!IsTable, ImportIs, PlanOf
  <2>4. PlanOf(todo, yaml.floors, importing.before.floors) /\ Left(todo) = Left(importing.floors) \ {i}
    BY <1>8, <2>1, PlanGoesOn DEF ImportIs
  <2>5. i \in Left(importing.floors)
    BY <2>1 DEF Left
  <2> HIDE DEF todo, id
  <2> QED BY <1>2, <1>8, <2>1, <2>2, <2>3, <2>4, <2>5, FloorWritten
<1>13. ASSUME NEW i \in Import!Ids, Import!CreateGroup(i) PROVE ImportInv'
  <2> DEFINE id == Import!NewId(db.groups)
             todo == [importing.groups EXCEPT !.insert = @ \ {i}]
             new == [name |-> yaml.groups[i].name, printers |-> {}]
             groups == Import!Put(db.groups, id, new)
             members == Import!Mapped(yaml.groups[i].printers)
  <2>1. /\ Import!Writing("groups") /\ Import!HasRoom(db.groups) /\ i \in importing.groups.insert
        /\ UNCHANGED <<yaml, importDisturbed>>
    <3>1. Import!Writing("groups") /\ Import!HasRoom(db.groups) /\ Import!Upcoming("groups", "insert", i)
          /\ UNCHANGED <<yaml, importDisturbed>>
      BY <1>13 DEF Import!CreateGroup
    <3>2. importing.groups.insert \in SUBSET Import!Ids
      BY <1>3, <1>8, <3>1 DEF ImportIs, PlanOf, Import!HasTables, Import!IsTable
    <3>3. importing.groups.insert # {} /\ i = Import!First(importing.groups.insert)
      BY <3>1 DEF Import!Upcoming
    <3> QED BY <3>1, <3>2, <3>3, FirstIs
  <2>2. db' = [db EXCEPT !.groups = groups]
    BY <1>13 DEF Import!CreateGroup
  <2>3. importing' = [importing EXCEPT !.groups = todo, !.group = id, !.remove = {}, !.add = members]
    <3>1. importing' = [importing EXCEPT !.groups = todo, !.group = id, !.add = members]
      BY <1>8, <1>13, <2>1 DEF Import!CreateGroup, Import!Inserted, ImportIs
    <3> HIDE DEF todo, id, members
    <3> QED BY <1>8, <2>1, <3>1 DEF ImportIs
  <2>4. id \in Import!Ids \ DOMAIN db.groups
    BY <1>3, <2>1, NewIdIs DEF Import!HasTables, Import!IsTable
  <2>5. id # 0 /\ \A j \in DOMAIN db.groups : j # id /\ j # importing.group
    BY <1>3, <1>8, <2>1, <2>4, TablesAreWellFormed DEF Import!Ids, Import!HasTables, Import!IsTable
  <2>6. PlanOf(todo, yaml.groups, importing.before.groups) /\ Left(todo) = Left(importing.groups) \ {i}
    BY <1>8, <2>1, PlanGoesOn DEF ImportIs
  <2>7. Left(importing.printers) = {}
    BY <1>8, <2>1
  <2> HIDE DEF todo, id, members
  <2>8. /\ DOMAIN groups = DOMAIN db.groups \cup {id} /\ groups = [j \in DOMAIN groups |-> groups[j]]
        /\ groups[id] = new /\ \A j \in DOMAIN db.groups : groups[j] = db.groups[j]
    BY <2>5 DEF Import!Put
  <2> HIDE DEF groups
  <2>9. \A j \in DOMAIN groups : groups[j] = [name |-> groups[j].name, printers |-> groups[j].printers]
    BY <1>3, <2>8 DEF Import!HasTables
  <2>10. Import!HasTables(db') /\ db'.printers = db.printers /\ db'.floors = db.floors /\ db'.groups = groups
    <3>1. DOMAIN groups \subseteq Import!Ids
      BY <1>3, <2>4, <2>8 DEF Import!HasTables, Import!IsTable
    <3> QED BY <1>3, <2>2, <2>8, <2>9, <3>1, GroupsChange
  <2>11. KeepsNames(db'.groups, db.groups)
    BY <2>8, <2>10 DEF KeepsNames
  <2>12. ASSUME NamesTell, NEW g \in DOMAIN yaml.groups \ Left(todo), Reached(g)
         PROVE  HasGroup(db'.groups, g, id, {}, members)
    <3>1. CASE g = i
      <4>1. db'.groups[id].name = yaml.groups[i].name /\ db'.groups[id].printers = {} /\ id \in DOMAIN db'.groups
        BY <2>8, <2>10
      <4> QED BY <3>1, <4>1 DEF members, HasGroup, Import!NameOf
    <3>2. CASE g # i
      <4>1. PICK j \in DOMAIN db.groups : /\ db.groups[j].name = yaml.groups[g].name
                                          /\ db.groups[j].printers = Import!Mapped(yaml.groups[g].printers)
        BY <1>2, <1>8, <2>1, <2>5, <2>6, <2>12, <3>2 DEF ImportInv, GroupsWritten, HasGroup,
                                                         Import!NameOf
      <4> QED BY <2>5, <2>8, <2>10, <4>1 DEF HasGroup, Import!NameOf
    <3> QED BY <3>1, <3>2
  <2> HIDE DEF ImportInv
  <2> QED BY <1>2, <1>8, <2>1, <2>3, <2>5, <2>6, <2>7, <2>10, <2>11, <2>12, GroupWritten
<1>14. ASSUME NEW i \in Import!Ids, Import!CompareGroup(i) PROVE ImportInv'
  <2> DEFINE id == importing.groups.update[i]
             todo == [importing.groups EXCEPT !.update = Import!Restrict(@, DOMAIN @ \ {i})]
             members == Import!Mapped(yaml.groups[i].printers)
             remove == db.groups[id].printers \ members
             add == members \ db.groups[id].printers
  <2>1. /\ Import!Writing("groups") /\ i \in DOMAIN importing.groups.update /\ id \in DOMAIN db.groups
        /\ UNCHANGED <<yaml, db, importDisturbed>>
    BY <1>14 DEF Import!CompareGroup, Import!Upcoming
  <2>2. importing' = [importing EXCEPT !.groups = todo, !.group = id, !.remove = remove, !.add = add]
    <3>0. todo = [importing.groups EXCEPT !.update = Import!Restrict(@, DOMAIN @ \ {i})]
      OBVIOUS
    <3> HIDE DEF todo
    <3>1. Import!UpdatedRow("groups", i) = [importing EXCEPT !.groups = todo]
      BY <3>0 DEF Import!UpdatedRow
    <3>2. importing' = [Import!UpdatedRow("groups", i) EXCEPT !.group = id, !.remove = remove, !.add = add]
      BY <1>14 DEF Import!CompareGroup
    <3> HIDE DEF id, remove, add
    <3> QED BY <1>8, <2>1, <3>1, <3>2 DEF ImportIs
  <2>3. /\ id \in Import!Ids /\ id \in DOMAIN importing.before.groups
        /\ Import!NameOf(importing.before.groups[id]) = Import!NameOf(yaml.groups[i])
    BY <1>3, <1>8, <2>1 DEF Import!HasTables, Import!IsTable, ImportIs, PlanOf
  <2>4. PlanOf(todo, yaml.groups, importing.before.groups) /\ Left(todo) = Left(importing.groups) \ {i}
    BY <1>8, <2>1, PlanGoesOn DEF ImportIs
  <2>5. id # 0 /\ \A j \in DOMAIN db.groups : j # importing.group
    BY <1>3, <1>8, <2>1, <2>3, TablesAreWellFormed DEF Import!Ids, Import!HasTables, Import!IsTable
  <2>6. Left(importing.printers) = {} /\ i \in DOMAIN yaml.groups
    BY <1>8, <2>1 DEF ImportIs, PlanOf
  <2>7. (db.groups[id].printers \ remove) \cup add = members
    OBVIOUS
  <2> HIDE DEF todo, id, members, remove, add
  <2>8. ASSUME NamesTell, NEW g \in DOMAIN yaml.groups \ Left(todo), Reached(g)
        PROVE  HasGroup(db.groups, g, id, remove, add)
    <3>1. GroupsWritten
      BY <1>2, <1>8, <2>1, <2>8 DEF ImportInv
    <3>2. db.groups[id].name = yaml.groups[i].name
      BY <2>3, <3>1 DEF GroupsWritten, KeepsNames, Import!NameOf
    <3>3. CASE g = i
      BY <2>1, <2>7, <3>2, <3>3 DEF members, HasGroup, Import!NameOf
    <3>4. CASE g # i
      <4>1. PICK j \in DOMAIN db.groups : /\ db.groups[j].name = yaml.groups[g].name
                                          /\ db.groups[j].printers = Import!Mapped(yaml.groups[g].printers)
        BY <1>8, <2>1, <2>4, <2>5, <2>8, <3>1, <3>4 DEF GroupsWritten, HasGroup, Import!NameOf
      <4>2. yaml.groups[g].name # yaml.groups[i].name
        BY <2>6, <2>8, <3>4 DEF NamesTell, Import!NamesDiffer, Import!NameOf
      <4> QED BY <3>2, <4>1, <4>2 DEF HasGroup, Import!NameOf
    <3> QED BY <3>3, <3>4
  <2>9. /\ Import!HasTables(db') /\ db'.printers = db.printers /\ db'.floors = db.floors
        /\ KeepsNames(db'.groups, db.groups)
    BY <1>3, <2>1 DEF KeepsNames
  <2> HIDE DEF ImportInv
  <2> QED BY <1>2, <1>8, <2>1, <2>2, <2>4, <2>5, <2>6, <2>8, <2>9, GroupWritten
\* The group in progress loses or gets a member: what it ends up with is the same.
<1>15. ASSUME NEW printers, NEW remove, NEW add, importing.at = "write", importing.group \in DOMAIN db.groups,
              UNCHANGED <<yaml, importDisturbed>>,
              importing' = [importing EXCEPT !.remove = remove, !.add = add],
              db' = [db EXCEPT !.groups[importing.group].printers = printers],
              (printers \ remove) \cup add = (db.groups[importing.group].printers \ importing.remove) \cup importing.add
       PROVE  ImportInv'
  <2>1. importing # Import!NoImport /\ ImportIs /\ importing.group # 0
    BY <1>3, <1>4, <1>15, TablesAreWellFormed DEF Import!Ids, Import!HasTables, Import!IsTable
  <2>2. importing' = [importing EXCEPT !.groups = importing.groups, !.group = importing.group, !.remove = remove, !.add = add]
    BY <1>15, <2>1 DEF ImportIs
  <2>3. /\ Import!HasTables(db') /\ db'.printers = db.printers /\ db'.floors = db.floors
        /\ DOMAIN db'.groups = DOMAIN db.groups /\ KeepsNames(db'.groups, db.groups)
        /\ db'.groups[importing.group].printers = printers
        /\ \A j \in DOMAIN db.groups \ {importing.group} : db'.groups[j] = db.groups[j]
    BY <1>3, <1>15, MembersChange
  <2>4. ASSUME NamesTell, NEW g \in DOMAIN yaml.groups \ Left(importing.groups), Reached(g)
        PROVE  HasGroup(db'.groups, g, importing.group, remove, add)
    <3>1. HasGroup(db.groups, g, importing.group, importing.remove, importing.add)
      BY <1>2, <1>15, <2>1, <2>4 DEF ImportInv, GroupsWritten
    <3> QED BY <1>15, <2>3, <3>1 DEF HasGroup, KeepsNames
  <2>5. PlanOf(importing.groups, yaml.groups, importing.before.groups)
    BY <1>15, <2>1 DEF ImportIs
  <2> HIDE DEF ImportInv
  <2> QED BY <1>2, <1>15, <2>1, <2>2, <2>3, <2>4, <2>5, GroupWritten
<1>16. ASSUME NEW p \in Import!Ids, Import!RemovePrinterFromGroup(p) PROVE ImportInv'
  <2> DEFINE printers == db.groups[importing.group].printers \ {p}
             remove == importing.remove \ {p}
  <2>1. /\ importing.at = "write" /\ importing.group \in DOMAIN db.groups /\ p \in importing.remove
        /\ UNCHANGED <<yaml, importDisturbed>>
        /\ importing' = [importing EXCEPT !.remove = remove]
        /\ db' = [db EXCEPT !.groups[importing.group].printers = printers]
    BY <1>16 DEF Import!RemovePrinterFromGroup
  <2>2. (printers \ remove) \cup importing.add
          = (db.groups[importing.group].printers \ importing.remove) \cup importing.add
    BY <2>1
  <2> HIDE DEF printers, remove
  <2>3. importing' = [importing EXCEPT !.remove = remove, !.add = importing.add]
    BY <1>3, <1>4, <2>1 DEF ImportIs
  <2> QED BY <1>15, <2>1, <2>2, <2>3
<1>17. ASSUME NEW p \in Import!Ids, Import!AddPrinterToGroup(p) PROVE ImportInv'
  <2> DEFINE printers == db.groups[importing.group].printers \cup {p}
             add == importing.add \ {p}
  <2>1. /\ importing.at = "write" /\ importing.group \in DOMAIN db.groups /\ p \in importing.add
        /\ importing.remove = {} /\ UNCHANGED <<yaml, importDisturbed>>
        /\ importing' = [importing EXCEPT !.add = add]
        /\ db' = [db EXCEPT !.groups[importing.group].printers = printers]
    BY <1>17 DEF Import!AddPrinterToGroup
  <2>2. (printers \ {}) \cup add
          = (db.groups[importing.group].printers \ importing.remove) \cup importing.add
    BY <2>1
  <2> HIDE DEF printers, add
  <2>3. importing' = [importing EXCEPT !.remove = {}, !.add = add]
    BY <1>3, <1>4, <2>1 DEF ImportIs
  <2> QED BY <1>15, <2>1, <2>2, <2>3
<1>18. CASE Import!GroupDone
  <2>1. /\ importing.at = "write" /\ importing.remove = {} /\ importing.add = {}
        /\ importing' = [importing EXCEPT !.group = 0] /\ UNCHANGED <<yaml, db, importDisturbed>>
    BY <1>18 DEF Import!GroupDone
  <2>2. importing # Import!NoImport /\ ImportIs
    BY <1>3, <1>4, <2>1
  <2>3. importing' = [importing EXCEPT !.groups = importing.groups, !.group = 0, !.remove = {}, !.add = {}]
    BY <2>1, <2>2 DEF ImportIs
  <2>4. PlanOf(importing.groups, yaml.groups, importing.before.groups)
    BY <2>1, <2>2 DEF ImportIs
  <2>5. ASSUME NamesTell, NEW g \in DOMAIN yaml.groups \ Left(importing.groups), Reached(g)
        PROVE  HasGroup(db'.groups, g, 0, {}, {})
    <3>1. HasGroup(db.groups, g, importing.group, importing.remove, importing.add)
      BY <1>2, <2>1, <2>2, <2>5 DEF ImportInv, GroupsWritten
    <3> QED BY <2>1, <3>1 DEF HasGroup
  <2>6. /\ Import!HasTables(db') /\ db'.printers = db.printers /\ db'.floors = db.floors
        /\ KeepsNames(db'.groups, db.groups) /\ db'.groups = db.groups
    BY <1>3, <2>1 DEF KeepsNames
  <2> HIDE DEF ImportInv
  <2> QED BY <1>2, <1>3, <2>1, <2>2, <2>3, <2>4, <2>5, <2>6, GroupWritten
<1>19. CASE Import!ImportDone
  <2>1. importing' = Import!NoImport /\ UNCHANGED <<yaml, db, importDisturbed>>
    BY <1>19 DEF Import!ImportDone
  <2> QED BY <1>3, <2>1 DEF ImportInv
<1>20. ~Import!ImportFails /\ \A tables : ~Import!Disturb(tables)
  BY <1>2 DEF Import!ImportFails, Import!Disturb
<1>21. CASE UNCHANGED yamlVars
  <2>1. UNCHANGED <<yaml, db, importing, importDisturbed>>
    BY <1>21 DEF yamlVars
  <2>2. ImportIs' <=> ImportIs
    BY <2>1 DEF ImportIs
  <2>3. (NamesTell' <=> NamesTell) /\ (PrintersWritten' <=> PrintersWritten)
    BY <2>1 DEF NamesTell, PrintersWritten, Import!NamesDiffer
  <2>4. (FloorsWritten' <=> FloorsWritten) /\ (GroupsWritten' <=> GroupsWritten)
    BY <2>1 DEF FloorsWritten, GroupsWritten, KeepsNames, Reached, HasGroup, Import!Mapped
  <2> QED BY <2>1, <2>2, <2>3, <2>4 DEF ImportInv
<1> HIDE DEF ImportInv
<1> QED BY <1>5, <1>6, <1>7, <1>9, <1>10, <1>11, <1>12, <1>13, <1>14, <1>16, <1>17, <1>18, <1>19,
           <1>20, <1>21
        DEF Import!YamlNext, Import!DeletePrinterRow, Import!DeleteGroup, Import!DeleteFloor

\* An undisturbed import restores what was exported, for any file and any database whose names
\* tell their rows apart (YamlService.importPrintersAndFloors).
THEOREM ImportsRestore == MCSpec => ImportRestores
<1>1. MCInit => ImportInv
  <2> SUFFICES ASSUME MCInit PROVE ImportInv
    OBVIOUS
  <2>1. yaml \in Exports /\ db \in Databases /\ importing = Import!NoImport
    BY DEF MCInit, Import!YamlInit
  <2>2. Import!WellFormed(yaml) /\ Import!WellFormed(db)
    BY <2>1, TablesAreWellFormed
  <2> QED BY <2>1, <2>2 DEF ImportInv, Import!WellFormed
<1>2. ImportInv /\ [MCNext]_vars => ImportInv'
  BY Framed, ImportKeep
\* Only its last step ends an import that nobody disturbs.
<1>3. ASSUME ImportInv, Import!YamlNext, importing # Import!NoImport, importing' = Import!NoImport, ~importDisturbed'
      PROVE  Import!ImportDone
  <2>1. ~Import!ImportFails
    BY <1>3 DEF Import!ImportFails
  <2>2. ~Import!StartImport /\ \A tables : ~Import!Disturb(tables)
    BY <1>3 DEF Import!StartImport, Import!Disturb
  <2>3. ImportIs
    BY <1>3, Disturbed DEF ImportInv
  <2>4. importing'.at = "idle"
    BY <1>3 DEF Import!NoImport
  <2>5. ~Import!AnalyseFloors /\ ~Import!AnalyseGroups /\ ~Import!GroupDone
    BY <2>3, <2>4 DEF ImportIs, Import!AnalyseFloors, Import!AnalyseGroups, Import!GroupDone
  <2>6. ASSUME NEW i \in Import!Ids
        PROVE  /\ ~Import!InsertPrinter(i) /\ ~Import!UpdatePrinter(i) /\ ~Import!InsertFloor(i)
               /\ ~Import!UpdateFloor(i) /\ ~Import!CreateGroup(i) /\ ~Import!CompareGroup(i)
    BY <2>3, <2>4 DEF ImportIs, Import!InsertPrinter, Import!UpdatePrinter, Import!InsertFloor,
         Import!UpdateFloor, Import!WriteFloor, Import!CreateGroup, Import!CompareGroup,
         Import!Inserted, Import!UpdatedRow, Import!Writing
  <2>7. ASSUME NEW p \in Import!Ids
        PROVE  ~Import!RemovePrinterFromGroup(p) /\ ~Import!AddPrinterToGroup(p)
    BY <2>3, <2>4 DEF ImportIs, Import!RemovePrinterFromGroup, Import!AddPrinterToGroup
  <2> QED BY <1>3, <2>1, <2>2, <2>5, <2>6, <2>7 DEF Import!YamlNext, Import!DeletePrinterRow,
                Import!DeleteGroup, Import!DeleteFloor
<1>4. ASSUME ImportInv, Import!ImportDone, ~importDisturbed', NamesTell
      PROVE  /\ Import!NamesDiffer(db.printers)
             /\ Import!NamesOf(db.printers) = Import!NamesOf(importing.before.printers) \cup Import!NamesOf(yaml.printers)
             /\ Import!Restrict(db.printers, DOMAIN importing.before.printers) = importing.before.printers
             /\ \A f \in DOMAIN yaml.floors : Import!Restored(db.floors, yaml.floors[f])
             /\ \A g \in DOMAIN yaml.groups : Reached(g) => Import!Restored(db.groups, yaml.groups[g])
  <2>1. /\ importing.at = "write" /\ importing.group = 0 /\ importing # Import!NoImport /\ ~importDisturbed
        /\ Left(importing.printers) = {} /\ Left(importing.floors) = {} /\ Left(importing.groups) = {}
    BY <1>4 DEF Import!ImportDone, Import!Writing, Import!NoImport, Import!NoRows, Left
  <2>2. ImportIs /\ PrintersWritten /\ FloorsWritten /\ GroupsWritten /\ Import!WellFormed(yaml) /\ Import!HasTables(db)
    BY <1>4, <2>1 DEF ImportInv
  <2>3. Import!NamesDiffer(yaml.printers)
    BY <1>4 DEF NamesTell
  <2>4. Import!NamesOf(db.printers) = Import!NamesOf(importing.before.printers) \cup Import!NamesOf(yaml.printers)
    <3> DEFINE M == importing.printerIdMap
               before == importing.before.printers
    <3>1. /\ DOMAIN M = DOMAIN yaml.printers
          /\ \A i \in DOMAIN M : M[i] \in DOMAIN db.printers /\ db.printers[M[i]] = yaml.printers[i]
          /\ \A j \in DOMAIN before : j \in DOMAIN db.printers /\ db.printers[j] = before[j]
          /\ \A j \in DOMAIN db.printers : j \in DOMAIN before \/ \E i \in DOMAIN M : M[i] = j
      BY <2>1, <2>2 DEF PrintersWritten
    <3> HIDE DEF M, before
    <3>2. ASSUME NEW j \in DOMAIN db.printers
          PROVE  Import!NameOf(db.printers[j]) \in Import!NamesOf(before) \cup Import!NamesOf(yaml.printers)
      BY <3>1 DEF Import!NamesOf, Import!NamesIn
    <3>3. ASSUME NEW j \in DOMAIN before PROVE Import!NameOf(before[j]) \in Import!NamesOf(db.printers)
      BY <3>1 DEF Import!NamesOf, Import!NamesIn
    <3>4. ASSUME NEW i \in DOMAIN yaml.printers
          PROVE  Import!NameOf(yaml.printers[i]) \in Import!NamesOf(db.printers)
      BY <3>1 DEF Import!NamesOf, Import!NamesIn
    <3>5. Import!NamesOf(db.printers) = Import!NamesOf(before) \cup Import!NamesOf(yaml.printers)
      BY <3>2, <3>3, <3>4 DEF Import!NamesOf, Import!NamesIn
    <3> QED BY <3>5 DEF before
  <2>5. Import!Restrict(db.printers, DOMAIN importing.before.printers) = importing.before.printers
    BY <2>2 DEF PrintersWritten, ImportIs, Import!Restrict, Import!HasTables, Import!IsTable
  <2>6. ASSUME NEW f \in DOMAIN yaml.floors PROVE Import!Restored(db.floors, yaml.floors[f])
    <3>1. PICK j \in DOMAIN db.floors : /\ Import!NameOf(db.floors[j]) = Import!NameOf(yaml.floors[f])
                                        /\ db.floors[j].printers = Import!Mapped(yaml.floors[f].printers)
      BY <2>1, <2>2 DEF FloorsWritten
    <3>2. yaml.floors[f].printers \in SUBSET DOMAIN yaml.printers
      BY <2>2 DEF Import!WellFormed
    <3>3. Import!NamesIn(db.printers, Import!Mapped(yaml.floors[f].printers)) = Import!NamesIn(yaml.printers, yaml.floors[f].printers)
      BY <2>1, <2>2, <2>3, <3>2, MappedIs
    <3> QED BY <3>1, <3>3 DEF Import!Restored
  <2>7. ASSUME NEW g \in DOMAIN yaml.groups, Reached(g) PROVE Import!Restored(db.groups, yaml.groups[g])
    <3>1. HasGroup(db.groups, g, importing.group, importing.remove, importing.add) /\ importing.remove = {} /\ importing.add = {}
      BY <2>1, <2>2, <2>7 DEF GroupsWritten, ImportIs
    <3>2. PICK j \in DOMAIN db.groups : /\ Import!NameOf(db.groups[j]) = Import!NameOf(yaml.groups[g])
                                        /\ db.groups[j].printers = Import!Mapped(yaml.groups[g].printers)
      BY <3>1 DEF HasGroup
    <3>3. yaml.groups[g].printers \in SUBSET DOMAIN yaml.printers
      BY <2>2 DEF Import!WellFormed
    <3>4. Import!NamesIn(db.printers, Import!Mapped(yaml.groups[g].printers)) = Import!NamesIn(yaml.printers, yaml.groups[g].printers)
      BY <2>1, <2>2, <2>3, <3>3, MappedIs
    <3> QED BY <3>2, <3>4 DEF Import!Restored
  <2> QED BY <2>2, <2>4, <2>5, <2>6, <2>7 DEF PrintersWritten
<1>5. ImportInv /\ [MCNext]_vars =>
      [importing # Import!NoImport /\ importing' = Import!NoImport /\ ~importDisturbed'
       /\ (\A t \in {yaml.printers, yaml.floors, yaml.groups, importing.before.printers,
                      importing.before.floors, importing.before.groups} : Import!NamesDiffer(t))
       => /\ Import!NamesDiffer(db.printers)
          /\ Import!NamesOf(db.printers) = Import!NamesOf(importing.before.printers) \cup Import!NamesOf(yaml.printers)
          /\ Import!Restrict(db.printers, DOMAIN importing.before.printers) = importing.before.printers
          /\ \A f \in DOMAIN yaml.floors : Import!Restored(db.floors, yaml.floors[f])
          /\ \A g \in DOMAIN yaml.groups :
               (\A h \in DOMAIN yaml.groups :
                  h < g => Import!NameOf(yaml.groups[h]) \notin Import!NamesOf(importing.before.groups))
               => Import!Restored(db.groups, yaml.groups[g])]_Import!yamlVars
  BY <1>3, <1>4, Framed DEF yamlVars, Import!yamlVars, NamesTell, Reached
<1> QED BY <1>1, <1>2, <1>5, PTL DEF MCSpec, ImportRestores, Import!ImportRestores

=============================================================================
