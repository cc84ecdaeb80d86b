--------------------------- MODULE Authorization ----------------------------
(***************************************************************************)
(* RoleService and PermissionService on MongoDB, the guards of the routes  *)
(* that ask them, and the first-time setup.  Roles and permissions are     *)
(* read into memory by boot and, when none are there, by a request: a      *)
(* server whose first boot found no database listens while boot is run     *)
(* again.  No role is unique in the collection.  The process may end at    *)
(* any moment.                                                             *)
(***************************************************************************)
EXTENDS Naturals, Sequences

CONSTANTS
  RoleCallers,   \* requests running side by side
  OwnerNames,    \* names that setups give the owner
  MaxRoleDocs,   \* bound: documents ever stored in the collection of roles
  MaxStarts      \* bound: starts of the process, and runs of boot after one that failed

VARIABLES
  roleDocs,          \* collection of roles: their names; the place is the id
  accountDocs,       \* collection of users: username -> role, of the owners that setups made
  wizardCompleted, loginNeeded,   \* settings: wizardCompleted, loginRequired
  startup,          \* what boot does next
  loadedRoles,       \* _roles: ids
  loadedPermissions, \* _permissions
  roleSync,          \* who runs syncRoles -> [role, state, id]
  roleCall,          \* request -> where it is
  starts

rolesVars == <<roleDocs, accountDocs, wizardCompleted, loginNeeded, startup, loadedRoles,
               loadedPermissions, roleSync, roleCall, starts>>

RoleOrder == <<"ADMIN", "OPERATOR", "GUEST">>
PermissionNames == {"PrinterFiles.Get", "ServerInfo.Get"}
RolePermissions ==
  [ADMIN |-> PermissionNames, OPERATOR |-> {"PrinterFiles.Get"}, GUEST |-> {}]

\* What routes ask for: the private server routes, the files of a printer, the server's
\* version.  No roles, or no permission: the route has no such guard.
Needs == {[roles |-> {"ADMIN"}, permissions |-> {}],
          [roles |-> {"ADMIN", "OPERATOR"}, permissions |-> {"PrinterFiles.Get"}],
          [roles |-> {}, permissions |-> {"ServerInfo.Get"}]}

Syncers == RoleCallers \cup {"boot"}
NotSyncing == [role |-> 0, state |-> "none", id |-> 0]
NotCalled == [at |-> "none", role |-> 0]

Forgotten ==
  /\ loadedRoles' = <<>> /\ loadedPermissions' = {}
  /\ roleSync' = [s \in Syncers |-> NotSyncing]
  /\ roleCall' = [r \in RoleCallers |-> NotCalled]

RolesInit ==
  /\ roleDocs = <<>> /\ accountDocs = [u \in {} |-> 0]
  /\ wizardCompleted = FALSE /\ loginNeeded = FALSE /\ startup = "settings"
  /\ loadedRoles = <<>> /\ loadedPermissions = {}
  /\ roleSync = [s \in Syncers |-> NotSyncing]
  /\ roleCall = [r \in RoleCallers |-> NotCalled]
  /\ starts = 1

RolesTypeOK ==
  /\ \A i \in DOMAIN roleDocs : roleDocs[i] \in {RoleOrder[j] : j \in 1..3}
  /\ DOMAIN accountDocs \subseteq OwnerNames
  /\ \A u \in DOMAIN accountDocs : accountDocs[u] \in DOMAIN roleDocs
  /\ wizardCompleted \in BOOLEAN /\ loginNeeded \in BOOLEAN
  /\ startup \in {"settings", "permissions", "roles", "ended", "failed"}
  /\ \A i \in DOMAIN loadedRoles : loadedRoles[i] \in DOMAIN roleDocs
  /\ loadedPermissions \subseteq PermissionNames
  /\ \A s \in Syncers : roleSync[s].role \in 0..3 /\ roleSync[s].id \in 0..Len(roleDocs)
  /\ starts \in 1..MaxStarts

Loaded == {loadedRoles[i] : i \in DOMAIN loadedRoles}
NamesLoaded == {roleDocs[i] : i \in Loaded}
Syncing == \E s \in Syncers : roleSync[s] # NotSyncing

-----------------------------------------------------------------------------
(* syncRoles: of each role in turn, findOne, create, and into the list that _roles is by *)
(* then. *)

\* The list is emptied before the first await.
BeginSync(s) ==
  /\ loadedRoles' = <<>>
  /\ roleSync' = [roleSync EXCEPT ![s] = [role |-> 1, state |-> "look", id |-> 0]]

\* With a slip: what had to be created is not remembered.
Kept_StoredOnly(list, id, created) == IF created THEN list ELSE Append(list, id)
Kept(list, id, created) == Append(list, id)

Push(s, id, created) ==
  /\ loadedRoles' = Kept(loadedRoles, id, created)
  /\ roleSync' = [roleSync EXCEPT ![s] =
       IF @.role = 3 THEN NotSyncing ELSE [role |-> @.role + 1, state |-> "look", id |-> 0]]
  /\ startup' = IF s = "boot" /\ roleSync[s].role = 3 THEN "ended" ELSE startup

\* findOne answers with the first one that was stored.
LookForRole(s) ==
  LET name == RoleOrder[roleSync[s].role]
      stored == {i \in DOMAIN roleDocs : roleDocs[i] = name}
  IN  /\ roleSync[s].state = "look"
      /\ IF stored = {}
         THEN /\ roleSync' = [roleSync EXCEPT ![s].state = "create"]
              /\ UNCHANGED <<loadedRoles, startup>>
         ELSE Push(s, CHOOSE i \in stored : \A j \in stored : i <= j, FALSE)
      /\ UNCHANGED <<roleDocs, accountDocs, wizardCompleted, loginNeeded, loadedPermissions,
                     roleCall, starts>>

StoreNewRole(s) ==
  /\ roleSync[s].state = "create" /\ Len(roleDocs) < MaxRoleDocs
  /\ roleDocs' = Append(roleDocs, RoleOrder[roleSync[s].role])
  /\ roleSync' = [roleSync EXCEPT ![s].state = "created", ![s].id = Len(roleDocs')]
  /\ UNCHANGED <<accountDocs, wizardCompleted, loginNeeded, startup, loadedRoles,
                 loadedPermissions, roleCall, starts>>

NewRoleStored(s) ==
  /\ roleSync[s].state = "created"
  /\ Push(s, roleSync[s].id, TRUE)
  /\ UNCHANGED <<roleDocs, accountDocs, wizardCompleted, loginNeeded, loadedPermissions, roleCall,
                 starts>>

-----------------------------------------------------------------------------
(* Boot, from when the database is there. *)

Booted(step) ==
  startup' = step /\ UNCHANGED <<roleDocs, accountDocs, wizardCompleted, loginNeeded>>

LoadSettings ==
  /\ startup = "settings" /\ Booted("permissions")
  /\ UNCHANGED <<loadedRoles, loadedPermissions, roleSync, roleCall, starts>>

\* One permission after the other.
SyncPermission(p) ==
  /\ startup = "permissions" /\ p \notin loadedPermissions
  /\ loadedPermissions' = loadedPermissions \cup {p}
  /\ IF loadedPermissions' = PermissionNames
     THEN Booted("roles") /\ BeginSync("boot")
     ELSE Booted("permissions") /\ UNCHANGED <<loadedRoles, roleSync>>
  /\ UNCHANGED <<roleCall, starts>>

\* The database does not answer, and the job of boot runs it again: the settings are
\* there, syncPermissions begins with none.
BootFails ==
  /\ startup \in {"permissions", "roles"} /\ Booted("failed")
  /\ roleSync' = [roleSync EXCEPT !["boot"] = NotSyncing]
  /\ UNCHANGED <<loadedRoles, loadedPermissions, roleCall, starts>>

BootRunsAgain ==
  /\ starts < MaxStarts /\ starts' = starts + 1
  /\ startup = "failed" /\ Booted("permissions")
  /\ loadedPermissions' = {}
  /\ UNCHANGED <<loadedRoles, roleSync, roleCall>>

ProcessRestarts ==
  /\ starts < MaxStarts /\ starts' = starts + 1
  /\ startup' = "settings" /\ Forgotten
  /\ UNCHANGED <<roleDocs, accountDocs, wizardCompleted, loginNeeded>>

-----------------------------------------------------------------------------
(* The first-time setup. *)

\* With a slip: the wizard is completed first.
SetupSteps_WizardFirst == <<"role", "findUser", "complete", "register", "setLogin", "done">>
SetupSteps == <<"role", "findUser", "register", "setLogin", "complete", "done">>
StepAfter(at) == SetupSteps[1 + CHOOSE i \in DOMAIN SetupSteps : SetupSteps[i] = at]

\* Without an await before it: whether there are roles is asked as the request starts.
Setup(r) ==
  /\ ~wizardCompleted /\ roleCall[r] = NotCalled /\ startup # "settings"
  /\ roleCall' = [roleCall EXCEPT ![r] = [at |-> "role", role |-> 0]]
  /\ IF loadedRoles = <<>> THEN BeginSync(r) ELSE UNCHANGED <<loadedRoles, roleSync>>
  /\ UNCHANGED <<roleDocs, accountDocs, wizardCompleted, loginNeeded, startup,
                 loadedPermissions, starts>>

Goes(r, at) == roleCall' = [roleCall EXCEPT ![r] = IF at = "done" THEN NotCalled ELSE [@ EXCEPT !.at = at]]
GoesOn(r) == Goes(r, StepAfter(roleCall[r].at))

\* getRoleByName: the first of that name in the list; none, and the request fails.
TakeRole(r) ==
  LET named == {i \in DOMAIN loadedRoles : roleDocs[loadedRoles[i]] = "ADMIN"}
  IN  /\ roleCall[r].at = "role" /\ roleSync[r] = NotSyncing
      /\ IF named = {} THEN Goes(r, "done")
         ELSE roleCall' = [roleCall EXCEPT ![r].at = StepAfter("role"),
                                       ![r].role = loadedRoles[CHOOSE i \in named : \A j \in named : i <= j]]
      /\ UNCHANGED <<roleDocs, accountDocs, wizardCompleted, loginNeeded, startup, loadedRoles,
                     loadedPermissions, roleSync, starts>>

\* The database does not answer, and the request fails.
RequestFails(r) ==
  /\ roleCall[r] # NotCalled /\ Goes(r, "done")
  /\ roleSync' = [roleSync EXCEPT ![r] = NotSyncing]
  /\ UNCHANGED <<roleDocs, accountDocs, wizardCompleted, loginNeeded, startup, loadedRoles,
                 loadedPermissions, starts>>

\* findRawByUsername; what is stored meanwhile is found by the unique index.
FindUser(r) ==
  /\ roleCall[r].at = "findUser"
  /\ GoesOn(r) \/ (DOMAIN accountDocs # {} /\ Goes(r, "done"))
  /\ UNCHANGED <<roleDocs, accountDocs, wizardCompleted, loginNeeded, startup, loadedRoles,
                 loadedPermissions, roleSync, starts>>

\* Of a verified owner; the username is unique.
RegisterUser(r, name) ==
  /\ roleCall[r].at = "register"
  /\ IF name \in DOMAIN accountDocs
     THEN Goes(r, "done") /\ UNCHANGED accountDocs
     ELSE /\ GoesOn(r)
          /\ accountDocs' = [u \in DOMAIN accountDocs \cup {name} |->
                               IF u = name THEN roleCall[r].role ELSE accountDocs[u]]
  /\ UNCHANGED <<roleDocs, wizardCompleted, loginNeeded, startup, loadedRoles,
                 loadedPermissions, roleSync, starts>>

PatchLoginRequired(r) ==
  /\ roleCall[r].at = "setLogin" /\ GoesOn(r)
  /\ loginNeeded' \in BOOLEAN
  /\ UNCHANGED <<roleDocs, accountDocs, wizardCompleted, startup, loadedRoles,
                 loadedPermissions, roleSync, starts>>

CompleteWizard(r) ==
  /\ roleCall[r].at = "complete" /\ GoesOn(r)
  /\ wizardCompleted' = TRUE
  /\ UNCHANGED <<roleDocs, accountDocs, loginNeeded, startup, loadedRoles,
                 loadedPermissions, roleSync, starts>>

-----------------------------------------------------------------------------
(* A call of a route: its roles are ids of an account, or the name of the default role. *)

\* Roles of who has no account.
DefaultRole == IF loginNeeded THEN "GUEST" ELSE "ADMIN"

\* normalizeRoleIdOrName, of each.
Normalized(ids, names) == {roleDocs[i] : i \in Loaded \cap ids} \cup (NamesLoaded \cap names)

Authenticated(user) == user \in DOMAIN accountDocs \/ ~loginNeeded
RolesAllow(assigned, need) == need.roles = {} \/ need.roles \cap assigned # {}
PermissionsAllow(assigned, need) ==
  need.permissions \subseteq loadedPermissions \cap UNION {RolePermissions[n] : n \in assigned}

\* The roles of the request, and whether it gets to its handler.
HeldIds(user) == IF user \in DOMAIN accountDocs THEN {accountDocs[user]} ELSE {}
HeldNames(user) == IF user \in DOMAIN accountDocs THEN {} ELSE {DefaultRole}
LetThrough(user, need) ==
  LET assigned == Normalized(HeldIds(user), HeldNames(user))
  IN  Authenticated(user) /\ RolesAllow(assigned, need) /\ PermissionsAllow(assigned, need)

RolesNext ==
  \/ LoadSettings \/ BootFails \/ BootRunsAgain \/ ProcessRestarts
  \/ \E p \in PermissionNames : SyncPermission(p)
  \/ \E s \in Syncers : LookForRole(s) \/ StoreNewRole(s) \/ NewRoleStored(s)
  \/ \E r \in RoleCallers :
        \/ Setup(r) \/ TakeRole(r) \/ FindUser(r) \/ PatchLoginRequired(r) \/ CompleteWizard(r)
        \/ \E name \in OwnerNames : RegisterUser(r, name)
        \/ RequestFails(r)

RolesSpec == RolesInit /\ [][RolesNext]_rolesVars

-----------------------------------------------------------------------------
(* Properties. *)

\* What the definition of roles and permissions grants.
Granted(held, need) ==
  /\ need.roles = {} \/ need.roles \cap held # {}
  /\ \A p \in need.permissions : \E n \in held : p \in RolePermissions[n]

StoredTwice == \E i, j \in DOMAIN roleDocs : i # j /\ roleDocs[i] = roleDocs[j]

\* However boot and requests read the roles at a time, and whatever of it failed: a call
\* goes through only with a role that the route asks for, and once boot has ended and
\* nobody reads roles every one is in memory and such a call is not refused, unless two
\* of them have stored a role twice.
RolesGrantAsHeld ==
  /\ startup = "ended" /\ ~Syncing => NamesLoaded = {RoleOrder[i] : i \in 1..3}
  /\ \A user \in DOMAIN accountDocs \cup {"nobody"}, need \in Needs :
       LET names == {roleDocs[i] : i \in HeldIds(user)} \cup HeldNames(user)
           mayPass == Granted(names, need) /\ (user = "nobody" => ~loginNeeded)
       IN  /\ LetThrough(user, need) => mayPass
           /\ mayPass /\ startup = "ended" /\ ~Syncing /\ ~StoredTwice => LetThrough(user, need)

\* Whenever the process ends in the middle of a first-time setup, or two of them overlap:
\* a setup that counts as completed has left an owner with the role ADMIN.
SetupLeavesOwner ==
  wizardCompleted =>
    \E u \in DOMAIN accountDocs : roleDocs[accountDocs[u]] = "ADMIN"

\* Roles grant what whoever holds them may do, and somebody holds the one of the owner.
RolesAreInForce == RolesGrantAsHeld /\ SetupLeavesOwner

=============================================================================
