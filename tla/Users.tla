------------------------------- MODULE Users --------------------------------
(***************************************************************************)
(* UserController, FirstTimeSetupController, UserService, UserRoleService  *)
(* and RoleService over the tables user and user_role of sqlite.  Ids are  *)
(* never used again.  A guard is read by one await and the write it guards *)
(* is made by a later one; requests interleave in between.  Of the roles,  *)
(* ADMIN and one other; "unknown" is an id that is in no table.            *)
(***************************************************************************)
EXTENDS Naturals, FiniteSets, Functions

CONSTANTS
  UserRequests,  \* requests running side by side
  MaxUsers,      \* bound: users ever registered
  MaxRoleRows    \* bound: rows ever inserted in user_role

VARIABLES
  users,         \* table user
  roleRows,      \* table user_role
  lastUser, lastRoleRow,  \* the autoincrement counters
  userReq,       \* where each request is, with what it read
  wizard,        \* settings: wizardCompleted
  loginRequired, \* settings: loginRequired
  raced          \* history: two requests that take something away have overlapped

usersVars == <<users, roleRows, lastUser, lastRoleRow, userReq, wizard, loginRequired, raced>>

UserIds == 1..MaxUsers
Nobody == 0     \* a request without a user, let in when no login is required
Roles == {"ADMIN", "OTHER"}
NoRequest == [at |-> "idle"]
Steps == {"insert", "listRoles", "deleteRoles", "createRoles", "finish", "checkDelete",
          "lastAdmin", "delete", "checkVerified", "countVerified", "checkRoot", "countRoots",
          "update"}

UsersTypeOK ==
  /\ DOMAIN users \in SUBSET UserIds /\ lastUser \in 0..MaxUsers
  /\ \A u \in DOMAIN users : users[u] \in [isRootUser : BOOLEAN, isVerified : BOOLEAN]
  /\ DOMAIN roleRows \in SUBSET (1..lastRoleRow) /\ lastRoleRow \in 0..MaxRoleRows
  /\ \A i \in DOMAIN roleRows :   \* foreign keys, and Unique(roleId, userId)
        /\ roleRows[i].role \in Roles /\ roleRows[i].user \in DOMAIN users
        /\ \A j \in DOMAIN roleRows \ {i} : roleRows[j] # roleRows[i]
  /\ \A r \in UserRequests : userReq[r].at \in Steps \cup {"idle"}
  /\ wizard \in BOOLEAN /\ loginRequired \in BOOLEAN /\ raced \in BOOLEAN

UsersInit ==
  /\ users = <<>> /\ roleRows = <<>> /\ lastUser = 0 /\ lastRoleRow = 0
  /\ userReq = [r \in UserRequests |-> NoRequest]
  /\ wizard = FALSE /\ loginRequired \in BOOLEAN /\ raced = FALSE

RolesOf(u) == {roleRows[i].role : i \in {j \in DOMAIN roleRows : roleRows[j].user = u}}
Roots == {u \in DOMAIN users : users[u].isRootUser}
Verified == {u \in DOMAIN users : users[u].isVerified}

-----------------------------------------------------------------------------
(* The requests and their guards. *)

\* A delete, a new set of roles, and ownership or verification withdrawn.
Takes(req) == req.at \in {"checkDelete", "lastAdmin", "delete"} \/ "want" \in DOMAIN req
              \/ ("value" \in DOMAIN req /\ ~req.value)

\* Bound: once two of those overlapped, no request is started.
Enter(r, req) ==
  /\ userReq[r] = NoRequest /\ ~raced
  /\ userReq' = [userReq EXCEPT ![r] = req]
  /\ raced' = (Takes(req) /\ \E o \in UserRequests : Takes(userReq[o]))
  /\ UNCHANGED <<users, roleRows, lastUser, lastRoleRow, wizard, loginRequired>>

\* authenticate, with passport's strategy: the user of a token is there and verified.
SignedIn(by) == IF by = Nobody THEN ~loginRequired ELSE by \in Verified

\* authorizeRoles([ROLES.ADMIN]); without login the default role is ADMIN.
IsAdmin(by) == by = Nobody \/ "ADMIN" \in RolesOf(by)

StartWizard(r) ==
  /\ ~wizard
  /\ Enter(r, [at |-> "insert", row |-> [isRootUser |-> TRUE, isVerified |-> TRUE],
               want |-> {"ADMIN"}, wizard |-> TRUE])

\* By an administrator, or by a visitor: then not verified.
StartRegister(r, by, verified, want) ==
  /\ wizard /\ (verified => SignedIn(by) /\ IsAdmin(by))
  /\ Enter(r, [at |-> "insert", row |-> [isRootUser |-> FALSE, isVerified |-> verified],
               want |-> want, wizard |-> FALSE])

\* With a slip: an administrator may delete itself.
MayDelete_Own(by, id) == IsAdmin(by) /\ id \in DOMAIN users \ Roots
MayDelete(by, id) == IsAdmin(by) /\ by # id /\ id \in DOMAIN users \ Roots

StartDelete(r, by, id) ==
  /\ wizard /\ SignedIn(by) /\ MayDelete(by, id)
  /\ Enter(r, [at |-> "checkDelete", id |-> id])

StartSetVerified(r, by, id, value) ==
  /\ wizard /\ SignedIn(by) /\ IsAdmin(by) /\ by # id /\ id \in DOMAIN users \ Roots
  /\ Enter(r, [at |-> "checkVerified", id |-> id, field |-> "isVerified", value |-> value])

StartSetRoot(r, by, id, value) ==
  /\ wizard /\ SignedIn(by) /\ by \in Roots \cup {Nobody}
  /\ Enter(r, [at |-> "checkRoot", id |-> id, field |-> "isRootUser", value |-> value])

\* Its own roles only an owner changes: the ADMIN row is looked for among ids of roles.
StartSetRoles(r, by, id, want) ==
  /\ wizard /\ SignedIn(by) /\ by # Nobody /\ IsAdmin(by)
  /\ by = id => by \in Roots /\ "ADMIN" \in want
  /\ Enter(r, [at |-> "listRoles", id |-> id, want |-> want, wizard |-> FALSE])

-----------------------------------------------------------------------------
(* Their awaits. *)

Proceed(r, req) == userReq' = [userReq EXCEPT ![r] = req]
At(r, s) == userReq[r].at = s
Next_(r, s) == [userReq[r] EXCEPT !.at = s]
OnlyReads == UNCHANGED <<users, roleRows, lastUser, lastRoleRow, wizard, loginRequired, raced>>

InsertUser(r) ==
  /\ At(r, "insert") /\ lastUser < MaxUsers
  /\ lastUser' = lastUser + 1
  /\ users' = [u \in DOMAIN users \cup {lastUser'} |->
                 IF u = lastUser' THEN userReq[r].row ELSE users[u]]
  /\ Proceed(r, [at |-> "listRoles", id |-> lastUser', want |-> userReq[r].want,
                 wizard |-> userReq[r].wizard])
  /\ UNCHANGED <<roleRows, lastRoleRow, wizard, loginRequired, raced>>

\* setUserRoles
ListRoles(r) ==
  /\ At(r, "listRoles")
  /\ Proceed(r, [at |-> "deleteRoles", id |-> userReq[r].id, want |-> userReq[r].want,
                 previous |-> RolesOf(userReq[r].id), wizard |-> userReq[r].wizard])
  /\ OnlyReads

\* The roles to delete.  With a slip: the ones that were asked for.
Unwanted_Swapped(req) == req.previous \cap req.want
Unwanted(req) == req.previous \ req.want
DeleteRoles(r) ==
  /\ At(r, "deleteRoles")
  /\ LET req == userReq[r] IN
     /\ roleRows' = Restrict(roleRows, {i \in DOMAIN roleRows :
                      ~(roleRows[i].user = req.id /\ roleRows[i].role \in Unwanted(req))})
     /\ Proceed(r, [at |-> IF req.want \subseteq req.previous THEN "finish" ELSE "createRoles",
                    id |-> req.id, want |-> req.want, todo |-> req.want \ req.previous,
                    wizard |-> req.wizard])
  /\ UNCHANGED <<users, lastUser, lastRoleRow, wizard, loginRequired, raced>>

\* The foreign keys and the unique pair refuse the row: the roles made so far stay.
CreateRole(r, role) ==
  LET req == userReq[r] IN
  /\ At(r, "createRoles") /\ role \in req.todo
  /\ IF role \notin Roles \/ req.id \notin DOMAIN users \/ role \in RolesOf(req.id)
     THEN Proceed(r, NoRequest) /\ UNCHANGED <<roleRows, lastRoleRow>>
     ELSE /\ lastRoleRow < MaxRoleRows /\ lastRoleRow' = lastRoleRow + 1
          /\ roleRows' = [i \in DOMAIN roleRows \cup {lastRoleRow'} |->
                            IF i = lastRoleRow' THEN [user |-> req.id, role |-> role] ELSE roleRows[i]]
          /\ Proceed(r, [req EXCEPT !.todo = @ \ {role},
                                    !.at = IF req.todo = {role} THEN "finish" ELSE @])
  /\ UNCHANGED <<users, lastUser, wizard, loginRequired, raced>>

\* The response, and after the wizard's user the three settings.
Finish(r) ==
  /\ At(r, "finish")
  /\ Proceed(r, NoRequest) /\ wizard' = (wizard \/ userReq[r].wizard)
  /\ UNCHANGED <<users, roleRows, lastUser, lastRoleRow, loginRequired, raced>>

\* deleteUser
CheckDelete(r) ==
  LET id == userReq[r].id IN
  /\ At(r, "checkDelete")
  /\ Proceed(r, IF id \in DOMAIN users \ Roots
                THEN Next_(r, IF "ADMIN" \in RolesOf(id) THEN "lastAdmin" ELSE "delete")
                ELSE NoRequest)
  /\ OnlyReads

\* The users whose id is that of an ADMIN row: findUsersByRoleId maps rows to their own id.
Administrators == {u \in DOMAIN users : u \in DOMAIN roleRows /\ roleRows[u].role = "ADMIN"}
LastAdmin(r) ==
  /\ At(r, "lastAdmin")
  /\ Proceed(r, IF Administrators = {userReq[r].id} THEN NoRequest ELSE Next_(r, "delete"))
  /\ OnlyReads

\* The rows of user_role go with the user.
DeleteRow(r) ==
  LET id == userReq[r].id IN
  /\ At(r, "delete")
  /\ users' = Restrict(users, DOMAIN users \ {id})
  /\ roleRows' = Restrict(roleRows, {i \in DOMAIN roleRows : roleRows[i].user # id})
  /\ Proceed(r, NoRequest)
  /\ UNCHANGED <<lastUser, lastRoleRow, wizard, loginRequired, raced>>

\* setVerifiedById and setIsRootUserById
CheckVerified(r) ==
  LET req == userReq[r] IN
  /\ At(r, "checkVerified")
  /\ Proceed(r, IF req.id \notin DOMAIN users \/ (req.id \in Roots /\ ~req.value) THEN NoRequest
                ELSE Next_(r, IF req.value THEN "update" ELSE "countVerified"))
  /\ OnlyReads
CountVerified(r) ==
  /\ At(r, "countVerified")
  /\ Proceed(r, IF Cardinality(Verified) = 1 THEN NoRequest ELSE Next_(r, "update"))
  /\ OnlyReads

CheckRoot(r) ==
  LET req == userReq[r] IN
  /\ At(r, "checkRoot")
  /\ Proceed(r, IF req.id \notin DOMAIN users THEN NoRequest
                ELSE Next_(r, IF req.value THEN "update" ELSE "countRoots"))
  /\ OnlyReads
CountRoots(r) ==
  /\ At(r, "countRoots")
  /\ Proceed(r, IF Roots = {userReq[r].id} THEN NoRequest ELSE Next_(r, "update"))
  /\ OnlyReads

\* BaseService.update: one column of the row, if it is there.
UpdateUser(r) ==
  LET req == userReq[r] IN
  /\ At(r, "update")
  /\ users' = [u \in DOMAIN users |->
                 IF u = req.id THEN [users[u] EXCEPT ![req.field] = req.value] ELSE users[u]]
  /\ Proceed(r, NoRequest)
  /\ UNCHANGED <<roleRows, lastUser, lastRoleRow, wizard, loginRequired, raced>>

UsersNext ==
  \E r \in UserRequests :
    \/ StartWizard(r)
    \/ InsertUser(r) \/ ListRoles(r) \/ DeleteRoles(r) \/ Finish(r)
    \/ CheckDelete(r) \/ LastAdmin(r) \/ DeleteRow(r)
    \/ CheckVerified(r) \/ CountVerified(r) \/ CheckRoot(r) \/ CountRoots(r) \/ UpdateUser(r)
    \/ \E role \in Roles \cup {"unknown"} : CreateRole(r, role)
    \/ \E by \in UserIds \cup {Nobody} :
         \/ \E want \in {{}, {"ADMIN"}, {"OTHER", "unknown"}} :
              \/ \E verified \in BOOLEAN : StartRegister(r, by, verified, want)
              \/ \E id \in UserIds : StartSetRoles(r, by, id, want)
         \/ \E id \in UserIds : \/ StartDelete(r, by, id)
                                \/ \E value \in BOOLEAN : StartSetVerified(r, by, id, value)
                                                          \/ StartSetRoot(r, by, id, value)

UsersSpec == UsersInit /\ [][UsersNext]_usersVars

-----------------------------------------------------------------------------
(* Properties. *)

\* Once the wizard is done there is an owner, and where login is required a verified
\* administrator: a request cannot take away the last one, though deleteUser looks for
\* administrators among the wrong users, unless two requests that take away overlap.
StaysManageable ==
  wizard /\ ~raced =>
    /\ Roots # {}
    /\ loginRequired => \E u \in Verified : "ADMIN" \in RolesOf(u)

\* setUserRoles that ran to its end, beside no other one, leaves the roles asked for.
RolesAsAsked ==
  [][\A r \in UserRequests :
       At(r, "finish") /\ ~raced => RolesOf(userReq[r].id) = userReq[r].want]_usersVars

\* Roles are the ones asked for, and do not leave the server to nobody.
UsersKeepInCharge == [][StaysManageable']_usersVars /\ RolesAsAsked

=============================================================================
