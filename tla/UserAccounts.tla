---------------------------- MODULE UserAccounts ----------------------------
(***************************************************************************)
(* The accounts themselves, in the table user of sqlite: AuthController    *)
(* and UserController let visitors register and users change their name    *)
(* and password, and the boot task sets up a demo account.  (Users models  *)
(* roles, ownership and removal.)  The server listens once the boot is     *)
(* done; with sqlite, a boot that fails ends the process.                  *)
(***************************************************************************)
EXTENDS Naturals, FiniteSets

CONSTANTS
  AccountRequests, \* requests running side by side
  AccountNames, DemoNames,  \* names that are asked for, and what OVERRIDE_DEMO_USERNAME may say
  MaxAccounts,     \* bound: accounts ever registered
  MaxBoots         \* bound: boots

VARIABLES
  accounts,        \* table user, by id
  accountReq,      \* what each request is about to write
  access,          \* settings: loginRequired and registration
  demoBoot,        \* where the boot is, with its configuration; "up" when the server listens
  boots,
  unvouched,       \* history: accounts of visitors that no administrator verified
  touched          \* history: accounts or settings changed since the boot was done

accountVars == <<accounts, accountReq, access, demoBoot, boots, unvouched, touched>>

Visitor == 0
Owner == [name |-> "owner", password |-> "p", verified |-> TRUE, root |-> TRUE, demo |-> FALSE, role |-> "ADMIN"]
DemoPassword == "demo2023"
Passwords == {"p", "q", DemoPassword}
Idle == [at |-> "idle"]
BootSteps == {"down", "demo", "verified", "root", "password", "role", "settings", "up"}

AccountsTypeOK ==
  /\ DOMAIN accounts \in SUBSET (1..MaxAccounts)
  /\ \A u \in DOMAIN accounts :
        accounts[u] \in [name : AccountNames \cup DemoNames \cup {"owner"}, password : Passwords,
                         verified : BOOLEAN, root : BOOLEAN, demo : BOOLEAN, role : {"ADMIN", "GUEST"}]
  /\ access \in [loginRequired : BOOLEAN, registration : BOOLEAN]
  /\ demoBoot \in [at : BootSteps, demo : BOOLEAN, name : DemoNames]
  /\ \A r \in AccountRequests : accountReq[r].at \in {"idle", "register", "write"}
  /\ touched \in BOOLEAN /\ unvouched \subseteq 1..MaxAccounts /\ boots \in 0..MaxBoots

AccountsInit ==
  /\ accounts = [u \in {1} |-> Owner] /\ accountReq = [r \in AccountRequests |-> Idle]
  /\ access = [loginRequired |-> TRUE, registration |-> TRUE]
  /\ demoBoot = [at |-> "down", demo |-> FALSE, name |-> CHOOSE n \in DemoNames : TRUE]
  /\ boots = 0 /\ unvouched = {} /\ touched = FALSE

-----------------------------------------------------------------------------
(* The table *)

LastAccount == CHOOSE n \in 0..MaxAccounts :
                 /\ n = 0 \/ n \in DOMAIN accounts
                 /\ \A u \in DOMAIN accounts : u <= n

Register(row) ==
  /\ LastAccount < MaxAccounts
  /\ accounts' = [u \in DOMAIN accounts \cup {LastAccount + 1} |->
                    IF u \in DOMAIN accounts THEN accounts[u] ELSE row]

\* findRawByUsername: the first row of that name; there may be several.
ByUsername(name) ==
  LET named == {u \in DOMAIN accounts : accounts[u].name = name}
  IN  {u \in named : \A v \in named : u <= v}

\* getDemoUserId.  With a slip: whoever has the configured name.
DemoUserId_ByName == ByUsername(demoBoot.name)
DemoUserId == {u \in DOMAIN accounts : accounts[u].demo}

-----------------------------------------------------------------------------
(* Requests *)

Takes(r) == demoBoot.at = "up" /\ accountReq[r] = Idle
Signed(by) == IF by = Visitor THEN ~access.loginRequired ELSE by \in DOMAIN accounts /\ accounts[by].verified

\* demoUserNotAllowed: in demo mode, nor a visitor as long as there is no demo user.
DemoUserNotAllowed(by) == demoBoot.demo => by \notin (IF DemoUserId = {} THEN {Visitor} ELSE DemoUserId)

Enters(r, req) ==
  /\ Takes(r) /\ accountReq' = [accountReq EXCEPT ![r] = req]
  /\ UNCHANGED <<accounts, access, demoBoot, boots, unvouched, touched>>

StartRegister(r, name) ==
  /\ DemoUserNotAllowed(Visitor) /\ access.registration /\ name # "demo"
  /\ Enters(r, [at |-> "register", name |-> name])

ChangeUsername(r, by, id, name) ==
  /\ Signed(by) /\ DemoUserNotAllowed(by) /\ (by = id \/ ~access.loginRequired)
  /\ id \in DOMAIN accounts
  /\ Enters(r, [at |-> "write", id |-> id, field |-> "name", value |-> name])

\* updatePasswordById: the old password was compared with the row that was read.
ChangePassword(r, by, id, old, new) ==
  /\ Signed(by) /\ DemoUserNotAllowed(by) /\ (by = id \/ ~access.loginRequired)
  /\ id \in DOMAIN accounts /\ accounts[id].password = old
  /\ Enters(r, [at |-> "write", id |-> id, field |-> "password", value |-> new])

\* setVerified; its guards are in Users.
Verifies(r, by, id) ==
  /\ Signed(by) /\ DemoUserNotAllowed(by) /\ (by # Visitor => accounts[by].role = "ADMIN")
  /\ id \in DOMAIN accounts /\ ~accounts[id].root /\ by # id
  /\ Enters(r, [at |-> "write", id |-> id, field |-> "verified", value |-> TRUE])

Answered(r) == accountReq' = [accountReq EXCEPT ![r] = Idle]

WriteRegistered(r) ==
  /\ accountReq[r].at = "register" /\ Answered(r)
  /\ Register([name |-> accountReq[r].name, password |-> "p", verified |-> FALSE, root |-> FALSE,
               demo |-> FALSE, role |-> "GUEST"])
  /\ unvouched' = unvouched \cup {LastAccount + 1} /\ touched' = TRUE
  /\ UNCHANGED <<access, demoBoot, boots>>

WriteAccount(r) ==
  LET req == accountReq[r]
  IN  /\ req.at = "write" /\ Answered(r)
      /\ accounts' = [accounts EXCEPT ![req.id][req.field] = req.value]
      /\ unvouched' = IF req.field = "verified" THEN unvouched \ {req.id} ELSE unvouched
      /\ touched' = TRUE /\ UNCHANGED <<access, demoBoot, boots>>

\* updateLoginRequiredSettings and updateRegistrationEnabledSettings.
ChangeAccess(by, setting, value) ==
  /\ demoBoot.at = "up" /\ Signed(by) /\ (by # Visitor => accounts[by].role = "ADMIN")
  /\ DemoUserNotAllowed(by)
  /\ access' = [access EXCEPT ![setting] = value]
  /\ touched' = TRUE /\ UNCHANGED <<accounts, accountReq, demoBoot, boots, unvouched>>

-----------------------------------------------------------------------------
(* The boot task, from the roles on.  Each step is one call of a service. *)

\* At any time, with some configuration; the requests are gone.
Restart ==
  /\ boots < MaxBoots /\ boots' = boots + 1
  /\ \E demo \in BOOLEAN, name \in DemoNames :
        demoBoot' = [at |-> IF demo THEN "demo" ELSE "settings", demo |-> demo, name |-> name]
  /\ touched' = FALSE /\ accountReq' = [r \in AccountRequests |-> Idle]
  /\ UNCHANGED <<accounts, access, unvouched>>

BootAt(step, next) == demoBoot.at = step /\ demoBoot' = [demoBoot EXCEPT !.at = next]

DemoRow == [name |-> demoBoot.name, password |-> DemoPassword, verified |-> TRUE, root |-> FALSE,
            demo |-> TRUE, role |-> "ADMIN"]

CreateDemo ==
  /\ DemoUserId = {} /\ BootAt("demo", "settings") /\ Register(DemoRow)
  /\ UNCHANGED <<accountReq, access, boots, unvouched, touched>>

FindDemo ==
  /\ DemoUserId # {} /\ BootAt("demo", "verified")
  /\ UNCHANGED <<accounts, accountReq, access, boots, unvouched, touched>>

SetDemo(step, next, id, field, value) ==
  /\ BootAt(step, next) /\ accounts' = [accounts EXCEPT ![id][field] = value]
  /\ UNCHANGED <<accountReq, access, boots, unvouched, touched>>

\* createOrUpdateDemoAccount, for an account that is there.  (No boot finds it an owner.)
UpdateDemo ==
  \E id \in DemoUserId :
    \/ SetDemo("verified", "root", id, "verified", TRUE)
    \/ SetDemo("root", "password", id, "root", FALSE)
    \/ \E u \in ByUsername(demoBoot.name) : SetDemo("password", "role", u, "password", DemoPassword)
    \/ SetDemo("role", "settings", id, "role", "ADMIN")

\* Nobody has the configured name: the boot fails, and the process exits.
DemoFails ==
  /\ demoBoot.at = "password" /\ ByUsername(demoBoot.name) = {}
  /\ demoBoot' = [demoBoot EXCEPT !.at = "down"]
  /\ UNCHANGED <<accounts, accountReq, access, boots, unvouched, touched>>

\* Without demo mode the overrides are optional.
BootAccess ==
  /\ BootAt("settings", "up")
  /\ IF demoBoot.demo THEN access' = [loginRequired |-> TRUE, registration |-> FALSE]
     ELSE access' \in [loginRequired : BOOLEAN, registration : BOOLEAN]
  /\ UNCHANGED <<accounts, accountReq, boots, unvouched, touched>>

AccountsNext ==
  \/ \E r \in AccountRequests :
       \/ WriteRegistered(r) \/ WriteAccount(r)
       \/ \E name \in AccountNames : StartRegister(r, name)
       \/ \E by \in {Visitor} \cup DOMAIN accounts, id \in DOMAIN accounts :
             \/ Verifies(r, by, id)
             \/ \E name \in AccountNames : ChangeUsername(r, by, id, name)
             \/ \E old, new \in Passwords \ {DemoPassword} : ChangePassword(r, by, id, old, new)
  \/ \E by \in {Visitor} \cup DOMAIN accounts, setting \in DOMAIN access, value \in BOOLEAN :
       ChangeAccess(by, setting, value)
  \/ Restart \/ CreateDemo \/ FindDemo \/ UpdateDemo \/ DemoFails \/ BootAccess

AccountsSpec == AccountsInit /\ [][AccountsNext]_accountVars

-----------------------------------------------------------------------------
\* Whoever registered is let in only once an administrator verified the account: no boot in
\* demo mode, and no change of a name to the one the demo account is configured with, does so.
VisitorsWait == \A u \in unvouched : ~accounts[u].verified

\* A boot in demo mode that is done leaves the demo account as configured, if it has the
\* configured name and shares it with nobody.
DemoAsConfigured ==
  demoBoot.at = "up" /\ demoBoot.demo /\ ~touched =>
    /\ access = [loginRequired |-> TRUE, registration |-> FALSE]
    /\ \E d \in DOMAIN accounts : accounts[d].demo
    /\ \A d \in DOMAIN accounts :
         accounts[d].demo /\ (\A u \in DOMAIN accounts : accounts[u].name = demoBoot.name <=> u = d) =>
           accounts[d] = DemoRow

\* Accounts are what they were granted.
AccountsAsGranted == VisitorsWait /\ DemoAsConfigured

=============================================================================
