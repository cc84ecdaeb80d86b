--------------------------- MODULE AccountsProofs ---------------------------
(***************************************************************************)
(* What holds of sessions, users and roles, for any number of requests,    *)
(* accounts and restarts of the server; of the statistics of prints; and   *)
(* the types of all services.                                              *)
(***************************************************************************)
EXTENDS StorageProofs, FiniteSetTheorems

-----------------------------------------------------------------------------
(* Sessions. *)

\* Where a renewal is, of a token that a login returned.
Renewals == [at : Auth!RenewSteps, token : handedOut, used : Nat]

\* A token that no two renewals work on at once was granted what its row counts, and the one
\* renewal past the check of the count knows that number.
AuthInv ==
  /\ DOMAIN request = AuthRequests /\ granted \in [RefreshTokens -> Nat]
  /\ handedOut \subseteq RefreshTokens /\ DOMAIN tokenRows \subseteq handedOut
  /\ \A t \in DOMAIN tokenRows : tokenRows[t] \in [used : Nat, expired : BOOLEAN]
  /\ \A r \in AuthRequests : request[r].at \in Auth!RenewSteps => request[r] \in Renewals
  /\ \A t \in RefreshTokens \ handedOut : granted[t] = 0
  /\ \A t \in RefreshTokens \ overlapped :
       /\ \A r, o \in AuthRequests : Auth!Renewing(r, t) /\ Auth!Renewing(o, t) => r = o
       /\ t \in DOMAIN tokenRows => tokenRows[t].used = granted[t]
       /\ \A r \in AuthRequests : Auth!Renewing(r, t) /\ request[r].at \in {"check", "update"} =>
            request[r].used = granted[t] /\ ~Auth!Exceeded(request[r].used)
       /\ RefreshTokenAttempts # -1 => granted[t] <= RefreshTokenAttempts

\* Rows may go or expire.
FewerRows ==
  /\ DOMAIN tokenRows' \subseteq DOMAIN tokenRows
  /\ \A t \in DOMAIN tokenRows' : /\ tokenRows'[t] \in [used : Nat, expired : BOOLEAN]
                                  /\ tokenRows'[t].used = tokenRows[t].used

LEMMA AuthKeep ==
  ASSUME AuthInv, [Auth!AuthNext]_authVars
  PROVE  AuthInv' /\ \A t \in handedOut : t \notin DOMAIN tokenRows => t \notin DOMAIN tokenRows'
<1> USE DEF Auth!Renewing
<1> DEFINE Kept == AuthInv' /\ \A t \in handedOut : t \notin DOMAIN tokenRows => t \notin DOMAIN tokenRows'
<1>0. /\ Auth!Idle.at \notin Auth!RenewSteps
      /\ \A s \in {"signLogin", "purge", "create", "evict", "blacklist"} : [at |-> s].at \notin Auth!RenewSteps
  BY DEF Auth!Idle, Auth!RenewSteps
\* No request moves.
<1>1. ASSUME UNCHANGED <<handedOut, request, granted, overlapped>>, FewerRows PROVE Kept
  BY <1>1 DEF AuthInv, Renewals, FewerRows, Auth!Exceeded
\* One request goes on.
<1>2. ASSUME NEW r \in AuthRequests, NEW x, Auth!Goto(r, x), UNCHANGED <<handedOut, granted>>, FewerRows,
             overlapped \subseteq overlapped',
             x.at \in Auth!RenewSteps =>
               /\ x \in Renewals
               /\ x.token \notin overlapped' =>
                    \/ Auth!Renewing(r, x.token)
                    \/ \A o \in AuthRequests : ~Auth!Renewing(o, x.token)
               /\ x.token \notin overlapped' /\ x.at \in {"check", "update"} =>
                    x.used = granted[x.token] /\ ~Auth!Exceeded(x.used)
      PROVE  Kept
  <2>1. DOMAIN request' = AuthRequests /\ \A o \in AuthRequests : request'[o] = IF o = r THEN x ELSE request[o]
    BY <1>2 DEF AuthInv, Auth!Goto
  <2>2. ASSUME NEW t \in RefreshTokens \ overlapped'
        PROVE  /\ \A o, p \in AuthRequests : Auth!Renewing(o, t)' /\ Auth!Renewing(p, t)' => o = p
               /\ t \in DOMAIN tokenRows' => tokenRows'[t].used = granted[t]
               /\ \A o \in AuthRequests : Auth!Renewing(o, t)' /\ request'[o].at \in {"check", "update"} =>
                    request'[o].used = granted[t] /\ ~Auth!Exceeded(request'[o].used)
               /\ RefreshTokenAttempts # -1 => granted[t] <= RefreshTokenAttempts
    <3>1. t \notin overlapped
      BY <1>2, <2>2
    <3>2. \A o, p \in AuthRequests : Auth!Renewing(o, t)' /\ Auth!Renewing(p, t)' => o = p
      BY <1>2, <2>1, <2>2, <3>1 DEF AuthInv
    <3>3. t \in DOMAIN tokenRows' => tokenRows'[t].used = granted[t]
      BY <1>2, <3>1 DEF AuthInv, FewerRows
    <3>4. \A o \in AuthRequests : Auth!Renewing(o, t)' /\ request'[o].at \in {"check", "update"} =>
            request'[o].used = granted[t] /\ ~Auth!Exceeded(request'[o].used)
      BY <1>2, <2>1, <2>2, <3>1 DEF AuthInv
    <3>5. RefreshTokenAttempts # -1 => granted[t] <= RefreshTokenAttempts
      BY <3>1 DEF AuthInv
    <3> QED BY <3>2, <3>3, <3>4, <3>5
  <2>3. \A o \in AuthRequests : request'[o].at \in Auth!RenewSteps => request'[o] \in Renewals'
    BY <1>2, <2>1 DEF AuthInv, Renewals
  <2> QED BY <1>2, <2>1, <2>2, <2>3 DEF AuthInv, FewerRows, Auth!Exceeded
<1>3. FewerRows \/ ~UNCHANGED tokenRows
  BY DEF AuthInv, FewerRows
<1>4. ASSUME NEW ts, tokenRows' = Auth!Without(ts) PROVE FewerRows
  BY <1>4 DEF AuthInv, FewerRows, Auth!Without, Auth!Restrict
<1>5. ASSUME tokenRows' = <<>> PROVE FewerRows
  BY <1>5 DEF FewerRows
\* A request that leaves the renewals, or is none.
<1>6. ASSUME NEW r \in AuthRequests, NEW x, Auth!Goto(r, x), UNCHANGED <<handedOut, granted, overlapped>>,
             FewerRows, x.at \notin Auth!RenewSteps
      PROVE  Kept
  BY <1>2, <1>6
\* A renewal that goes on, with the count it read.
<1>7. ASSUME NEW r \in AuthRequests, NEW x \in Renewals, Auth!Goto(r, x), UNCHANGED <<handedOut, granted, overlapped>>,
             FewerRows, request[r].at \in Auth!RenewSteps, x.token = request[r].token,
             x.token \notin overlapped /\ x.at \in {"check", "update"} =>
               x.used = granted[x.token] /\ ~Auth!Exceeded(x.used)
      PROVE  Kept
  BY <1>2, <1>7
<1> HIDE DEF Kept
<1>8. ASSUME NEW r \in AuthRequests, Auth!StartLogin(r) \/ Auth!SignLogin(r) PROVE Kept
  BY <1>0, <1>3, <1>6, <1>8 DEF Auth!StartLogin, Auth!SignLogin, Auth!Signs
<1>9. ASSUME NEW r \in AuthRequests, Auth!PurgeOutdated(r) PROVE Kept
  BY <1>0, <1>4, <1>6, <1>9 DEF Auth!PurgeOutdated
<1>10. ASSUME NEW r \in AuthRequests, Auth!Evict(r) \/ Auth!StartLogout(r) PROVE Kept
  BY <1>0, <1>5, <1>6, <1>10 DEF Auth!Evict, Auth!StartLogout, Auth!DeleteByUser
<1>11. ASSUME NEW r \in AuthRequests, Auth!BlacklistJwt(r) PROVE Kept
  BY <1>0, <1>3, <1>6, <1>11 DEF Auth!BlacklistJwt
<1>12. ASSUME NEW r \in AuthRequests, Auth!FindUser(r) \/ Auth!SignRenewal(r) PROVE Kept
  <2>1. PICK s \in {"sign", "count"} : Auth!Goto(r, Auth!Idle) \/ Auth!Goto(r, [request[r] EXCEPT !.at = s])
    BY <1>12 DEF Auth!FindUser, Auth!SignRenewal, Auth!Signs
  <2>2. request[r].at \in Auth!RenewSteps /\ UNCHANGED <<tokenRows, handedOut, granted, overlapped>>
    BY <1>12 DEF Auth!FindUser, Auth!SignRenewal, Auth!Signs, Auth!RenewSteps
  <2> DEFINE x == [request[r] EXCEPT !.at = s]
  <2>3. request[r] \in Renewals
    BY <2>2 DEF AuthInv
  <2>4. x \in Renewals /\ x.at \notin {"check", "update"} /\ x.token = request[r].token
    BY <2>3 DEF Renewals, Auth!RenewSteps
  <2> HIDE DEF x
  <2>5. CASE Auth!Goto(r, x)
    BY <1>3, <1>7, <2>2, <2>4, <2>5
  <2>6. CASE Auth!Goto(r, Auth!Idle)
    BY <1>0, <1>3, <1>6, <2>2, <2>6
  <2> QED BY <2>1, <2>5, <2>6 DEF x
<1>13. ASSUME NEW r \in AuthRequests, Auth!CountAttempts(r) PROVE Kept
  <2> DEFINE t == request[r].token
             x == [request[r] EXCEPT !.at = "check", !.used = tokenRows[t].used]
  <2>1. request[r].at \in Auth!RenewSteps /\ UNCHANGED <<tokenRows, handedOut, granted, overlapped>>
    BY <1>13 DEF Auth!CountAttempts, Auth!RenewSteps
  <2>2. request[r] \in Renewals
    BY <2>1 DEF AuthInv
  <2>3. CASE t \notin DOMAIN tokenRows
    BY <1>0, <1>3, <1>6, <1>13, <2>1, <2>3 DEF Auth!CountAttempts, Auth!AfterValid
  <2>4. CASE t \in DOMAIN tokenRows /\ (tokenRows[t].expired \/ Auth!Exceeded(tokenRows[t].used))
    BY <1>0, <1>3, <1>6, <1>13, <2>1, <2>4 DEF Auth!CountAttempts, Auth!AfterValid
  <2>5. CASE t \in DOMAIN tokenRows /\ ~tokenRows[t].expired /\ ~Auth!Exceeded(tokenRows[t].used)
    <3>1. Auth!Goto(r, x)
      BY <1>13, <2>5 DEF Auth!CountAttempts, Auth!AfterValid
    <3>2. tokenRows[t].used \in Nat
      BY <2>5 DEF AuthInv
    <3>3. x \in Renewals /\ x.token = t /\ x.used = tokenRows[t].used
      BY <2>2, <3>2 DEF Renewals, Auth!RenewSteps
    <3>4. t \notin overlapped => tokenRows[t].used = granted[t]
      BY <2>2, <2>5 DEF AuthInv
    <3> HIDE DEF x
    <3> QED BY <1>3, <1>7, <2>1, <2>5, <3>1, <3>3, <3>4
  <2> QED BY <2>3, <2>4, <2>5
<1>14. ASSUME NEW r \in AuthRequests, Auth!CheckRow(r) PROVE Kept
  <2> DEFINE x == [request[r] EXCEPT !.at = "update"]
  <2>1. request[r].at = "check" /\ UNCHANGED <<tokenRows, handedOut, granted, overlapped>>
        /\ (Auth!Goto(r, x) \/ Auth!Goto(r, Auth!Idle))
    BY <1>14 DEF Auth!CheckRow
  <2>2. request[r] \in Renewals /\ request[r].at \in Auth!RenewSteps
    BY <2>1 DEF AuthInv, Auth!RenewSteps
  <2>3. x \in Renewals /\ x.token = request[r].token /\ x.used = request[r].used
    BY <2>2 DEF Renewals, Auth!RenewSteps
  <2>4. x.token \notin overlapped => x.used = granted[x.token] /\ ~Auth!Exceeded(x.used)
    <3>1. request[r].token \in RefreshTokens
      BY <2>2 DEF AuthInv, Renewals
    <3> QED BY <2>1, <2>2, <2>3, <3>1 DEF AuthInv
  <2> HIDE DEF x
  <2> QED BY <1>0, <1>3, <1>6, <1>7, <2>1, <2>2, <2>3, <2>4
<1>15. ASSUME NEW r \in AuthRequests, Auth!UpdateAttempts(r) PROVE Kept
  <2> DEFINE t == request[r].token
             used == request[r].used
  <2>1. /\ request[r].at = "update" /\ Auth!Goto(r, Auth!Idle) /\ UNCHANGED <<handedOut, overlapped>>
        /\ tokenRows' = Auth!Updated(t, used + 1) /\ granted' = [granted EXCEPT ![t] = @ + 1]
    BY <1>15 DEF Auth!UpdateAttempts
  <2>2. request[r] \in Renewals /\ request[r].at \in Auth!RenewSteps
    BY <2>1 DEF AuthInv, Auth!RenewSteps
  <2>3. t \in handedOut /\ t \in RefreshTokens /\ used \in Nat
    BY <2>2 DEF AuthInv, Renewals
  <2>4. t \notin overlapped => used = granted[t] /\ ~Auth!Exceeded(used)
    BY <2>1, <2>2, <2>3 DEF AuthInv
  <2>5. /\ granted' \in [RefreshTokens -> Nat]
        /\ \A s \in RefreshTokens : granted'[s] = IF s = t THEN granted[s] + 1 ELSE granted[s]
    BY <2>1, <2>3 DEF AuthInv
  <2>6. /\ DOMAIN tokenRows' = DOMAIN tokenRows
        /\ \A s \in DOMAIN tokenRows : /\ tokenRows'[s] \in [used : Nat, expired : BOOLEAN]
                                       /\ tokenRows'[s].used = IF s = t THEN used + 1 ELSE tokenRows[s].used
    BY <2>1, <2>3 DEF AuthInv, Auth!Updated
  <2>7. DOMAIN request' = AuthRequests /\ \A o \in AuthRequests : request'[o] = IF o = r THEN Auth!Idle ELSE request[o]
    BY <2>1 DEF AuthInv, Auth!Goto
  <2>8. ASSUME NEW s \in RefreshTokens \ overlapped
        PROVE  /\ \A o, p \in AuthRequests : Auth!Renewing(o, s)' /\ Auth!Renewing(p, s)' => o = p
               /\ s \in DOMAIN tokenRows' => tokenRows'[s].used = granted'[s]
               /\ \A o \in AuthRequests : Auth!Renewing(o, s)' /\ request'[o].at \in {"check", "update"} =>
                    request'[o].used = granted'[s] /\ ~Auth!Exceeded(request'[o].used)
               /\ RefreshTokenAttempts # -1 => granted'[s] <= RefreshTokenAttempts
    <3>1. \A o, p \in AuthRequests : Auth!Renewing(o, s)' /\ Auth!Renewing(p, s)' => o = p
      BY <1>0, <2>7 DEF AuthInv
    <3>2. s \in DOMAIN tokenRows' => tokenRows'[s].used = granted'[s]
      BY <2>4, <2>5, <2>6 DEF AuthInv
    <3>3. \A o \in AuthRequests : Auth!Renewing(o, s)' => o # r /\ request'[o] = request[o] /\ s # t
      BY <1>0, <2>1, <2>2, <2>7 DEF AuthInv
    <3>4. \A o \in AuthRequests : Auth!Renewing(o, s)' /\ request'[o].at \in {"check", "update"} =>
            request'[o].used = granted'[s] /\ ~Auth!Exceeded(request'[o].used)
      BY <2>5, <3>3 DEF AuthInv
    <3>5. RefreshTokenAttempts # -1 => granted'[s] <= RefreshTokenAttempts
      <4>1. granted[s] \in Nat /\ (s # t => granted'[s] = granted[s])
        BY <2>4, <2>5 DEF AuthInv
      <4>2. RefreshTokenAttempts # -1 => granted[s] <= RefreshTokenAttempts
        BY DEF AuthInv
      <4> QED BY <2>3, <2>4, <2>5, <4>1, <4>2, RenewalsBound DEF AuthInv, Auth!Exceeded
    <3> QED BY <3>1, <3>2, <3>4, <3>5
  <2>9. \A o \in AuthRequests : request'[o].at \in Auth!RenewSteps => request'[o] \in Renewals'
    BY <1>0, <2>1, <2>7 DEF AuthInv, Renewals
  <2>10. \A s \in RefreshTokens \ handedOut : granted'[s] = 0
    BY <2>3, <2>5 DEF AuthInv
  <2> HIDE DEF t, used
  <2> QED BY <2>1, <2>5, <2>6, <2>7, <2>8, <2>9, <2>10 DEF AuthInv, Kept, Auth!Exceeded
<1>16. ASSUME NEW r \in AuthRequests, NEW t \in RefreshTokens, Auth!CreateRefreshToken(r, t) PROVE Kept
  <2>1. CASE account = "gone"
    BY <1>0, <1>3, <1>6, <1>16, <2>1 DEF Auth!CreateRefreshToken
  <2>2. CASE account # "gone"
    <3>1. /\ t \notin handedOut /\ handedOut' = handedOut \cup {t} /\ UNCHANGED <<granted, overlapped>>
          /\ Auth!Goto(r, Auth!Idle)
      BY <1>16, <2>2 DEF Auth!CreateRefreshToken
    <3>2. /\ DOMAIN tokenRows' = DOMAIN tokenRows \cup {t}
          /\ \A s \in DOMAIN tokenRows' : tokenRows'[s] = IF s = t THEN [used |-> 0, expired |-> FALSE] ELSE tokenRows[s]
      BY <1>16, <2>2 DEF Auth!CreateRefreshToken
    <3>3. DOMAIN request' = AuthRequests /\ \A o \in AuthRequests : request'[o] = IF o = r THEN Auth!Idle ELSE request[o]
      BY <3>1 DEF AuthInv, Auth!Goto
    <3>4. \A s \in DOMAIN tokenRows' : tokenRows'[s] \in [used : Nat, expired : BOOLEAN]
      <4>1. [used |-> 0, expired |-> FALSE] \in [used : Nat, expired : BOOLEAN]
        OBVIOUS
      <4>2. \A s \in DOMAIN tokenRows : tokenRows[s] \in [used : Nat, expired : BOOLEAN]
        BY DEF AuthInv
      <4> QED BY <3>2, <4>1, <4>2
    <3>5. granted[t] = 0
      BY <3>1 DEF AuthInv
    <3>6. \A s \in DOMAIN tokenRows' : s \notin overlapped => tokenRows'[s].used = granted[s]
      BY <3>2, <3>5 DEF AuthInv
    <3>7. \A o \in AuthRequests : request'[o].at \in Auth!RenewSteps => request'[o] = request[o] /\ request[o] \in Renewals'
      BY <1>0, <3>1, <3>3 DEF AuthInv, Renewals
    <3>8. DOMAIN tokenRows' \subseteq handedOut' /\ handedOut' \subseteq RefreshTokens
      BY <3>1, <3>2 DEF AuthInv
    <3>9. \A s \in handedOut : s \notin DOMAIN tokenRows => s \notin DOMAIN tokenRows'
      BY <3>1, <3>2
    <3>10. AuthInv'
      <4>1. ASSUME NEW s \in RefreshTokens \ overlapped
            PROVE  /\ \A o, p \in AuthRequests : Auth!Renewing(o, s)' /\ Auth!Renewing(p, s)' => o = p
                   /\ \A o \in AuthRequests : Auth!Renewing(o, s)' /\ request'[o].at \in {"check", "update"} =>
                        request'[o].used = granted[s] /\ ~Auth!Exceeded(request'[o].used)
        BY <3>7 DEF AuthInv
      <4> QED BY <3>1, <3>3, <3>4, <3>6, <3>7, <3>8, <4>1 DEF AuthInv, Auth!Exceeded
    <3> QED BY <3>9, <3>10 DEF Kept
  <2> QED BY <2>1, <2>2
<1>17. ASSUME NEW r \in AuthRequests, NEW t \in RefreshTokens, Auth!StartRenewal(r, t) PROVE Kept
  <2> DEFINE x == [at |-> "user", token |-> t, used |-> 0]
             s == Auth!AfterValid(t, x)
  <2>1. /\ t \in handedOut /\ Auth!Goto(r, s) /\ UNCHANGED <<tokenRows, handedOut, granted>>
        /\ overlapped' = IF s.at = "user" /\ \E o \in AuthRequests : Auth!Renewing(o, t)
                         THEN overlapped \cup {t} ELSE overlapped
    BY <1>17 DEF Auth!StartRenewal
  <2>2. s = Auth!Idle \/ s = [at |-> "evict"] \/ s = x
    BY DEF Auth!AfterValid
  <2>3. x \in Renewals /\ x.at = "user" /\ x.token = t
    BY <2>1 DEF Renewals, Auth!RenewSteps
  <2>4. s.at \in Auth!RenewSteps => s = x
    BY <1>0, <2>2
  <2> HIDE DEF x, s
  <2>5. overlapped \subseteq overlapped'
    BY <2>1
  <2> QED BY <1>2, <1>3, <2>1, <2>3, <2>4, <2>5 DEF Kept
<1>18. ASSUME NEW t \in RefreshTokens, Auth!ExpireRow(t) PROVE Kept
  <2>1. FewerRows
    BY <1>18 DEF AuthInv, FewerRows, Auth!ExpireRow
  <2> QED BY <1>1, <1>18, <2>1 DEF Auth!ExpireRow, Kept
<1>19. CASE Auth!AgeBlacklist
  BY <1>1, <1>3, <1>19 DEF Auth!AgeBlacklist, Kept
<1>20. ASSUME NEW a \in {"unfit", "gone"}, Auth!ChangeAccount(a) PROVE Kept
  BY <1>1, <1>3, <1>5, <1>20 DEF Auth!ChangeAccount, Kept
<1>21. CASE UNCHANGED authVars
  BY <1>1, <1>3, <1>21 DEF authVars, Kept
<1>22. ASSUME NEW r \in AuthRequests, NEW t \in RefreshTokens, Auth!CreateRefreshToken(r, t) \/ Auth!StartRenewal(r, t)
       PROVE  Kept
  BY <1>16, <1>17, <1>22
<1>23. ASSUME NEW r \in AuthRequests,
              \/ Auth!StartLogin(r) \/ Auth!SignLogin(r) \/ Auth!PurgeOutdated(r) \/ Auth!FindUser(r)
              \/ Auth!SignRenewal(r) \/ Auth!CountAttempts(r) \/ Auth!CheckRow(r) \/ Auth!UpdateAttempts(r)
              \/ Auth!Evict(r) \/ Auth!StartLogout(r) \/ Auth!BlacklistJwt(r)
       PROVE  Kept
  BY <1>8, <1>9, <1>10, <1>11, <1>12, <1>13, <1>14, <1>15, <1>23
<1> QED BY <1>18, <1>19, <1>20, <1>21, <1>22, <1>23 DEF Auth!AuthNext, Kept

\* However many renewals, logouts, evictions and expiries interleave: a token is renewed so often
\* at most, unless two renewals of it overlapped, and one that ended never comes back.
THEOREM TokensEnd == MCSpec => TokensRunOut
<1> DEFINE NoReturn == \A t \in handedOut : t \notin DOMAIN tokenRows => t \notin DOMAIN tokenRows'
<1>1. MCInit => AuthInv
  BY ServicesAssumption DEF MCInit, AuthInv, Auth!AuthInit, Auth!Idle, Auth!RenewSteps, Auth!Renewing
<1>2. AuthInv /\ [MCNext]_vars => AuthInv' /\ NoReturn
  BY Framed, AuthKeep
<1>3. AuthInv' => Auth!AttemptsBounded'
  BY DEF AuthInv, Auth!AttemptsBounded
<1>4. AuthInv /\ [MCNext]_vars => [Auth!AttemptsBounded']_Auth!authVars /\ [NoReturn]_Auth!authVars
  BY <1>2, <1>3
<1> QED BY <1>1, <1>2, <1>4, PTL DEF MCSpec, TokensRunOut, Auth!TokensRunOut, Auth!NoTokenReturns,
                                     NoReturn

-----------------------------------------------------------------------------
(* Roles and permissions. *)

RoleNames == {"ADMIN", "OPERATOR", "GUEST"}
HasLoaded(name) == \E i \in DOMAIN loadedRoles : roleDocs[loadedRoles[i]] = name

\* The roles that boot has read in this run are in memory, as nobody empties the list any more:
\* requests do only while it is empty.
SyncInv ==
  /\ roleDocs \in Seq(RoleNames) /\ loadedRoles \in Seq(DOMAIN roleDocs)
  /\ roleSync \in [Rights!Syncers -> [role : 0..3, state : {"none", "look", "create", "created"}, id : Nat]]
  /\ \A s \in Rights!Syncers :
       /\ roleSync[s] # Rights!NotSyncing => roleSync[s].role # 0
       /\ roleSync[s].state = "created" =>
            roleSync[s].id \in DOMAIN roleDocs /\ roleDocs[roleSync[s].id] = Rights!RoleOrder[roleSync[s].role]
  /\ startup \in {"settings", "permissions", "roles", "ended", "failed"}
  /\ startup = "roles" <=> roleSync["boot"] # Rights!NotSyncing
  /\ startup = "roles" => \A k \in 1..3 : k < roleSync["boot"].role => HasLoaded(Rights!RoleOrder[k])
  /\ startup = "ended" => \A k \in 1..3 : HasLoaded(Rights!RoleOrder[k])
  /\ loadedPermissions \subseteq Rights!PermissionNames
  /\ startup \in {"roles", "ended"} => loadedPermissions = Rights!PermissionNames

LEMMA ThreeRoles ==
  /\ Rights!RoleOrder[1] = "ADMIN" /\ Rights!RoleOrder[2] = "OPERATOR" /\ Rights!RoleOrder[3] = "GUEST"
  /\ \A k \in 1..3 : Rights!RoleOrder[k] \in RoleNames
BY DEF Rights!RoleOrder, RoleNames

LEMMA SyncKeep ==
  ASSUME SyncInv, [Rights!RolesNext]_rolesVars
  PROVE  SyncInv'
<1> USE RolesAreNamed
<1> DEFINE Runs == [role : 0..3, state : {"none", "look", "create", "created"}, id : Nat]
<1>0. /\ "boot" \in Rights!Syncers /\ \A r \in RoleCallers : r \in Rights!Syncers /\ r # "boot"
      /\ Rights!NotSyncing \in Runs /\ Rights!NotSyncing.state = "none" /\ Rights!NotSyncing.role = 0
      /\ roleSync \in [Rights!Syncers -> Runs]
  BY DEF Rights!Syncers, Rights!NotSyncing, SyncInv
<1>1. ASSUME UNCHANGED <<roleDocs, startup, loadedRoles, loadedPermissions, roleSync>> PROVE SyncInv'
  BY <1>1 DEF SyncInv, HasLoaded
\* One goes on, or stops, and the list is as it is.
<1>2. ASSUME NEW s \in Rights!Syncers, NEW x \in Runs, roleSync' = [roleSync EXCEPT ![s] = x],
             UNCHANGED <<startup, loadedRoles, loadedPermissions>>,
             roleDocs' \in Seq(RoleNames), \A i \in DOMAIN roleDocs : i \in DOMAIN roleDocs' /\ roleDocs'[i] = roleDocs[i],
             x # Rights!NotSyncing => x.role # 0,
             s = "boot" => x # Rights!NotSyncing /\ roleSync[s] # Rights!NotSyncing /\ x.role = roleSync[s].role,
             x.state = "created" => x.id \in DOMAIN roleDocs' /\ roleDocs'[x.id] = Rights!RoleOrder[x.role]
      PROVE  SyncInv'
  <2>1. roleSync' \in [Rights!Syncers -> Runs] /\ \A o \in Rights!Syncers : roleSync'[o] = IF o = s THEN x ELSE roleSync[o]
    BY <1>0, <1>2
  <2>2. loadedRoles \in Seq(DOMAIN roleDocs) /\ \A i \in DOMAIN loadedRoles : loadedRoles[i] \in DOMAIN roleDocs
    BY DEF SyncInv
  <2>3. loadedRoles' \in Seq(DOMAIN roleDocs')
    BY <1>2, <2>2
  <2>4. \A name : HasLoaded(name) => HasLoaded(name)'
    BY <1>2, <2>2 DEF HasLoaded
  <2>5. \A o \in Rights!Syncers :
          /\ roleSync'[o] # Rights!NotSyncing => roleSync'[o].role # 0
          /\ roleSync'[o].state = "created" =>
               roleSync'[o].id \in DOMAIN roleDocs' /\ roleDocs'[roleSync'[o].id] = Rights!RoleOrder[roleSync'[o].role]
    BY <1>2, <2>1 DEF SyncInv
  <2>6. /\ startup' = "roles" <=> roleSync'["boot"] # Rights!NotSyncing
        /\ startup' = "roles" => roleSync'["boot"].role = roleSync["boot"].role
    BY <1>0, <1>2, <2>1 DEF SyncInv
  <2> QED BY <1>2, <2>1, <2>3, <2>4, <2>5, <2>6 DEF SyncInv
<1>3. ASSUME NEW s \in Rights!Syncers, NEW id \in DOMAIN roleDocs, NEW c, roleSync[s] # Rights!NotSyncing,
             roleDocs[id] = Rights!RoleOrder[roleSync[s].role], Rights!Push(s, id, c),
             UNCHANGED <<roleDocs, loadedPermissions>>
      PROVE  SyncInv'
  <2> DEFINE x == IF roleSync[s].role = 3 THEN Rights!NotSyncing
                  ELSE [role |-> roleSync[s].role + 1, state |-> "look", id |-> 0]
  <2>1. /\ loadedRoles' = Append(loadedRoles, id) /\ roleSync' = [roleSync EXCEPT ![s] = x]
        /\ startup' = IF s = "boot" /\ roleSync[s].role = 3 THEN "ended" ELSE startup
    BY <1>0, <1>3 DEF Rights!Push, Rights!Kept
  <2>2. roleSync[s].role \in 1..3
    BY <1>0, <1>3 DEF SyncInv
  <2>3. /\ x \in Runs /\ x.state # "created" /\ (x # Rights!NotSyncing => x.role # 0)
        /\ x = Rights!NotSyncing <=> roleSync[s].role = 3
        /\ x # Rights!NotSyncing => x.role = roleSync[s].role + 1
    <3>1. CASE roleSync[s].role = 3
      BY <1>0, <3>1
    <3>2. CASE roleSync[s].role # 3
      BY <2>2, <3>2 DEF Rights!NotSyncing
    <3> QED BY <3>1, <3>2
  <2> HIDE DEF x
  <2>4. roleSync' \in [Rights!Syncers -> Runs] /\ \A o \in Rights!Syncers : roleSync'[o] = IF o = s THEN x ELSE roleSync[o]
    BY <1>0, <2>1, <2>3
  <2>5. loadedRoles \in Seq(DOMAIN roleDocs) /\ roleDocs \in Seq(RoleNames)
    BY DEF SyncInv
  <2>6. /\ loadedRoles' \in Seq(DOMAIN roleDocs) /\ DOMAIN loadedRoles' = DOMAIN loadedRoles \cup {Len(loadedRoles) + 1}
        /\ loadedRoles'[Len(loadedRoles) + 1] = id /\ \A i \in DOMAIN loadedRoles : loadedRoles'[i] = loadedRoles[i]
    BY <2>1, <2>5
  <2> PICK k \in 1..3 : k = roleSync[s].role
    BY <2>2
  <2>7. HasLoaded(Rights!RoleOrder[k])' /\ \A name : HasLoaded(name) => HasLoaded(name)'
    <3>1. \A i \in DOMAIN loadedRoles : i \in DOMAIN loadedRoles' /\ loadedRoles'[i] = loadedRoles[i]
      BY <2>6
    <3>2. Len(loadedRoles) + 1 \in DOMAIN loadedRoles' /\ roleDocs'[loadedRoles'[Len(loadedRoles) + 1]] = Rights!RoleOrder[k]
      BY <1>3, <2>6
    <3> QED BY <1>3, <3>1, <3>2 DEF HasLoaded
  <2>8. \A o \in Rights!Syncers :
          /\ roleSync'[o] # Rights!NotSyncing => roleSync'[o].role # 0
          /\ roleSync'[o].state = "created" =>
               roleSync'[o].id \in DOMAIN roleDocs' /\ roleDocs'[roleSync'[o].id] = Rights!RoleOrder[roleSync'[o].role]
    BY <1>3, <2>3, <2>4 DEF SyncInv
  <2>9. CASE s # "boot"
    <3>1. startup' = startup /\ roleSync'["boot"] = roleSync["boot"]
      BY <1>0, <2>1, <2>4, <2>9
    <3> QED BY <1>3, <2>4, <2>5, <2>6, <2>7, <2>8, <3>1 DEF SyncInv
  <2>10. CASE s = "boot"
    <3>1. startup = "roles" /\ \A m \in 1..3 : m < roleSync["boot"].role => HasLoaded(Rights!RoleOrder[m])
      BY <1>3, <2>10 DEF SyncInv
    <3>2. \A m \in 1..3 : m <= roleSync["boot"].role => HasLoaded(Rights!RoleOrder[m])'
      <4>1. \A m \in 1..3 : m <= k => m < k \/ m = k
        OBVIOUS
      <4> QED BY <2>7, <2>10, <3>1, <4>1
    <3>3. startup' \in {"roles", "ended"} /\ (startup' = "roles" <=> roleSync'["boot"] # Rights!NotSyncing)
      BY <1>0, <2>1, <2>3, <2>4, <2>10, <3>1
    <3>4. startup' = "ended" => \A m \in 1..3 : HasLoaded(Rights!RoleOrder[m])'
      BY <2>1, <2>10, <3>1, <3>2
    <3>5. startup' = "roles" => \A m \in 1..3 : m < roleSync'["boot"].role => HasLoaded(Rights!RoleOrder[m])'
      BY <2>1, <2>2, <2>3, <2>4, <2>10, <3>1, <3>2, <3>3
    <3>6. loadedPermissions = Rights!PermissionNames
      BY <3>1 DEF SyncInv
    <3> QED BY <1>3, <2>4, <2>5, <2>6, <2>8, <3>3, <3>4, <3>5, <3>6 DEF SyncInv
  <2> QED BY <2>9, <2>10
\* The list is emptied by a request only when it is empty.
<1>4. ASSUME NEW s \in Rights!Syncers, Rights!BeginSync(s), UNCHANGED roleDocs, loadedPermissions' \subseteq Rights!PermissionNames,
             \/ s # "boot" /\ loadedRoles = <<>> /\ UNCHANGED <<startup, loadedPermissions>>
             \/ s = "boot" /\ startup' = "roles" /\ loadedPermissions' = Rights!PermissionNames
      PROVE  SyncInv'
  <2> DEFINE x == [role |-> 1, state |-> "look", id |-> 0]
  <2>1. loadedRoles' = <<>> /\ roleSync' = [roleSync EXCEPT ![s] = x]
    BY <1>4 DEF Rights!BeginSync
  <2>2. x \in Runs /\ x.role = 1 /\ x.state = "look" /\ x # Rights!NotSyncing
    BY DEF Rights!NotSyncing
  <2> HIDE DEF x
  <2>3. roleSync' \in [Rights!Syncers -> Runs] /\ \A o \in Rights!Syncers : roleSync'[o] = IF o = s THEN x ELSE roleSync[o]
    BY <1>0, <2>1, <2>2
  <2>4. loadedRoles' \in Seq(DOMAIN roleDocs') /\ roleDocs \in Seq(RoleNames)
    BY <2>1 DEF SyncInv
  <2>5. \A o \in Rights!Syncers :
          /\ roleSync'[o] # Rights!NotSyncing => roleSync'[o].role # 0
          /\ roleSync'[o].state = "created" =>
               roleSync'[o].id \in DOMAIN roleDocs' /\ roleDocs'[roleSync'[o].id] = Rights!RoleOrder[roleSync'[o].role]
    <3>1. \A o \in Rights!Syncers :
            /\ roleSync[o] # Rights!NotSyncing => roleSync[o].role # 0
            /\ roleSync[o].state = "created" =>
                 roleSync[o].id \in DOMAIN roleDocs /\ roleDocs[roleSync[o].id] = Rights!RoleOrder[roleSync[o].role]
      BY DEF SyncInv
    <3> QED BY <1>4, <2>2, <2>3, <3>1
  <2>6. CASE s = "boot"
    BY <1>0, <1>4, <2>2, <2>3, <2>4, <2>5, <2>6 DEF SyncInv
  <2>7. CASE s # "boot"
    <3>1. UNCHANGED <<startup, loadedPermissions, loadedRoles>> /\ roleSync'["boot"] = roleSync["boot"]
      BY <1>0, <1>4, <2>1, <2>3, <2>7
    <3>2. \A name : HasLoaded(name) <=> HasLoaded(name)'
      BY <1>4, <3>1 DEF HasLoaded
    <3> QED BY <1>4, <2>3, <2>4, <2>5, <3>1, <3>2 DEF SyncInv
  <2> QED BY <2>6, <2>7
<1>5. ASSUME NEW s \in Rights!Syncers, Rights!LookForRole(s) PROVE SyncInv'
  <2> DEFINE name == Rights!RoleOrder[roleSync[s].role]
             stored == {i \in DOMAIN roleDocs : roleDocs[i] = name}
             x == [roleSync[s] EXCEPT !.state = "create"]
  <2>1. roleSync[s] \in Runs /\ roleSync[s] # Rights!NotSyncing /\ roleSync[s].role # 0 /\ roleSync[s].state = "look"
    BY <1>0, <1>5 DEF Rights!LookForRole, SyncInv
  <2>2. UNCHANGED <<roleDocs, loadedPermissions>> /\ roleDocs \in Seq(RoleNames)
    BY <1>5 DEF Rights!LookForRole, SyncInv
  <2>3. CASE stored = {}
    <3>1. roleSync' = [roleSync EXCEPT ![s] = x] /\ UNCHANGED <<loadedRoles, startup>>
      BY <1>0, <1>5, <2>3 DEF Rights!LookForRole
    <3>2. x \in Runs /\ x.role = roleSync[s].role /\ x.state = "create"
      BY <2>1
    <3> HIDE DEF x, Runs
    <3> QED BY <1>0, <1>2, <2>1, <2>2, <3>1, <3>2
  <2>4. CASE stored # {}
    <3> DEFINE id == CHOOSE i \in stored : \A j \in stored : i <= j
    <3>1. Rights!Push(s, id, FALSE)
      BY <1>5, <2>4 DEF Rights!LookForRole
    <3>2. stored \subseteq Nat
      BY <2>2
    <3>3. id \in stored
      <4> HIDE DEF stored
      <4> QED BY <2>4, <3>2, LeastIsThere
    <3> HIDE DEF id
    <3> QED BY <1>3, <2>1, <2>2, <3>1, <3>3
  <2> QED BY <2>3, <2>4
<1>6. ASSUME NEW s \in Rights!Syncers, Rights!StoreNewRole(s) PROVE SyncInv'
  <2> DEFINE name == Rights!RoleOrder[roleSync[s].role]
             x == [roleSync[s] EXCEPT !.state = "created", !.id = Len(roleDocs')]
  <2>1. roleSync[s] \in Runs /\ roleSync[s] # Rights!NotSyncing /\ roleSync[s].role # 0
    BY <1>0, <1>6 DEF Rights!StoreNewRole, SyncInv
  <2>2. name \in RoleNames
    BY <2>1, ThreeRoles
  <2>3. /\ roleDocs' = Append(roleDocs, name) /\ UNCHANGED <<startup, loadedRoles, loadedPermissions>>
        /\ roleSync' = [roleSync EXCEPT ![s] = x]
    BY <1>0, <1>6 DEF Rights!StoreNewRole
  <2> HIDE DEF name
  <2>4. roleDocs \in Seq(RoleNames)
    BY DEF SyncInv
  <2>5. /\ roleDocs' \in Seq(RoleNames) /\ Len(roleDocs') \in DOMAIN roleDocs' /\ Len(roleDocs') \in Nat
        /\ roleDocs'[Len(roleDocs')] = name
        /\ \A i \in DOMAIN roleDocs : i \in DOMAIN roleDocs' /\ roleDocs'[i] = roleDocs[i]
    BY <2>2, <2>3, <2>4
  <2>6. x \in Runs /\ x.role = roleSync[s].role /\ x.state = "created" /\ x.id = Len(roleDocs')
    BY <2>1, <2>5
  <2>7. x # Rights!NotSyncing
    BY <1>0, <2>6
  <2> HIDE DEF x, Runs
  <2> QED BY <1>2, <2>1, <2>3, <2>5, <2>6, <2>7 DEF name
<1>7. ASSUME NEW s \in Rights!Syncers, Rights!NewRoleStored(s) PROVE SyncInv'
  <2>1. roleSync[s].state = "created" /\ roleSync[s] # Rights!NotSyncing
    BY <1>0, <1>7 DEF Rights!NewRoleStored
  <2>2. roleSync[s].id \in DOMAIN roleDocs /\ roleDocs[roleSync[s].id] = Rights!RoleOrder[roleSync[s].role]
    BY <2>1 DEF SyncInv
  <2> QED BY <1>3, <1>7, <2>1, <2>2 DEF Rights!NewRoleStored
<1>8. CASE Rights!LoadSettings
  <2>1. startup = "settings" /\ startup' = "permissions" /\ UNCHANGED <<roleDocs, loadedRoles, loadedPermissions, roleSync>>
    BY <1>8 DEF Rights!LoadSettings, Rights!Booted
  <2> QED BY <2>1 DEF SyncInv
<1>9. ASSUME NEW p \in Rights!PermissionNames, Rights!SyncPermission(p) PROVE SyncInv'
  <2>1. startup = "permissions" /\ loadedPermissions' = loadedPermissions \cup {p} /\ UNCHANGED roleDocs
    BY <1>9 DEF Rights!SyncPermission, Rights!Booted
  <2>2. loadedPermissions' \subseteq Rights!PermissionNames
    BY <2>1 DEF SyncInv
  <2>3. CASE loadedPermissions' = Rights!PermissionNames
    BY <1>0, <1>4, <1>9, <2>1, <2>3 DEF Rights!SyncPermission, Rights!Booted
  <2>4. CASE loadedPermissions' # Rights!PermissionNames
    <3>1. startup' = "permissions" /\ UNCHANGED <<loadedRoles, roleSync>>
      BY <1>9, <2>4 DEF Rights!SyncPermission, Rights!Booted
    <3> QED BY <2>1, <2>2, <3>1 DEF SyncInv
  <2> QED BY <2>3, <2>4
<1>10. CASE Rights!BootFails
  <2>1. startup' = "failed" /\ roleSync' = [roleSync EXCEPT !["boot"] = Rights!NotSyncing] /\ UNCHANGED <<roleDocs, loadedRoles, loadedPermissions>>
    BY <1>10 DEF Rights!BootFails, Rights!Booted
  <2>2. roleSync' \in [Rights!Syncers -> Runs]
        /\ \A o \in Rights!Syncers : roleSync'[o] = IF o = "boot" THEN Rights!NotSyncing ELSE roleSync[o]
    BY <1>0, <2>1
  <2> QED BY <1>0, <2>1, <2>2 DEF SyncInv
<1>11. CASE Rights!BootRunsAgain
  <2>1. /\ startup = "failed" /\ startup' = "permissions" /\ loadedPermissions' = {}
        /\ UNCHANGED <<roleDocs, loadedRoles, roleSync>>
    BY <1>11 DEF Rights!BootRunsAgain, Rights!Booted
  <2> QED BY <2>1 DEF SyncInv
<1>12. CASE Rights!ProcessRestarts
  <2>1. /\ startup' = "settings" /\ loadedRoles' = <<>> /\ loadedPermissions' = {} /\ UNCHANGED roleDocs
        /\ roleSync' = [s \in Rights!Syncers |-> Rights!NotSyncing]
    BY <1>12 DEF Rights!ProcessRestarts, Rights!Forgotten
  <2>2. roleSync' \in [Rights!Syncers -> Runs] /\ \A s \in Rights!Syncers : roleSync'[s] = Rights!NotSyncing
    BY <1>0, <2>1
  <2>3. loadedRoles' \in Seq(DOMAIN roleDocs')
    BY <2>1
  <2> QED BY <1>0, <2>1, <2>2, <2>3 DEF SyncInv
<1>13. ASSUME NEW r \in RoleCallers, Rights!Setup(r) PROVE SyncInv'
  BY <1>0, <1>1, <1>4, <1>13 DEF Rights!Setup, SyncInv
<1>14. ASSUME NEW r \in RoleCallers, Rights!RequestFails(r) PROVE SyncInv'
  <2>1. roleSync' = [roleSync EXCEPT ![r] = Rights!NotSyncing] /\ UNCHANGED <<roleDocs, startup, loadedRoles, loadedPermissions>>
    BY <1>14 DEF Rights!RequestFails
  <2>2. roleDocs' \in Seq(RoleNames) /\ \A i \in DOMAIN roleDocs : i \in DOMAIN roleDocs' /\ roleDocs'[i] = roleDocs[i]
    BY <2>1 DEF SyncInv
  <2> HIDE DEF Runs
  <2> QED BY <1>0, <1>2, <2>1, <2>2
<1>15. ASSUME NEW r \in RoleCallers,
              \/ Rights!TakeRole(r) \/ Rights!FindUser(r) \/ Rights!PatchLoginRequired(r) \/ Rights!CompleteWizard(r)
              \/ \E name \in OwnerNames : Rights!RegisterUser(r, name)
       PROVE  SyncInv'
  BY <1>1, <1>15 DEF Rights!TakeRole, Rights!FindUser, Rights!PatchLoginRequired,
                     Rights!CompleteWizard, Rights!RegisterUser
<1>16. CASE UNCHANGED rolesVars
  BY <1>1, <1>16 DEF rolesVars
<1> HIDE DEF Runs
<1> QED BY <1>5, <1>6, <1>7, <1>8, <1>9, <1>10, <1>11, <1>12, <1>13, <1>14, <1>15, <1>16
           DEF Rights!RolesNext

LEMMA SetupOrder ==
  /\ Rights!StepAfter("role") = "findUser" /\ Rights!StepAfter("findUser") = "register"
  /\ Rights!StepAfter("register") = "setLogin" /\ Rights!StepAfter("setLogin") = "complete"
  /\ Rights!StepAfter("complete") = "done"
<1> DEFINE place(s) == CHOOSE i \in DOMAIN Rights!SetupSteps : Rights!SetupSteps[i] = s
<1>1. /\ DOMAIN Rights!SetupSteps = 1..6 /\ Rights!SetupSteps[1] = "role" /\ Rights!SetupSteps[2] = "findUser"
      /\ Rights!SetupSteps[3] = "register" /\ Rights!SetupSteps[4] = "setLogin"
      /\ Rights!SetupSteps[5] = "complete" /\ Rights!SetupSteps[6] = "done"
  BY DEF Rights!SetupSteps
<1>2. \A i \in 1..6 : i = 1 \/ i = 2 \/ i = 3 \/ i = 4 \/ i = 5 \/ i = 6
  OBVIOUS
<1>3. place("role") = 1 /\ place("findUser") = 2 /\ place("register") = 3 /\ place("setLogin") = 4 /\ place("complete") = 5
  BY <1>1, <1>2
<1> QED BY <1>1, <1>3 DEF Rights!StepAfter

\* Whoever a setup registered has the role ADMIN, and a setup that is past it left an account.
SetupInv ==
  /\ roleCall \in [RoleCallers -> [at : {"none", "role", "findUser", "register", "setLogin", "complete"}, role : Nat]]
  /\ \A r \in RoleCallers :
       /\ roleCall[r].at \in {"findUser", "register", "setLogin", "complete"} =>
            roleCall[r].role \in DOMAIN roleDocs /\ roleDocs[roleCall[r].role] = "ADMIN"
       /\ roleCall[r].at \in {"setLogin", "complete"} => DOMAIN accountDocs # {}
  /\ DOMAIN accountDocs \subseteq OwnerNames
  /\ \A u \in DOMAIN accountDocs : accountDocs[u] \in DOMAIN roleDocs /\ roleDocs[accountDocs[u]] = "ADMIN"
  /\ wizardCompleted => DOMAIN accountDocs # {}

LEMMA SetupKeep ==
  ASSUME SyncInv, SetupInv, [Rights!RolesNext]_rolesVars
  PROVE  SetupInv'
<1> DEFINE Calls == [at : {"none", "role", "findUser", "register", "setLogin", "complete"}, role : Nat]
           CallOK(x) ==
             /\ x.at \in {"findUser", "register", "setLogin", "complete"} =>
                  x.role \in DOMAIN roleDocs /\ roleDocs[x.role] = "ADMIN"
             /\ x.at \in {"setLogin", "complete"} => DOMAIN accountDocs # {}
<1>0. /\ roleCall \in [RoleCallers -> Calls] /\ \A r \in RoleCallers : CallOK(roleCall[r])
      /\ Rights!NotCalled \in Calls /\ Rights!NotCalled.at = "none"
  BY DEF SetupInv, Rights!NotCalled
\* Roles are stored, and the rest stays.
<1>1. ASSUME UNCHANGED <<accountDocs, wizardCompleted, roleCall>>,
             \A i \in DOMAIN roleDocs : i \in DOMAIN roleDocs' /\ roleDocs'[i] = roleDocs[i]
      PROVE  SetupInv'
  BY <1>1 DEF SetupInv
\* A call goes on.
<1>2. ASSUME NEW r \in RoleCallers, NEW x \in Calls, roleCall' = [roleCall EXCEPT ![r] = x], UNCHANGED <<roleDocs, accountDocs>>,
             x.at \in {"findUser", "register", "setLogin", "complete"} => x.role \in DOMAIN roleDocs /\ roleDocs[x.role] = "ADMIN",
             x.at \in {"setLogin", "complete"} => DOMAIN accountDocs # {},
             wizardCompleted' => wizardCompleted \/ DOMAIN accountDocs # {}
      PROVE  SetupInv'
  <2>1. roleCall' \in [RoleCallers -> Calls] /\ \A q \in RoleCallers : roleCall'[q] = IF q = r THEN x ELSE roleCall[q]
    BY <1>0, <1>2
  <2> QED BY <1>2, <2>1 DEF SetupInv
<1>3. ASSUME NEW r \in RoleCallers, Rights!Goes(r, "done"), UNCHANGED <<roleDocs, accountDocs, wizardCompleted>>
      PROVE  SetupInv'
  <2>1. roleCall' = [roleCall EXCEPT ![r] = Rights!NotCalled]
    BY <1>0, <1>3 DEF Rights!Goes
  <2> HIDE DEF Calls
  <2> QED BY <1>0, <1>2, <1>3, <2>1
\* What a call that does not end becomes.
<1>4. ASSUME NEW r \in RoleCallers, NEW at \in {"findUser", "register", "setLogin", "complete"}, Rights!Goes(r, at)
      PROVE  /\ roleCall' = [roleCall EXCEPT ![r] = [roleCall[r] EXCEPT !.at = at]]
             /\ [roleCall[r] EXCEPT !.at = at] \in Calls
             /\ [roleCall[r] EXCEPT !.at = at].at = at /\ [roleCall[r] EXCEPT !.at = at].role = roleCall[r].role
  BY <1>0, <1>4 DEF Rights!Goes
<1> HIDE DEF Calls
<1>5. ASSUME NEW r \in RoleCallers, Rights!Setup(r) PROVE SetupInv'
  <2>1. [at |-> "role", role |-> 0] \in Calls /\ [at |-> "role", role |-> 0].at = "role"
    BY DEF Calls
  <2> QED BY <1>2, <1>5, <2>1 DEF Rights!Setup
<1>6. ASSUME NEW r \in RoleCallers, Rights!TakeRole(r) PROVE SetupInv'
  <2> DEFINE named == {i \in DOMAIN loadedRoles : roleDocs[loadedRoles[i]] = "ADMIN"}
             i == CHOOSE i \in named : \A j \in named : i <= j
             x == [roleCall[r] EXCEPT !.at = "findUser", !.role = loadedRoles[i]]
  <2>1. UNCHANGED <<roleDocs, accountDocs, wizardCompleted>>
    BY <1>6 DEF Rights!TakeRole
  <2>2. CASE named = {}
    BY <1>3, <1>6, <2>1, <2>2 DEF Rights!TakeRole
  <2>3. CASE named # {}
    <3>1. roleCall' = [roleCall EXCEPT ![r] = x]
      BY <1>0, <1>6, <2>3, SetupOrder DEF Rights!TakeRole
    <3>2. loadedRoles \in Seq(DOMAIN roleDocs) /\ roleDocs \in Seq(RoleNames)
      BY DEF SyncInv
    <3>3. named \subseteq Nat
      BY <3>2
    <3>4. i \in named
      <4> HIDE DEF named
      <4> QED BY <2>3, <3>3, LeastIsThere
    <3> HIDE DEF i
    <3>5. loadedRoles[i] \in DOMAIN roleDocs /\ loadedRoles[i] \in Nat /\ roleDocs[loadedRoles[i]] = "ADMIN"
      BY <3>2, <3>4
    <3>6. x \in Calls /\ x.at = "findUser" /\ x.role = loadedRoles[i]
      BY <1>0, <3>5 DEF Calls
    <3> HIDE DEF x
    <3> QED BY <1>2, <2>1, <3>1, <3>5, <3>6
  <2> QED BY <2>2, <2>3
<1>7. ASSUME NEW r \in RoleCallers, Rights!FindUser(r) PROVE SetupInv'
  <2>1. roleCall[r].at = "findUser" /\ UNCHANGED <<roleDocs, accountDocs, wizardCompleted>>
        /\ (Rights!Goes(r, "register") \/ Rights!Goes(r, "done"))
    BY <1>7, SetupOrder DEF Rights!FindUser, Rights!GoesOn
  <2> DEFINE x == [roleCall[r] EXCEPT !.at = "register"]
  <2>2. CASE Rights!Goes(r, "register")
    <3>1. roleCall' = [roleCall EXCEPT ![r] = x] /\ x \in Calls /\ x.at = "register" /\ x.role = roleCall[r].role
      BY <1>4, <2>2
    <3>2. roleCall[r].role \in DOMAIN roleDocs /\ roleDocs[roleCall[r].role] = "ADMIN"
      BY <1>0, <2>1
    <3> HIDE DEF x
    <3> QED BY <1>2, <2>1, <3>1, <3>2
  <2> QED BY <1>3, <2>1, <2>2
<1>8. ASSUME NEW r \in RoleCallers, NEW name \in OwnerNames, Rights!RegisterUser(r, name)
      PROVE  SetupInv'
  <2>1. roleCall[r].at = "register" /\ UNCHANGED <<roleDocs, wizardCompleted>>
    BY <1>8 DEF Rights!RegisterUser
  <2>2. CASE name \in DOMAIN accountDocs
    BY <1>3, <1>8, <2>1, <2>2 DEF Rights!RegisterUser
  <2>3. CASE name \notin DOMAIN accountDocs
    <3>1. Rights!Goes(r, "setLogin")
          /\ accountDocs' = [u \in DOMAIN accountDocs \cup {name} |-> IF u = name THEN roleCall[r].role ELSE accountDocs[u]]
      BY <1>8, <2>1, <2>3, SetupOrder DEF Rights!RegisterUser, Rights!GoesOn
    <3>2. roleCall[r].role \in DOMAIN roleDocs /\ roleDocs[roleCall[r].role] = "ADMIN"
      BY <1>0, <2>1
    <3>3. /\ DOMAIN accountDocs' = DOMAIN accountDocs \cup {name} /\ DOMAIN accountDocs' \subseteq OwnerNames
          /\ \A u \in DOMAIN accountDocs' : accountDocs'[u] \in DOMAIN roleDocs /\ roleDocs[accountDocs'[u]] = "ADMIN"
      BY <3>1, <3>2 DEF SetupInv
    <3> DEFINE x == [roleCall[r] EXCEPT !.at = "setLogin"]
    <3>4. roleCall' = [roleCall EXCEPT ![r] = x] /\ x \in Calls /\ x.at = "setLogin" /\ x.role = roleCall[r].role
      BY <1>4, <3>1
    <3> HIDE DEF x
    <3>5. roleCall' \in [RoleCallers -> Calls] /\ \A q \in RoleCallers : roleCall'[q] = IF q = r THEN x ELSE roleCall[q]
      BY <1>0, <3>4
    <3> QED BY <1>0, <2>1, <3>2, <3>3, <3>4, <3>5 DEF SetupInv, Calls
  <2> QED BY <2>2, <2>3
<1>9. ASSUME NEW r \in RoleCallers, Rights!PatchLoginRequired(r) PROVE SetupInv'
  <2>1. roleCall[r].at = "setLogin" /\ UNCHANGED <<roleDocs, accountDocs, wizardCompleted>> /\ Rights!Goes(r, "complete")
    BY <1>9, SetupOrder DEF Rights!PatchLoginRequired, Rights!GoesOn
  <2> DEFINE x == [roleCall[r] EXCEPT !.at = "complete"]
  <2>2. roleCall' = [roleCall EXCEPT ![r] = x] /\ x \in Calls /\ x.at = "complete" /\ x.role = roleCall[r].role
    BY <1>4, <2>1
  <2>3. roleCall[r].role \in DOMAIN roleDocs /\ roleDocs[roleCall[r].role] = "ADMIN" /\ DOMAIN accountDocs # {}
    BY <1>0, <2>1
  <2> HIDE DEF x
  <2> QED BY <1>2, <2>1, <2>2, <2>3
<1>10. ASSUME NEW r \in RoleCallers, Rights!CompleteWizard(r) PROVE SetupInv'
  <2>1. roleCall[r].at = "complete" /\ UNCHANGED <<roleDocs, accountDocs>> /\ Rights!Goes(r, "done") /\ wizardCompleted'
    BY <1>10, SetupOrder DEF Rights!CompleteWizard, Rights!GoesOn
  <2>2. roleCall' = [roleCall EXCEPT ![r] = Rights!NotCalled] /\ DOMAIN accountDocs # {}
    BY <1>0, <2>1 DEF Rights!Goes
  <2> QED BY <1>0, <1>2, <2>1, <2>2
<1>11. ASSUME NEW r \in RoleCallers, Rights!RequestFails(r) PROVE SetupInv'
  BY <1>3, <1>11 DEF Rights!RequestFails
<1>12. ASSUME NEW s \in Rights!Syncers, Rights!LookForRole(s) \/ Rights!StoreNewRole(s) \/ Rights!NewRoleStored(s)
       PROVE  SetupInv'
  <2>1. UNCHANGED <<accountDocs, wizardCompleted, roleCall>> /\ (UNCHANGED roleDocs \/ \E n : roleDocs' = Append(roleDocs, n))
    BY <1>12 DEF Rights!LookForRole, Rights!StoreNewRole, Rights!NewRoleStored
  <2>2. roleDocs \in Seq(RoleNames)
    BY DEF SyncInv
  <2>3. \A i \in DOMAIN roleDocs : i \in DOMAIN roleDocs' /\ roleDocs'[i] = roleDocs[i]
    BY <2>1, <2>2
  <2> QED BY <1>1, <2>1, <2>3
<1>13. CASE Rights!LoadSettings \/ Rights!BootFails \/ Rights!BootRunsAgain \/ \E p \in Rights!PermissionNames : Rights!SyncPermission(p)
  BY <1>1, <1>13 DEF Rights!LoadSettings, Rights!BootFails, Rights!BootRunsAgain,
                     Rights!SyncPermission, Rights!Booted
<1>14. CASE Rights!ProcessRestarts
  <2>1. UNCHANGED <<roleDocs, accountDocs, wizardCompleted>> /\ roleCall' = [r \in RoleCallers |-> Rights!NotCalled]
    BY <1>14 DEF Rights!ProcessRestarts, Rights!Forgotten
  <2>2. roleCall' \in [RoleCallers -> Calls] /\ \A q \in RoleCallers : roleCall'[q].at = "none"
    BY <1>0, <2>1
  <2> QED BY <2>1, <2>2 DEF SetupInv, Calls
<1>15. CASE UNCHANGED rolesVars
  BY <1>1, <1>15 DEF rolesVars
<1> QED BY <1>5, <1>6, <1>7, <1>8, <1>9, <1>10, <1>11, <1>12, <1>13, <1>14, <1>15 DEF Rights!RolesNext

LEMMA RightsStart == ASSUME MCInit PROVE SyncInv /\ SetupInv
<1> SUFFICES ASSUME Rights!RolesInit PROVE SyncInv /\ SetupInv
  BY DEF MCInit
<1>1. roleSync \in [Rights!Syncers -> [role : 0..3, state : {"none", "look", "create", "created"}, id : Nat]]
      /\ \A s \in Rights!Syncers : roleSync[s] = Rights!NotSyncing
  BY DEF Rights!RolesInit, Rights!NotSyncing
<1>2. roleDocs \in Seq(RoleNames) /\ loadedRoles \in Seq(DOMAIN roleDocs) /\ "boot" \in Rights!Syncers
  BY DEF Rights!RolesInit, Rights!Syncers
<1>3. SyncInv
  BY <1>1, <1>2 DEF SyncInv, Rights!RolesInit, Rights!NotSyncing
<1>4. roleCall \in [RoleCallers -> [at : {"none", "role", "findUser", "register", "setLogin", "complete"}, role : Nat]]
      /\ \A r \in RoleCallers : roleCall[r].at = "none"
  BY DEF Rights!RolesInit, Rights!NotCalled
<1> QED BY <1>3, <1>4 DEF SetupInv, Rights!RolesInit

\* However boot, requests that read the roles and setups interleave, fail and restart: roles grant
\* what they may, everybody gets what its role grants, and a completed setup left an owner.
THEOREM RolesInForce == MCSpec => []RolesAreInForce
<1>1. MCInit => SyncInv /\ SetupInv
  BY RightsStart
<1>2. SyncInv /\ SetupInv /\ [MCNext]_vars => SyncInv' /\ SetupInv'
  BY Framed, SyncKeep, SetupKeep
<1>3. SyncInv /\ SetupInv => RolesAreInForce
  <2> SUFFICES ASSUME SyncInv, SetupInv PROVE Rights!RolesGrantAsHeld /\ Rights!SetupLeavesOwner
    BY DEF RolesAreInForce, Rights!RolesAreInForce
  <2>1. Rights!SetupLeavesOwner
    BY DEF Rights!SetupLeavesOwner, SetupInv
  \* The names in memory, and by them the ids.
  <2>2. \A n \in Rights!NamesLoaded : n \in RoleNames
    <3>1. \A i \in DOMAIN loadedRoles : roleDocs[loadedRoles[i]] \in RoleNames
      BY DEF SyncInv
    <3> QED BY <3>1 DEF Rights!NamesLoaded, Rights!Loaded
  <2>3. startup = "ended" => RoleNames \subseteq Rights!NamesLoaded
    <3> SUFFICES ASSUME startup = "ended", NEW n \in RoleNames PROVE n \in Rights!NamesLoaded
      OBVIOUS
    <3>1. HasLoaded(n)
      BY ThreeRoles DEF SyncInv, RoleNames
    <3> QED BY <3>1 DEF HasLoaded, Rights!NamesLoaded, Rights!Loaded
  <2>4. {Rights!RoleOrder[i] : i \in 1..3} = RoleNames
    <3>1. \A i \in 1..3 : i = 1 \/ i = 2 \/ i = 3
      OBVIOUS
    <3> QED BY <3>1, ThreeRoles DEF RoleNames
  <2>5. ASSUME startup = "ended", ~Rights!StoredTwice, NEW i \in DOMAIN roleDocs
        PROVE  i \in Rights!Loaded
    <3>1. roleDocs[i] \in RoleNames
      BY DEF SyncInv
    <3>2. PICK j \in DOMAIN loadedRoles : roleDocs[loadedRoles[j]] = roleDocs[i]
      BY <2>3, <2>5, <3>1 DEF Rights!NamesLoaded, Rights!Loaded
    <3>3. loadedRoles[j] \in DOMAIN roleDocs
      BY DEF SyncInv
    <3> QED BY <2>5, <3>2, <3>3 DEF Rights!StoredTwice, Rights!Loaded
  <2>6. ASSUME NEW user \in DOMAIN accountDocs \cup {"nobody"}, NEW need \in Rights!Needs
        PROVE  LET names == {roleDocs[i] : i \in Rights!HeldIds(user)} \cup Rights!HeldNames(user)
                   mayPass == Rights!Granted(names, need) /\ (user = "nobody" => ~loginNeeded)
               IN  /\ Rights!LetThrough(user, need) => mayPass
                   /\ mayPass /\ startup = "ended" /\ ~Rights!Syncing /\ ~Rights!StoredTwice => Rights!LetThrough(user, need)
    <3> DEFINE names == {roleDocs[i] : i \in Rights!HeldIds(user)} \cup Rights!HeldNames(user)
               assigned == Rights!Normalized(Rights!HeldIds(user), Rights!HeldNames(user))
    <3>1. "nobody" \notin DOMAIN accountDocs
      BY RolesAreNamed DEF SetupInv
    <3>2. assigned \subseteq names /\ assigned \subseteq RoleNames
      <4>1. assigned \subseteq names
        BY DEF Rights!Normalized
      <4>2. assigned \subseteq Rights!NamesLoaded
        BY DEF Rights!Normalized, Rights!NamesLoaded
      <4> QED BY <2>2, <4>1, <4>2
    <3>3. startup = "ended" /\ ~Rights!StoredTwice => assigned = names
      <4> SUFFICES ASSUME startup = "ended", ~Rights!StoredTwice, NEW n \in names PROVE n \in assigned
        BY <3>2
      <4>1. CASE user \in DOMAIN accountDocs
        <5>1. names = {roleDocs[accountDocs[user]]} /\ Rights!HeldIds(user) = {accountDocs[user]}
          BY <4>1 DEF Rights!HeldIds, Rights!HeldNames
        <5>2. accountDocs[user] \in Rights!Loaded
          BY <2>5, <4>1 DEF SetupInv
        <5> QED BY <5>1, <5>2 DEF Rights!Normalized
      <4>2. CASE user \notin DOMAIN accountDocs
        <5>1. names = {Rights!DefaultRole} /\ Rights!HeldNames(user) = {Rights!DefaultRole}
          BY <4>2 DEF Rights!HeldIds, Rights!HeldNames
        <5>2. Rights!DefaultRole \in Rights!NamesLoaded
          BY <2>3 DEF Rights!DefaultRole, RoleNames
        <5> QED BY <5>1, <5>2 DEF Rights!Normalized
      <4> QED BY <4>1, <4>2
    <3>4. Rights!Authenticated(user) <=> (user = "nobody" => ~loginNeeded)
      BY <3>1 DEF Rights!Authenticated
    <3>5. need.permissions \subseteq Rights!PermissionNames
      BY DEF Rights!Needs, Rights!PermissionNames
    <3>6. \A held : Rights!PermissionsAllow(held, need) => \A p \in need.permissions : \E n \in held : p \in Rights!RolePermissions[n]
      BY DEF Rights!PermissionsAllow
    <3>7. Rights!LetThrough(user, need) <=> Rights!Authenticated(user) /\ Rights!RolesAllow(assigned, need) /\ Rights!PermissionsAllow(assigned, need)
      BY DEF Rights!LetThrough
    <3> HIDE DEF names, assigned
    <3>8. Rights!LetThrough(user, need) => Rights!Granted(names, need) /\ (user = "nobody" => ~loginNeeded)
      BY <3>2, <3>4, <3>6, <3>7 DEF Rights!Granted, Rights!RolesAllow
    <3>9. ASSUME Rights!Granted(names, need), user = "nobody" => ~loginNeeded, startup = "ended", ~Rights!StoredTwice
          PROVE  Rights!LetThrough(user, need)
      <4>1. loadedPermissions = Rights!PermissionNames /\ assigned = names
        BY <3>3, <3>9 DEF SyncInv
      <4>2. Rights!PermissionsAllow(assigned, need)
        BY <3>5, <3>9, <4>1 DEF Rights!PermissionsAllow, Rights!Granted
      <4> QED BY <3>4, <3>7, <3>9, <4>1, <4>2 DEF Rights!Granted, Rights!RolesAllow
    <3> QED BY <3>8, <3>9 DEF names
  <2>7. startup = "ended" => Rights!NamesLoaded = {Rights!RoleOrder[i] : i \in 1..3}
    BY <2>2, <2>3, <2>4
  <2> QED BY <2>1, <2>6, <2>7 DEF Rights!RolesGrantAsHeld
<1> QED BY <1>1, <1>2, <1>3, PTL DEF MCSpec

-----------------------------------------------------------------------------
(* The accounts themselves. *)

AccountRows == [name : AccountNames \cup DemoNames \cup {"owner"}, password : Profiles!Passwords,
                verified : BOOLEAN, root : BOOLEAN, demo : BOOLEAN, role : {"ADMIN", "GUEST"}]

\* What a request is about to write.
Writes ==
  {Profiles!Idle} \cup [at : {"register"}, name : AccountNames]
    \cup [at : {"write"}, id : DOMAIN accounts, field : {"name"}, value : AccountNames]
    \cup [at : {"write"}, id : DOMAIN accounts, field : {"password"}, value : Profiles!Passwords]
    \cup [at : {"write"}, id : DOMAIN accounts, field : {"verified"}, value : {TRUE}]

\* Nobody else has the configured name.
Alone(d) == \A u \in DOMAIN accounts : (accounts[u].name = demoBoot.name) <=> (u = d)

\* The boot got to one of these steps in demo mode, or is done and nothing changed since.
BootPast(steps) == demoBoot.demo /\ (demoBoot.at \in steps \/ (demoBoot.at = "up" /\ ~touched))

\* The rows are numbered in their order, and one at most is the demo account.
RowsInv ==
  /\ \E k \in 1..MaxAccounts : DOMAIN accounts = 1..k
  /\ accounts = [u \in DOMAIN accounts |-> accounts[u]] /\ \A u \in DOMAIN accounts : accounts[u] \in AccountRows
  /\ \A d, e \in DOMAIN accounts : accounts[d].demo /\ accounts[e].demo => d = e
  /\ unvouched \subseteq DOMAIN accounts /\ \A u \in unvouched : ~accounts[u].verified /\ ~accounts[u].demo
  /\ access \in [loginRequired : BOOLEAN, registration : BOOLEAN]

\* Nothing is requested before the boot is done.
WritesInv ==
  /\ accountReq \in [AccountRequests -> Writes]
  /\ demoBoot.at # "up" => \A r \in AccountRequests : accountReq[r] = Profiles!Idle

\* Each step of a boot leaves what the steps before it made of the demo account.
DemoBootInv ==
  /\ demoBoot \in [at : Profiles!BootSteps, demo : BOOLEAN, name : DemoNames]
  /\ demoBoot.at \in {"demo", "verified", "root", "password", "role"} => demoBoot.demo
  /\ BootPast({"verified", "root", "password", "role", "settings"}) => \E d \in DOMAIN accounts : accounts[d].demo
  /\ \A d \in DOMAIN accounts : accounts[d].demo =>
       /\ BootPast({"root", "password", "role", "settings"}) => accounts[d].verified
       /\ BootPast({"password", "role", "settings"}) => ~accounts[d].root
       /\ BootPast({"role", "settings"}) /\ Alone(d) => accounts[d].password = Profiles!DemoPassword
       /\ BootPast({"settings"}) => accounts[d].role = "ADMIN"
  /\ BootPast({}) => access = [loginRequired |-> TRUE, registration |-> FALSE]

ProfilesInv == RowsInv /\ WritesInv /\ DemoBootInv

LEMMA LastIs ==
  ASSUME NEW k \in 1..MaxAccounts, DOMAIN accounts = 1..k
  PROVE  Profiles!LastAccount = k
<1>1. k \in 0..MaxAccounts /\ (k = 0 \/ k \in DOMAIN accounts) /\ \A u \in DOMAIN accounts : u <= k
  BY AccountBounds
<1>2. \A n \in 0..MaxAccounts : (n = 0 \/ n \in DOMAIN accounts) /\ (\A u \in DOMAIN accounts : u <= n) => n = k
  BY AccountBounds
<1> QED BY <1>1, <1>2 DEF Profiles!LastAccount

\* What a write of one column may write.
Columns == {<<"name", v>> : v \in AccountNames} \cup {<<"password", v>> : v \in Profiles!Passwords}
             \cup {<<"verified", TRUE>>, <<"root", FALSE>>, <<"role", "ADMIN">>}

\* One column of one row.
ColumnIs(id, field, value) ==
  /\ DOMAIN accounts' = DOMAIN accounts /\ accounts' = [u \in DOMAIN accounts' |-> accounts'[u]]
  /\ \A u \in DOMAIN accounts \ {id} : accounts'[u] = accounts[u]
  /\ accounts'[id] \in AccountRows
  /\ accounts'[id].name = IF field = "name" THEN value ELSE accounts[id].name
  /\ accounts'[id].password = IF field = "password" THEN value ELSE accounts[id].password
  /\ accounts'[id].verified = IF field = "verified" THEN value ELSE accounts[id].verified
  /\ accounts'[id].root = IF field = "root" THEN value ELSE accounts[id].root
  /\ accounts'[id].role = IF field = "role" THEN value ELSE accounts[id].role
  /\ accounts'[id].demo = accounts[id].demo

LEMMA ColumnSet ==
  ASSUME NEW id \in DOMAIN accounts, NEW field, NEW value, <<field, value>> \in Columns,
         accounts[id] \in AccountRows, accounts = [u \in DOMAIN accounts |-> accounts[u]],
         accounts' = [accounts EXCEPT ![id][field] = value]
  PROVE  ColumnIs(id, field, value)
<1> DEFINE was == accounts[id]
           becomes == [was EXCEPT ![field] = value]
<1>1. \/ field = "name" /\ value \in AccountNames
      \/ field = "password" /\ value \in Profiles!Passwords
      \/ (field = "verified" /\ value = TRUE) \/ (field = "root" /\ value = FALSE) \/ (field = "role" /\ value = "ADMIN")
  BY DEF Columns
<1>2. accounts' = [accounts EXCEPT ![id] = becomes]
  OBVIOUS
<1>3. was \in AccountRows
  OBVIOUS
<1> HIDE DEF was
<1>4. becomes \in AccountRows
  BY <1>1, <1>3 DEF AccountRows
<1>5. /\ becomes.name = IF field = "name" THEN value ELSE was.name
      /\ becomes.password = IF field = "password" THEN value ELSE was.password
      /\ becomes.verified = IF field = "verified" THEN value ELSE was.verified
      /\ becomes.root = IF field = "root" THEN value ELSE was.root
      /\ becomes.role = IF field = "role" THEN value ELSE was.role
      /\ becomes.demo = was.demo
  BY <1>1, <1>3 DEF AccountRows
<1>6. was = accounts[id]
  BY DEF was
<1> HIDE DEF becomes
<1> QED BY <1>2, <1>4, <1>5, <1>6 DEF ColumnIs

\* A row is added.
LEMMA RowAdded ==
  ASSUME RowsInv, NEW fresh \in AccountRows, Profiles!Register(fresh)
  PROVE  LET n == Profiles!LastAccount + 1
         IN  /\ n \notin DOMAIN accounts /\ DOMAIN accounts' = DOMAIN accounts \cup {n} /\ accounts'[n] = fresh
             /\ \A u \in DOMAIN accounts : accounts'[u] = accounts[u]
             /\ accounts' = [u \in DOMAIN accounts' |-> accounts'[u]]
             /\ \E k \in 1..MaxAccounts : DOMAIN accounts' = 1..k
<1>1. PICK k \in 1..MaxAccounts : DOMAIN accounts = 1..k
  BY DEF RowsInv
<1>2. Profiles!LastAccount = k /\ k < MaxAccounts
  BY <1>1, LastIs DEF Profiles!Register
<1>3. /\ k + 1 \notin DOMAIN accounts /\ DOMAIN accounts \cup {k + 1} = 1..(k + 1) /\ k + 1 \in 1..MaxAccounts
  BY <1>1, <1>2, AccountBounds
<1>4. accounts' = [u \in 1..(k + 1) |-> IF u \in DOMAIN accounts THEN accounts[u] ELSE fresh]
  BY <1>2, <1>3 DEF Profiles!Register
<1> QED BY <1>1, <1>2, <1>3, <1>4

LEMMA WritesAre ==
  ASSUME NEW req \in Writes
  PROVE  /\ req.at = "register" => req.name \in AccountNames
         /\ req.at = "write" => req.id \in DOMAIN accounts /\ <<req.field, req.value>> \in Columns
<1>1. CASE req = Profiles!Idle
  BY <1>1 DEF Profiles!Idle
<1>2. CASE req \in [at : {"register"}, name : AccountNames]
  BY <1>2
<1>3. CASE req \in [at : {"write"}, id : DOMAIN accounts, field : {"name"}, value : AccountNames]
  BY <1>3 DEF Columns
<1>4. CASE req \in [at : {"write"}, id : DOMAIN accounts, field : {"password"}, value : Profiles!Passwords]
  BY <1>4 DEF Columns
<1>5. CASE req \in [at : {"write"}, id : DOMAIN accounts, field : {"verified"}, value : {TRUE}]
  BY <1>5 DEF Columns
<1> QED BY <1>1, <1>2, <1>3, <1>4, <1>5 DEF Writes

LEMMA ProfilesKeep ==
  ASSUME ProfilesInv, [Profiles!AccountsNext]_accountVars
  PROVE  ProfilesInv'
<1> USE DEF Profiles!BootSteps
<1>0. PICK k \in 1..MaxAccounts : DOMAIN accounts = 1..k
  BY DEF ProfilesInv, RowsInv
\* A request is on its way.
<1>1. ASSUME NEW r \in AccountRequests, NEW req \in Writes, Profiles!Enters(r, req) PROVE ProfilesInv'
  <2>1. UNCHANGED <<accounts, access, demoBoot, boots, unvouched, touched>> /\ demoBoot.at = "up"
        /\ accountReq' = [accountReq EXCEPT ![r] = req]
    BY <1>1 DEF Profiles!Enters, Profiles!Takes
  <2>2. RowsInv'
    BY <2>1 DEF ProfilesInv, RowsInv
  <2>3. WritesInv'
    <3>1. Writes' = Writes
      BY <2>1 DEF Writes
    <3> QED BY <2>1, <3>1 DEF ProfilesInv, WritesInv
  <2>4. DemoBootInv'
    BY <2>1 DEF ProfilesInv, DemoBootInv, BootPast, Alone
  <2> QED BY <2>2, <2>3, <2>4 DEF ProfilesInv
<1>2. ASSUME NEW r \in AccountRequests, Profiles!WriteRegistered(r) PROVE ProfilesInv'
  <2> DEFINE fresh == [name |-> accountReq[r].name, password |-> "p", verified |-> FALSE, root |-> FALSE,
                     demo |-> FALSE, role |-> "GUEST"]
             n == Profiles!LastAccount + 1
  <2>1. /\ accountReq[r].at = "register" /\ accountReq' = [accountReq EXCEPT ![r] = Profiles!Idle]
        /\ Profiles!Register(fresh) /\ unvouched' = unvouched \cup {n} /\ touched' /\ UNCHANGED <<access, demoBoot>>
    BY <1>2 DEF Profiles!WriteRegistered, Profiles!Answered
  <2>2. fresh \in AccountRows /\ ~fresh.verified /\ ~fresh.demo
    <3>1. accountReq[r] \in Writes
      BY DEF ProfilesInv, WritesInv
    <3>2. accountReq[r].name \in AccountNames
      BY <2>1, <3>1, WritesAre
    <3> QED BY <3>2 DEF AccountRows, Profiles!Passwords
  <2> HIDE DEF fresh
  <2>3. /\ n \notin DOMAIN accounts /\ DOMAIN accounts' = DOMAIN accounts \cup {n} /\ accounts'[n] = fresh
        /\ \A u \in DOMAIN accounts : accounts'[u] = accounts[u]
        /\ accounts' = [u \in DOMAIN accounts' |-> accounts'[u]]
        /\ \E m \in 1..MaxAccounts : DOMAIN accounts' = 1..m
    BY <2>1, <2>2, RowAdded DEF ProfilesInv
  <2> HIDE DEF n
  <2>4. RowsInv'
    <3>1. AccountRows' = AccountRows
      BY DEF AccountRows
    <3> QED BY <2>1, <2>2, <2>3, <3>1 DEF ProfilesInv, RowsInv
  <2>5. WritesInv'
    <3>1. Writes \subseteq Writes' /\ Profiles!Idle \in Writes'
      BY <2>3 DEF Writes
    <3> QED BY <2>1, <3>1 DEF ProfilesInv, WritesInv
  <2>6. demoBoot.at = "up"
    BY <2>1 DEF ProfilesInv, WritesInv, Profiles!Idle
  <2>7. DemoBootInv'
    BY <2>1, <2>6 DEF ProfilesInv, DemoBootInv, BootPast
  <2> QED BY <2>4, <2>5, <2>7 DEF ProfilesInv
<1>3. ASSUME NEW r \in AccountRequests, Profiles!WriteAccount(r) PROVE ProfilesInv'
  <2> DEFINE req == accountReq[r]
  <2>1. /\ req.at = "write" /\ accountReq' = [accountReq EXCEPT ![r] = Profiles!Idle]
        /\ accounts' = [accounts EXCEPT ![req.id][req.field] = req.value]
        /\ unvouched' = IF req.field = "verified" THEN unvouched \ {req.id} ELSE unvouched
        /\ touched' /\ UNCHANGED <<access, demoBoot>>
    BY <1>3 DEF Profiles!WriteAccount, Profiles!Answered
  <2>2. req \in Writes
    BY DEF ProfilesInv, WritesInv
  <2> HIDE DEF req
  <2>3. req.id \in DOMAIN accounts /\ <<req.field, req.value>> \in Columns
    BY <2>1, <2>2, WritesAre
  <2>4. PICK id, field, value : id \in DOMAIN accounts /\ id = req.id /\ field = req.field /\ value = req.value
    BY <2>3
  <2>5. /\ DOMAIN accounts' = DOMAIN accounts /\ accounts' = [u \in DOMAIN accounts' |-> accounts'[u]]
        /\ \A u \in DOMAIN accounts \ {id} : accounts'[u] = accounts[u]
        /\ accounts'[id] \in AccountRows /\ accounts'[id].demo = accounts[id].demo
        /\ field # "verified" => accounts'[id].verified = accounts[id].verified
    <3>1. accounts' = [accounts EXCEPT ![id][field] = value] /\ <<field, value>> \in Columns
      BY <2>1, <2>3, <2>4
    <3>2. accounts[id] \in AccountRows /\ accounts = [u \in DOMAIN accounts |-> accounts[u]]
      BY <2>4 DEF ProfilesInv, RowsInv
    <3>3. ColumnIs(id, field, value)
      BY <2>4, <3>1, <3>2, ColumnSet
    <3> QED BY <3>3 DEF ColumnIs
  <2>6. RowsInv'
    <3>1. AccountRows' = AccountRows
      BY DEF AccountRows
    <3> QED BY <2>1, <2>4, <2>5, <3>1 DEF ProfilesInv, RowsInv
  <2>7. WritesInv'
    <3>1. Writes' = Writes /\ Profiles!Idle \in Writes'
      BY <2>5 DEF Writes
    <3> QED BY <2>1, <3>1 DEF ProfilesInv, WritesInv
  <2>8. demoBoot.at = "up"
    BY <2>1 DEF ProfilesInv, WritesInv, Profiles!Idle, req
  <2>9. DemoBootInv'
    BY <2>1, <2>8 DEF ProfilesInv, DemoBootInv, BootPast
  <2> QED BY <2>6, <2>7, <2>9 DEF ProfilesInv
<1>4. ASSUME NEW by, NEW setting \in DOMAIN access, NEW value \in BOOLEAN, Profiles!ChangeAccess(by, setting, value)
      PROVE  ProfilesInv'
  <2>1. /\ access' = [access EXCEPT ![setting] = value] /\ touched' /\ demoBoot.at = "up"
        /\ UNCHANGED <<accounts, accountReq, demoBoot, unvouched>>
    BY <1>4 DEF Profiles!ChangeAccess
  <2>2. access' \in [loginRequired : BOOLEAN, registration : BOOLEAN]
    BY <2>1 DEF ProfilesInv, RowsInv
  <2>3. RowsInv'
    BY <2>1, <2>2 DEF ProfilesInv, RowsInv, AccountRows
  <2>4. Writes' = Writes
    BY <2>1 DEF Writes
  <2>5. WritesInv'
    BY <2>1, <2>4 DEF ProfilesInv, WritesInv
  <2>6. DemoBootInv'
    BY <2>1 DEF ProfilesInv, DemoBootInv, BootPast
  <2> QED BY <2>3, <2>5, <2>6 DEF ProfilesInv
\* Boots: the requests are gone.
<1>5. ASSUME accountReq' = [r \in AccountRequests |-> Profiles!Idle] \/ (UNCHANGED accountReq /\ demoBoot.at # "up"),
             DOMAIN accounts \subseteq DOMAIN accounts'
      PROVE  WritesInv'
  <2>1. Writes \subseteq Writes' /\ Profiles!Idle \in Writes'
    BY <1>5 DEF Writes
  <2> QED BY <1>5, <2>1 DEF ProfilesInv, WritesInv
<1>6. CASE Profiles!Restart
  <2>1. PICK demo \in BOOLEAN, name \in DemoNames :
          demoBoot' = [at |-> IF demo THEN "demo" ELSE "settings", demo |-> demo, name |-> name]
    BY <1>6 DEF Profiles!Restart
  <2>2. touched' = FALSE /\ accountReq' = [r \in AccountRequests |-> Profiles!Idle] /\ UNCHANGED <<accounts, access, unvouched>>
    BY <1>6 DEF Profiles!Restart
  <2>3. RowsInv'
    BY <2>2 DEF ProfilesInv, RowsInv, AccountRows
  <2>4. DemoBootInv'
    BY <2>1, <2>2 DEF DemoBootInv, BootPast
  <2> QED BY <1>5, <2>2, <2>3, <2>4 DEF ProfilesInv
<1>7. CASE Profiles!CreateDemo
  <2> DEFINE n == Profiles!LastAccount + 1
  <2>1. /\ \A d \in DOMAIN accounts : ~accounts[d].demo
        /\ demoBoot.at = "demo" /\ demoBoot' = [demoBoot EXCEPT !.at = "settings"]
        /\ Profiles!Register(Profiles!DemoRow) /\ UNCHANGED <<accountReq, access, unvouched, touched>>
    BY <1>7 DEF Profiles!CreateDemo, Profiles!BootAt, Profiles!DemoUserId
  <2>2. PICK fresh \in AccountRows : fresh = Profiles!DemoRow
    BY DEF Profiles!DemoRow, AccountRows, ProfilesInv, DemoBootInv, Profiles!Passwords
  <2>3. fresh.verified /\ ~fresh.root /\ fresh.password = Profiles!DemoPassword /\ fresh.role = "ADMIN" /\ fresh.demo
    BY <2>2 DEF Profiles!DemoRow
  <2>4. /\ n \notin DOMAIN accounts /\ DOMAIN accounts' = DOMAIN accounts \cup {n} /\ accounts'[n] = fresh
        /\ \A u \in DOMAIN accounts : accounts'[u] = accounts[u]
        /\ accounts' = [u \in DOMAIN accounts' |-> accounts'[u]]
        /\ \E m \in 1..MaxAccounts : DOMAIN accounts' = 1..m
    BY <2>1, <2>2, RowAdded DEF ProfilesInv
  <2> HIDE DEF n
  <2>5. RowsInv'
    <3>1. AccountRows' = AccountRows
      BY DEF AccountRows
    <3> QED BY <2>1, <2>3, <2>4, <3>1 DEF ProfilesInv, RowsInv
  <2>6. WritesInv'
    BY <1>5, <2>1, <2>4
  <2>7. demoBoot' \in [at : Profiles!BootSteps, demo : BOOLEAN, name : DemoNames] /\ demoBoot'.at = "settings"
    BY <2>1 DEF ProfilesInv, DemoBootInv
  <2>8. DemoBootInv'
    BY <2>1, <2>3, <2>4, <2>7 DEF DemoBootInv, BootPast
  <2> QED BY <2>5, <2>6, <2>8 DEF ProfilesInv
\* Boots that do not write accounts.
<1>8. ASSUME UNCHANGED <<accounts, accountReq, unvouched>>, demoBoot.at # "up",
             access' \in [loginRequired : BOOLEAN, registration : BOOLEAN]
      PROVE  RowsInv' /\ WritesInv'
  <2>1. RowsInv'
    BY <1>8 DEF ProfilesInv, RowsInv, AccountRows
  <2> QED BY <1>5, <1>8, <2>1
<1>9. CASE Profiles!FindDemo
  <2>1. /\ \E d \in DOMAIN accounts : accounts[d].demo
        /\ demoBoot.at = "demo" /\ demoBoot' = [demoBoot EXCEPT !.at = "verified"]
        /\ UNCHANGED <<accounts, accountReq, access, unvouched, touched>>
    BY <1>9 DEF Profiles!FindDemo, Profiles!BootAt, Profiles!DemoUserId
  <2>2. demoBoot' \in [at : Profiles!BootSteps, demo : BOOLEAN, name : DemoNames] /\ demoBoot'.at = "verified"
        /\ demoBoot'.demo
    BY <2>1 DEF ProfilesInv, DemoBootInv
  <2>3. DemoBootInv'
    BY <2>1, <2>2 DEF DemoBootInv, BootPast
  <2> QED BY <1>8, <2>1, <2>3 DEF ProfilesInv, RowsInv
<1>10. ASSUME NEW step, NEW next, NEW id \in DOMAIN accounts, NEW field, NEW value,
              Profiles!SetDemo(step, next, id, field, value),
              <<step, next, field, value>> \in {<<"verified", "root", "verified", TRUE>>, <<"root", "password", "root", FALSE>>,
                                                <<"password", "role", "password", Profiles!DemoPassword>>,
                                                <<"role", "settings", "role", "ADMIN">>},
              accounts[id].demo \/ (field = "password" /\ id \in Profiles!ByUsername(demoBoot.name))
       PROVE  ProfilesInv'
  <2>1. demoBoot.at = step /\ demoBoot' = [demoBoot EXCEPT !.at = next] /\ accounts' = [accounts EXCEPT ![id][field] = value]
        /\ UNCHANGED <<accountReq, access, unvouched, touched>>
    BY <1>10 DEF Profiles!SetDemo, Profiles!BootAt
  <2>2. <<field, value>> \in Columns /\ field # "name"
    BY <1>10 DEF Columns, Profiles!Passwords
  <2>3. /\ DOMAIN accounts' = DOMAIN accounts /\ accounts' = [u \in DOMAIN accounts' |-> accounts'[u]]
        /\ \A u \in DOMAIN accounts \ {id} : accounts'[u] = accounts[u]
        /\ accounts'[id] \in AccountRows /\ accounts'[id].demo = accounts[id].demo
        /\ accounts'[id].name = accounts[id].name
        /\ accounts'[id].password = IF field = "password" THEN value ELSE accounts[id].password
        /\ accounts'[id].verified = IF field = "verified" THEN value ELSE accounts[id].verified
        /\ accounts'[id].root = IF field = "root" THEN value ELSE accounts[id].root
        /\ accounts'[id].role = IF field = "role" THEN value ELSE accounts[id].role
    <3>1. accounts' = [accounts EXCEPT ![id][field] = value]
      BY <2>1
    <3>2. accounts[id] \in AccountRows /\ accounts = [u \in DOMAIN accounts |-> accounts[u]]
      BY DEF ProfilesInv, RowsInv
    <3>3. ColumnIs(id, field, value)
      BY <2>2, <3>1, <3>2, ColumnSet
    <3> QED BY <2>2, <3>3 DEF ColumnIs
  <2>4. RowsInv'
    <3>1. AccountRows' = AccountRows
      BY DEF AccountRows
    <3>2. field = "verified" => accounts[id].demo
      BY <1>10
    <3> QED BY <2>1, <2>3, <3>1, <3>2 DEF ProfilesInv, RowsInv
  <2>5. step # "up"
    BY <1>10
  <2>6. WritesInv'
    BY <1>5, <2>1, <2>3, <2>5
  <2>7. /\ demoBoot' \in [at : Profiles!BootSteps, demo : BOOLEAN, name : DemoNames] /\ demoBoot'.at = next
        /\ demoBoot'.demo = demoBoot.demo /\ demoBoot'.name = demoBoot.name /\ demoBoot.demo
    BY <1>10, <2>1 DEF ProfilesInv, DemoBootInv
  <2>8. \A d \in DOMAIN accounts : accounts'[d].demo = accounts[d].demo /\ accounts'[d].name = accounts[d].name
    BY <2>3
  <2>9. \A d \in DOMAIN accounts : Alone(d)' <=> Alone(d)
    BY <2>3, <2>7, <2>8 DEF Alone
  <2>10. \A d \in DOMAIN accounts : accounts[d].demo /\ field # "password" => d = id
    BY <1>10 DEF ProfilesInv, RowsInv
  <2>11. \A d \in DOMAIN accounts : accounts[d].demo /\ field = "password" /\ Alone(d) => d = id
    <3> SUFFICES ASSUME NEW d \in DOMAIN accounts, accounts[d].demo, field = "password", Alone(d) PROVE d = id
      OBVIOUS
    <3>1. CASE accounts[id].demo
      BY <3>1 DEF ProfilesInv, RowsInv
    <3>2. CASE id \in Profiles!ByUsername(demoBoot.name)
      <4>1. accounts[id].name = demoBoot.name
        BY <3>2 DEF Profiles!ByUsername
      <4> QED BY <4>1 DEF Alone
    <3> QED BY <1>10, <3>1, <3>2
  <2>12. \A d \in DOMAIN accounts : accounts[d].demo =>
           /\ next \in {"root", "password", "role", "settings"} => accounts'[d].verified
           /\ next \in {"password", "role", "settings"} => ~accounts'[d].root
           /\ next \in {"role", "settings"} /\ Alone(d) => accounts'[d].password = Profiles!DemoPassword
           /\ next = "settings" => accounts'[d].role = "ADMIN"
    <3> SUFFICES ASSUME NEW d \in DOMAIN accounts, accounts[d].demo
                 PROVE  /\ next \in {"root", "password", "role", "settings"} => accounts'[d].verified
                        /\ next \in {"password", "role", "settings"} => ~accounts'[d].root
                        /\ next \in {"role", "settings"} /\ Alone(d) => accounts'[d].password = Profiles!DemoPassword
                        /\ next = "settings" => accounts'[d].role = "ADMIN"
      OBVIOUS
    <3>1. /\ step \in {"root", "password", "role"} => accounts[d].verified
          /\ step \in {"password", "role"} => ~accounts[d].root
          /\ step = "role" /\ Alone(d) => accounts[d].password = Profiles!DemoPassword
      BY <2>1, <2>7 DEF ProfilesInv, DemoBootInv, BootPast
    <3>2. CASE step = "verified"
      BY <1>10, <2>3, <2>10, <3>1, <3>2
    <3>3. CASE step = "root"
      BY <1>10, <2>3, <2>10, <3>1, <3>3
    <3>4. CASE step = "password"
      BY <1>10, <2>3, <2>11, <3>1, <3>4
    <3>5. CASE step = "role"
      BY <1>10, <2>3, <2>10, <3>1, <3>5
    <3> QED BY <1>10, <3>2, <3>3, <3>4, <3>5
  <2>13. \E d \in DOMAIN accounts : accounts[d].demo
    BY <1>10, <2>1, <2>7 DEF ProfilesInv, DemoBootInv, BootPast
  <2>14. next # "up"
    BY <1>10
  <2>15. DemoBootInv'
    BY <2>3, <2>7, <2>8, <2>9, <2>12, <2>13, <2>14 DEF DemoBootInv, BootPast
  <2> QED BY <2>4, <2>6, <2>15 DEF ProfilesInv
<1>11. CASE Profiles!UpdateDemo
  <2>1. PICK id \in Profiles!DemoUserId :
          \/ Profiles!SetDemo("verified", "root", id, "verified", TRUE)
          \/ Profiles!SetDemo("root", "password", id, "root", FALSE)
          \/ \E u \in Profiles!ByUsername(demoBoot.name) : Profiles!SetDemo("password", "role", u, "password", Profiles!DemoPassword)
          \/ Profiles!SetDemo("role", "settings", id, "role", "ADMIN")
    BY <1>11 DEF Profiles!UpdateDemo
  <2>2. id \in DOMAIN accounts /\ accounts[id].demo /\ Profiles!ByUsername(demoBoot.name) \subseteq DOMAIN accounts
    BY DEF Profiles!DemoUserId, Profiles!ByUsername
  <2> QED BY <1>10, <2>1, <2>2
<1>12. CASE Profiles!DemoFails
  <2>1. demoBoot.at = "password" /\ demoBoot' = [demoBoot EXCEPT !.at = "down"]
        /\ UNCHANGED <<accounts, accountReq, access, unvouched, touched>>
    BY <1>12 DEF Profiles!DemoFails
  <2>2. demoBoot' \in [at : Profiles!BootSteps, demo : BOOLEAN, name : DemoNames] /\ demoBoot'.at = "down"
    BY <2>1 DEF ProfilesInv, DemoBootInv
  <2>3. DemoBootInv'
    BY <2>2 DEF DemoBootInv, BootPast
  <2> QED BY <1>8, <2>1, <2>3 DEF ProfilesInv, RowsInv
<1>13. CASE Profiles!BootAccess
  <2>1. /\ demoBoot.at = "settings" /\ demoBoot' = [demoBoot EXCEPT !.at = "up"]
        /\ UNCHANGED <<accounts, accountReq, unvouched, touched>>
        /\ IF demoBoot.demo THEN access' = [loginRequired |-> TRUE, registration |-> FALSE]
           ELSE access' \in [loginRequired : BOOLEAN, registration : BOOLEAN]
    BY <1>13 DEF Profiles!BootAccess, Profiles!BootAt
  <2>2. /\ demoBoot' \in [at : Profiles!BootSteps, demo : BOOLEAN, name : DemoNames] /\ demoBoot'.at = "up"
        /\ demoBoot'.demo = demoBoot.demo /\ demoBoot'.name = demoBoot.name
    BY <2>1 DEF ProfilesInv, DemoBootInv
  <2>3. access' \in [loginRequired : BOOLEAN, registration : BOOLEAN]
    <3>1. [loginRequired |-> TRUE, registration |-> FALSE] \in [loginRequired : BOOLEAN, registration : BOOLEAN]
      OBVIOUS
    <3> QED BY <2>1, <3>1
  <2>4. DemoBootInv'
    BY <2>1, <2>2 DEF ProfilesInv, DemoBootInv, BootPast, Alone
  <2> QED BY <1>8, <2>1, <2>3, <2>4 DEF ProfilesInv
<1>14. CASE UNCHANGED accountVars
  <2>1. Writes' = Writes
    BY <1>14 DEF Writes, accountVars
  <2> QED BY <1>14, <2>1 DEF accountVars, ProfilesInv, RowsInv, AccountRows, WritesInv, DemoBootInv,
                             BootPast, Alone
\* What the requests enter.
<1>15. ASSUME NEW r \in AccountRequests, NEW by, NEW id \in DOMAIN accounts,
              \/ Profiles!Verifies(r, by, id)
              \/ \E name \in AccountNames : Profiles!StartRegister(r, name) \/ Profiles!ChangeUsername(r, by, id, name)
              \/ \E old, new \in Profiles!Passwords : Profiles!ChangePassword(r, by, id, old, new)
       PROVE  ProfilesInv'
  <2>1. CASE Profiles!Verifies(r, by, id)
    BY <1>1, <2>1 DEF Profiles!Verifies, Writes
  <2>2. ASSUME NEW name \in AccountNames, Profiles!StartRegister(r, name) PROVE ProfilesInv'
    BY <1>1, <2>2 DEF Profiles!StartRegister, Writes
  <2>3. ASSUME NEW name \in AccountNames, Profiles!ChangeUsername(r, by, id, name) PROVE ProfilesInv'
    BY <1>1, <2>3 DEF Profiles!ChangeUsername, Writes
  <2>4. ASSUME NEW old, NEW new \in Profiles!Passwords, Profiles!ChangePassword(r, by, id, old, new)
        PROVE  ProfilesInv'
    BY <1>1, <2>4 DEF Profiles!ChangePassword, Writes
  <2> QED BY <1>15, <2>1, <2>2, <2>3, <2>4
<1>16. 1 \in DOMAIN accounts
  BY <1>0, AccountBounds
<1> DEFINE Kept == ProfilesInv'
<1>17. ASSUME NEW r \in AccountRequests,
              \/ Profiles!WriteRegistered(r) \/ Profiles!WriteAccount(r)
              \/ \E name \in AccountNames : Profiles!StartRegister(r, name)
              \/ \E by \in {Profiles!Visitor} \cup DOMAIN accounts, id \in DOMAIN accounts :
                   \/ Profiles!Verifies(r, by, id)
                   \/ \E name \in AccountNames : Profiles!ChangeUsername(r, by, id, name)
                   \/ \E old, new \in Profiles!Passwords \ {Profiles!DemoPassword} : Profiles!ChangePassword(r, by, id, old, new)
       PROVE  Kept
  BY <1>2, <1>3, <1>15, <1>16, <1>17
<1>18. ASSUME \E by \in {Profiles!Visitor} \cup DOMAIN accounts, setting \in DOMAIN access, value \in BOOLEAN :
                Profiles!ChangeAccess(by, setting, value)
       PROVE  Kept
  BY <1>4, <1>18
<1>19. CASE Profiles!Restart \/ Profiles!CreateDemo \/ Profiles!FindDemo \/ Profiles!UpdateDemo \/ Profiles!DemoFails \/ Profiles!BootAccess
  BY <1>6, <1>7, <1>9, <1>11, <1>12, <1>13, <1>19
<1> HIDE DEF Kept
<1>20. Kept
  BY <1>14, <1>17, <1>18, <1>19 DEF Profiles!AccountsNext, Kept
<1> QED BY <1>20 DEF Kept

LEMMA ProfilesStart == ASSUME MCInit PROVE ProfilesInv
<1> SUFFICES ASSUME Profiles!AccountsInit PROVE ProfilesInv
  BY DEF MCInit
<1>1. PICK name \in DemoNames : demoBoot = [at |-> "down", demo |-> FALSE, name |-> name]
  BY AccountBounds DEF Profiles!AccountsInit
<1>2. Profiles!Owner \in AccountRows /\ ~Profiles!Owner.demo
  BY DEF Profiles!Owner, AccountRows, Profiles!Passwords
<1>3. /\ accounts = [u \in {1} |-> Profiles!Owner] /\ access = [loginRequired |-> TRUE, registration |-> TRUE]
      /\ accountReq = [r \in AccountRequests |-> Profiles!Idle] /\ unvouched = {}
  BY DEF Profiles!AccountsInit
<1>4. DOMAIN accounts = 1..1 /\ 1 \in 1..MaxAccounts /\ accounts[1] = Profiles!Owner
  BY <1>3, AccountBounds
<1>5. accounts = [u \in DOMAIN accounts |-> accounts[u]]
  BY <1>3
<1>6. RowsInv
  BY <1>2, <1>3, <1>4, <1>5 DEF RowsInv
<1>7. WritesInv
  BY <1>3 DEF WritesInv, Writes
<1>8. DemoBootInv
  BY <1>1 DEF DemoBootInv, BootPast, Profiles!BootSteps
<1> QED BY <1>6, <1>7, <1>8 DEF ProfilesInv

\* However requests interleave and boots end or are cut off, nobody who registered is let in without
\* an administrator, and a boot in demo mode leaves the demo account as it was configured.
THEOREM AccountsGranted == MCSpec => []AccountsAsGranted
<1>1. MCInit => ProfilesInv
  BY ProfilesStart
<1>2. ProfilesInv /\ [MCNext]_vars => ProfilesInv'
  BY Framed, ProfilesKeep
<1>3. ProfilesInv => AccountsAsGranted
  <2> SUFFICES ASSUME ProfilesInv PROVE Profiles!VisitorsWait /\ Profiles!DemoAsConfigured
    BY DEF AccountsAsGranted, Profiles!AccountsAsGranted
  <2>1. Profiles!VisitorsWait
    BY DEF Profiles!VisitorsWait, ProfilesInv, RowsInv
  <2>2. Profiles!DemoAsConfigured
    <3> SUFFICES ASSUME demoBoot.at = "up", demoBoot.demo, ~touched
                 PROVE  /\ access = [loginRequired |-> TRUE, registration |-> FALSE]
                        /\ \E d \in DOMAIN accounts : accounts[d].demo
                        /\ \A d \in DOMAIN accounts : accounts[d].demo /\ Alone(d) => accounts[d] = Profiles!DemoRow
      BY DEF Profiles!DemoAsConfigured, Alone
    <3>1. ASSUME NEW d \in DOMAIN accounts, accounts[d].demo, Alone(d)
          PROVE  accounts[d] = Profiles!DemoRow
      <4>1. /\ accounts[d].verified /\ ~accounts[d].root /\ accounts[d].password = Profiles!DemoPassword
            /\ accounts[d].role = "ADMIN" /\ accounts[d].name = demoBoot.name
        BY <3>1 DEF ProfilesInv, DemoBootInv, BootPast, Alone
      <4>2. PICK fresh \in AccountRows : fresh = accounts[d]
        BY DEF ProfilesInv, RowsInv
      <4> QED BY <3>1, <4>1, <4>2 DEF AccountRows, Profiles!DemoRow
    <3> QED BY <3>1 DEF ProfilesInv, DemoBootInv, BootPast
  <2> QED BY <2>1, <2>2
<1> QED BY <1>1, <1>2, <1>3, PTL DEF MCSpec

-----------------------------------------------------------------------------
(* Registering, deleting, and changing users. *)

RoleSets == SUBSET (Accounts!Roles \cup {"unknown"})
RowFlags == [isRootUser : BOOLEAN, isVerified : BOOLEAN]

\* What a request may be, and know, at each of its awaits.
Registering == [at : {"insert"}, row : RowFlags, want : RoleSets, wizard : BOOLEAN]
SettingRoles ==
  [at : {"listRoles"}, id : Nat, want : RoleSets, wizard : BOOLEAN]
    \cup [at : {"deleteRoles"}, id : Nat, want : RoleSets, previous : RoleSets, wizard : BOOLEAN]
    \cup [at : {"createRoles", "finish"}, id : Nat, want : RoleSets, todo : RoleSets, wizard : BOOLEAN]
Deleting == [at : {"checkDelete", "lastAdmin", "delete"}, id : Nat]
Flagging ==
  [at : {"checkVerified", "countVerified", "update"}, id : Nat, field : {"isVerified"}, value : BOOLEAN]
    \cup [at : {"checkRoot", "countRoots", "update"}, id : Nat, field : {"isRootUser"}, value : BOOLEAN]
UserAsks == {Accounts!NoRequest} \cup Registering \cup SettingRoles \cup Deleting \cup Flagging

\* Somebody else is an owner; somebody else can sign in and is an administrator.
OwnerBut(id) == \E u \in Accounts!Roots : u # id
AdminBut(id) == loginRequired => \E u \in Accounts!Verified : u # id /\ "ADMIN" \in Accounts!RolesOf(u)

\* What a request relies on.
AskInv(q) ==
  /\ q \in Registering =>
       IF q.wizard THEN q.row = [isRootUser |-> TRUE, isVerified |-> TRUE] /\ q.want = {"ADMIN"} ELSE wizard
  /\ q \in SettingRoles =>
       IF q.wizard THEN q.want = {"ADMIN"} /\ q.id \in Accounts!Roots \cap Accounts!Verified
                   ELSE wizard /\ ("ADMIN" \in q.want \/ AdminBut(q.id))
  /\ q \in SettingRoles /\ q.at = "deleteRoles" => q.previous = Accounts!RolesOf(q.id)
  /\ q \in SettingRoles /\ q.at = "createRoles" => Accounts!RolesOf(q.id) = q.want \ q.todo /\ q.todo \subseteq q.want
  /\ q \in SettingRoles /\ q.at = "finish" => Accounts!RolesOf(q.id) = q.want
  /\ q \in Deleting => wizard /\ AdminBut(q.id)
  /\ q \in Deleting /\ q.at # "checkDelete" => OwnerBut(q.id)
  /\ q \in Flagging => wizard
  /\ q \in Flagging /\ ~q.value /\ q.field = "isVerified" => AdminBut(q.id)
  /\ q \in Flagging /\ ~q.value /\ q.field = "isRootUser" /\ q.at = "update" => OwnerBut(q.id)

UserTables ==
  /\ lastUser \in Nat /\ lastRoleRow \in Nat
  /\ DOMAIN users \subseteq 1..lastUser /\ \A u \in DOMAIN users : users[u] \in RowFlags
  /\ DOMAIN roleRows \subseteq 1..lastRoleRow
  /\ \A i \in DOMAIN roleRows : roleRows[i].role \in Accounts!Roles

Manageable == wizard => Accounts!Roots # {} /\ (loginRequired => \E u \in Accounts!Verified : "ADMIN" \in Accounts!RolesOf(u))

\* Until two requests that take something away overlap, the one that does leaves what the
\* server needs: it was asked by, or checked that there is, somebody else.
UsersInv ==
  ~raced =>
    /\ UserTables /\ Manageable
    /\ DOMAIN userReq = UserRequests
    /\ \A r \in UserRequests : userReq[r] \in UserAsks /\ AskInv(userReq[r])
    /\ \A r, o \in UserRequests : Accounts!Takes(userReq[r]) /\ Accounts!Takes(userReq[o]) => r = o

LEMMA UserAskIs ==
  ASSUME NEW q \in UserAsks
  PROVE  /\ q.at = "idle" <=> q = Accounts!NoRequest
         /\ q.at = "insert" <=> q \in Registering
         /\ q.at \in {"listRoles", "deleteRoles", "createRoles", "finish"} <=> q \in SettingRoles
         /\ q.at \in {"checkDelete", "lastAdmin", "delete"} <=> q \in Deleting
         /\ q.at \in {"checkVerified", "countVerified", "checkRoot", "countRoots", "update"} <=> q \in Flagging
         /\ Accounts!Takes(q) <=> q \in Registering \cup SettingRoles \cup Deleting \/ (q \in Flagging /\ ~q.value)
         /\ q \in SettingRoles \cup Deleting \cup Flagging => q.id \in Nat
<1>1. CASE q = Accounts!NoRequest
  BY <1>1 DEF Accounts!NoRequest, Registering, SettingRoles, Deleting, Flagging, Accounts!Takes
<1>2. CASE q \in Registering
  BY <1>2 DEF Accounts!NoRequest, Registering, SettingRoles, Deleting, Flagging, Accounts!Takes
<1>3. CASE q \in SettingRoles
  BY <1>3 DEF Accounts!NoRequest, Registering, SettingRoles, Deleting, Flagging, Accounts!Takes
<1>4. CASE q \in Deleting
  BY <1>4 DEF Accounts!NoRequest, Registering, SettingRoles, Deleting, Flagging, Accounts!Takes
<1>5. CASE q \in Flagging
  BY <1>5 DEF Accounts!NoRequest, Registering, SettingRoles, Deleting, Flagging, Accounts!Takes
<1> QED BY <1>1, <1>2, <1>3, <1>4, <1>5 DEF UserAsks

\* A request goes on: the one that takes away may change what others do not rely on, another
\* one only adds.
LEMMA UserGoes ==
  ASSUME UsersInv, ~raced, NEW r \in UserRequests, NEW q \in UserAsks, userReq' = [userReq EXCEPT ![r] = q],
         UserTables', Manageable', AskInv(q)', wizard => wizard', UNCHANGED loginRequired,
         Accounts!Takes(q) => \A o \in UserRequests \ {r} : ~Accounts!Takes(userReq[o]),
         \/ \A o \in UserRequests \ {r} : ~Accounts!Takes(userReq[o])
         \/ /\ UNCHANGED roleRows /\ Accounts!Roots \subseteq Accounts!Roots'
            /\ Accounts!Verified \subseteq Accounts!Verified'
  PROVE  UsersInv'
<1>1. /\ DOMAIN userReq = UserRequests /\ \A o \in UserRequests : userReq[o] \in UserAsks /\ AskInv(userReq[o])
      /\ \A p, o \in UserRequests : Accounts!Takes(userReq[p]) /\ Accounts!Takes(userReq[o]) => p = o
  BY DEF UsersInv
<1>2. DOMAIN userReq' = UserRequests /\ \A o \in UserRequests : userReq'[o] = IF o = r THEN q ELSE userReq[o]
  BY <1>1
<1>3. ASSUME NEW p \in UserAsks, AskInv(p), ~Accounts!Takes(p) PROVE AskInv(p)'
  <2>1. p \notin Registering \cup SettingRoles \cup Deleting /\ (p \in Flagging => p.value)
    BY <1>3, UserAskIs
  <2> QED BY <1>3, <2>1 DEF AskInv
<1>4. ASSUME NEW p \in UserAsks, AskInv(p), UNCHANGED roleRows, Accounts!Roots \subseteq Accounts!Roots',
             Accounts!Verified \subseteq Accounts!Verified'
      PROVE  AskInv(p)'
  <2>1. \A id : Accounts!RolesOf(id)' = Accounts!RolesOf(id)
    BY <1>4 DEF Accounts!RolesOf
  <2>2. \A id : (OwnerBut(id) => OwnerBut(id)') /\ (AdminBut(id) => AdminBut(id)')
    BY <1>4, <2>1 DEF OwnerBut, AdminBut
  <2>3. /\ p \in Registering =>
             IF p.wizard THEN p.row = [isRootUser |-> TRUE, isVerified |-> TRUE] /\ p.want = {"ADMIN"} ELSE wizard'
        /\ p \in SettingRoles =>
             IF p.wizard THEN p.want = {"ADMIN"} /\ p.id \in Accounts!Roots' \cap Accounts!Verified'
                         ELSE wizard' /\ ("ADMIN" \in p.want \/ AdminBut(p.id)')
    BY <1>4, <2>2 DEF AskInv
  <2>4. /\ p \in SettingRoles /\ p.at = "deleteRoles" => p.previous = Accounts!RolesOf(p.id)'
        /\ p \in SettingRoles /\ p.at = "createRoles" => Accounts!RolesOf(p.id)' = p.want \ p.todo /\ p.todo \subseteq p.want
        /\ p \in SettingRoles /\ p.at = "finish" => Accounts!RolesOf(p.id)' = p.want
    BY <1>4, <2>1 DEF AskInv
  <2>5. /\ p \in Deleting => wizard' /\ AdminBut(p.id)'
        /\ p \in Deleting /\ p.at # "checkDelete" => OwnerBut(p.id)'
        /\ p \in Flagging => wizard'
        /\ p \in Flagging /\ ~p.value /\ p.field = "isVerified" => AdminBut(p.id)'
        /\ p \in Flagging /\ ~p.value /\ p.field = "isRootUser" /\ p.at = "update" => OwnerBut(p.id)'
    BY <1>4, <2>2 DEF AskInv
  <2> QED BY <2>3, <2>4, <2>5 DEF AskInv
<1>5. ASSUME NEW o \in UserRequests, NEW p, p = userReq'[o] PROVE p \in UserAsks /\ AskInv(p)'
  <2>1. CASE o = r
    BY <1>2, <1>5, <2>1
  <2>2. CASE o # r
    BY <1>1, <1>2, <1>3, <1>4, <1>5, <2>2
  <2> QED BY <2>1, <2>2
<1>6. \A p, o \in UserRequests : Accounts!Takes(userReq'[p]) /\ Accounts!Takes(userReq'[o]) => p = o
  BY <1>1, <1>2
<1>7. \A o \in UserRequests : (userReq[o] \in UserAsks /\ AskInv(userReq[o]))'
  <2> SUFFICES ASSUME NEW o \in UserRequests PROVE (userReq[o] \in UserAsks /\ AskInv(userReq[o]))'
    OBVIOUS
  <2>1. PICK p : p = userReq'[o]
    OBVIOUS
  <2>2. p \in UserAsks /\ AskInv(p)'
    BY <1>5, <2>1
  <2> QED BY <2>1, <2>2 DEF AskInv
<1> QED BY <1>2, <1>6, <1>7 DEF UsersInv

\* A request that only reads goes on, or is over.
LEMMA UserReads ==
  ASSUME UsersInv, ~raced, NEW r \in UserRequests, NEW q \in UserAsks, userReq' = [userReq EXCEPT ![r] = q],
         Accounts!OnlyReads, AskInv(q), Accounts!Takes(q) => Accounts!Takes(userReq[r])
  PROVE  UsersInv'
<1>1. /\ users' = users /\ roleRows' = roleRows /\ lastUser' = lastUser /\ lastRoleRow' = lastRoleRow
      /\ wizard' = wizard /\ loginRequired' = loginRequired
  BY DEF Accounts!OnlyReads
<1>2. UserTables' /\ Manageable'
  BY <1>1 DEF UsersInv, UserTables, Manageable, Accounts!Roots, Accounts!Verified, Accounts!RolesOf
<1>3. AskInv(q)' /\ Accounts!Roots' = Accounts!Roots /\ Accounts!Verified' = Accounts!Verified
  BY <1>1 DEF AskInv, OwnerBut, AdminBut, Accounts!Roots, Accounts!Verified, Accounts!RolesOf
<1>4. Accounts!Takes(q) => \A o \in UserRequests \ {r} : ~Accounts!Takes(userReq[o])
  BY DEF UsersInv
<1> HIDE DEF UsersInv
<1> QED BY <1>1, <1>2, <1>3, <1>4, UserGoes

\* A request starts.
LEMMA UserEnters ==
  ASSUME UsersInv, NEW r \in UserRequests, NEW q \in UserAsks, Accounts!Enter(r, q), UsersInv => AskInv(q)
  PROVE  UsersInv'
<1>1. /\ ~raced /\ userReq' = [userReq EXCEPT ![r] = q]
      /\ raced' = (Accounts!Takes(q) /\ \E o \in UserRequests : Accounts!Takes(userReq[o]))
      /\ UNCHANGED <<users, roleRows, lastUser, lastRoleRow, wizard, loginRequired>>
  BY DEF Accounts!Enter
<1> SUFFICES ASSUME ~raced' PROVE UsersInv'
  BY DEF UsersInv
<1>2. /\ users' = users /\ roleRows' = roleRows /\ lastUser' = lastUser /\ lastRoleRow' = lastRoleRow
      /\ wizard' = wizard /\ loginRequired' = loginRequired
  BY <1>1
<1>3. UserTables' /\ Manageable'
  BY <1>1, <1>2 DEF UsersInv, UserTables, Manageable, Accounts!Roots, Accounts!Verified,
                    Accounts!RolesOf
<1>4. AskInv(q)' /\ Accounts!Roots' = Accounts!Roots /\ Accounts!Verified' = Accounts!Verified
  BY <1>2 DEF AskInv, OwnerBut, AdminBut, Accounts!Roots, Accounts!Verified, Accounts!RolesOf
<1>5. Accounts!Takes(q) => \A o \in UserRequests \ {r} : ~Accounts!Takes(userReq[o])
  BY <1>1
<1> HIDE DEF UsersInv
<1>6. ~raced /\ userReq' = [userReq EXCEPT ![r] = q]
  BY <1>1
<1> QED BY <1>2, <1>3, <1>4, <1>5, <1>6, UserGoes

LEMMA UsersKeep ==
  ASSUME UsersInv, [Accounts!UsersNext]_usersVars
  PROVE  UsersInv'
<1>0. UsersInv => /\ Accounts!NoRequest \in UserAsks /\ AskInv(Accounts!NoRequest) /\ ~Accounts!Takes(Accounts!NoRequest)
  <2>1. Accounts!NoRequest \in UserAsks /\ Accounts!NoRequest.at = "idle" /\ DOMAIN Accounts!NoRequest = {"at"}
    BY DEF UserAsks, Accounts!NoRequest
  <2>2. Accounts!NoRequest \notin Registering \cup SettingRoles \cup Deleting \cup Flagging
    BY <2>1 DEF Registering, SettingRoles, Deleting, Flagging
  <2> QED BY <2>1, <2>2, UserAskIs DEF AskInv
\* What a request is, and who asked for it.
<1>1. ASSUME ~raced, NEW r \in UserRequests
      PROVE  /\ userReq[r] \in UserAsks /\ AskInv(userReq[r]) /\ UserTables /\ Manageable
             /\ Accounts!Takes(userReq[r]) => \A o \in UserRequests \ {r} : ~Accounts!Takes(userReq[o])
  BY <1>1 DEF UsersInv
<1>2. ASSUME ~raced, wizard, NEW by \in Accounts!UserIds \cup {Accounts!Nobody}, Accounts!SignedIn(by), Accounts!IsAdmin(by),
             NEW id, by # id
      PROVE  AdminBut(id)
  <2>1. loginRequired => by \in Accounts!Verified /\ by # Accounts!Nobody
    <3>1. Accounts!Nobody \notin DOMAIN users
      BY <1>2 DEF UsersInv, UserTables, Accounts!Nobody
    <3> QED BY <1>2, <3>1 DEF Accounts!SignedIn, Accounts!Verified
  <2> QED BY <1>2, <2>1 DEF AdminBut, Accounts!IsAdmin
<1>3. ASSUME NEW r \in UserRequests, Accounts!StartWizard(r) PROVE UsersInv'
  <2> DEFINE q == [at |-> "insert", row |-> [isRootUser |-> TRUE, isVerified |-> TRUE], want |-> {"ADMIN"}, wizard |-> TRUE]
  <2>1. q \in Registering /\ q \in UserAsks
    BY DEF Registering, UserAsks, RowFlags, RoleSets, Accounts!Roles
  <2>2. AskInv(q)
    <3>1. q \notin SettingRoles \cup Deleting \cup Flagging
      BY DEF SettingRoles, Deleting, Flagging
    <3> QED BY <3>1 DEF AskInv
  <2>3. Accounts!Enter(r, q)
    BY <1>3 DEF Accounts!StartWizard
  <2> HIDE DEF q
  <2> QED BY <2>1, <2>2, <2>3, UserEnters
<1>4. ASSUME NEW r \in UserRequests, NEW by \in Accounts!UserIds \cup {Accounts!Nobody}, NEW verified \in BOOLEAN,
             NEW want \in RoleSets, Accounts!StartRegister(r, by, verified, want)
      PROVE  UsersInv'
  <2> DEFINE q == [at |-> "insert", row |-> [isRootUser |-> FALSE, isVerified |-> verified], want |-> want, wizard |-> FALSE]
  <2>1. q \in Registering /\ q \in UserAsks /\ ~q.wizard
    BY DEF Registering, UserAsks, RowFlags
  <2>2. Accounts!Enter(r, q) /\ wizard
    BY <1>4 DEF Accounts!StartRegister
  <2>3. AskInv(q)
    <3>1. q \notin SettingRoles \cup Deleting \cup Flagging
      BY DEF SettingRoles, Deleting, Flagging
    <3> QED BY <2>1, <2>2, <3>1 DEF AskInv
  <2> HIDE DEF q
  <2> QED BY <2>1, <2>2, <2>3, UserEnters
<1>5. ASSUME NEW r \in UserRequests, NEW by \in Accounts!UserIds \cup {Accounts!Nobody}, NEW id \in Accounts!UserIds,
             Accounts!StartDelete(r, by, id)
      PROVE  UsersInv'
  <2> DEFINE q == [at |-> "checkDelete", id |-> id]
  <2>1. id \in Nat /\ Accounts!Enter(r, q) /\ wizard /\ ~raced /\ AdminBut(id)
    BY <1>2, <1>5 DEF Accounts!StartDelete, Accounts!MayDelete, Accounts!UserIds, Accounts!Enter
  <2>2. q \in Deleting /\ q \in UserAsks /\ q.at = "checkDelete" /\ q.id = id
    BY <2>1 DEF Deleting, UserAsks
  <2>3. AskInv(q)
    <3>1. q \notin Registering \cup SettingRoles \cup Flagging
      BY DEF Registering, SettingRoles, Flagging
    <3> QED BY <2>1, <2>2, <3>1 DEF AskInv
  <2> HIDE DEF q
  <2> QED BY <2>1, <2>2, <2>3, UserEnters
<1>6. ASSUME NEW r \in UserRequests, NEW by \in Accounts!UserIds \cup {Accounts!Nobody}, NEW id \in Accounts!UserIds,
             NEW value \in BOOLEAN, Accounts!StartSetVerified(r, by, id, value)
      PROVE  UsersInv'
  <2> DEFINE q == [at |-> "checkVerified", id |-> id, field |-> "isVerified", value |-> value]
  <2>1. id \in Nat /\ Accounts!Enter(r, q) /\ wizard /\ ~raced /\ AdminBut(id)
    BY <1>2, <1>6 DEF Accounts!StartSetVerified, Accounts!UserIds, Accounts!Enter
  <2>2. q \in Flagging /\ q \in UserAsks /\ q.at = "checkVerified" /\ q.id = id /\ q.field = "isVerified"
    BY <2>1 DEF Flagging, UserAsks
  <2>3. AskInv(q)
    <3>1. q \notin Registering \cup SettingRoles \cup Deleting
      BY DEF Registering, SettingRoles, Deleting
    <3> QED BY <2>1, <2>2, <3>1 DEF AskInv
  <2> HIDE DEF q
  <2> QED BY <2>1, <2>2, <2>3, UserEnters
<1>7. ASSUME NEW r \in UserRequests, NEW by \in Accounts!UserIds \cup {Accounts!Nobody}, NEW id \in Accounts!UserIds,
             NEW value \in BOOLEAN, Accounts!StartSetRoot(r, by, id, value)
      PROVE  UsersInv'
  <2> DEFINE q == [at |-> "checkRoot", id |-> id, field |-> "isRootUser", value |-> value]
  <2>1. id \in Nat /\ Accounts!Enter(r, q) /\ wizard
    BY <1>7 DEF Accounts!StartSetRoot, Accounts!UserIds
  <2>2. q \in Flagging /\ q \in UserAsks /\ q.at = "checkRoot" /\ q.field = "isRootUser"
    BY <2>1 DEF Flagging, UserAsks
  <2>3. AskInv(q)
    <3>1. q \notin Registering \cup SettingRoles \cup Deleting
      BY DEF Registering, SettingRoles, Deleting
    <3> QED BY <2>1, <2>2, <3>1 DEF AskInv
  <2> HIDE DEF q
  <2> QED BY <2>1, <2>2, <2>3, UserEnters
<1>8. ASSUME NEW r \in UserRequests, NEW by \in Accounts!UserIds \cup {Accounts!Nobody}, NEW id \in Accounts!UserIds,
             NEW want \in RoleSets, Accounts!StartSetRoles(r, by, id, want)
      PROVE  UsersInv'
  <2> DEFINE q == [at |-> "listRoles", id |-> id, want |-> want, wizard |-> FALSE]
  <2>1. id \in Nat /\ Accounts!Enter(r, q) /\ wizard /\ ~raced /\ ("ADMIN" \in want \/ AdminBut(id))
    BY <1>2, <1>8 DEF Accounts!StartSetRoles, Accounts!UserIds, Accounts!Enter
  <2>2. q \in SettingRoles /\ q \in UserAsks /\ q.at = "listRoles" /\ ~q.wizard /\ q.id = id /\ q.want = want
    BY <2>1 DEF SettingRoles, UserAsks
  <2>3. AskInv(q)
    <3>1. q \notin Registering \cup Deleting \cup Flagging
      BY DEF Registering, Deleting, Flagging
    <3> QED BY <2>1, <2>2, <3>1 DEF AskInv
  <2> HIDE DEF q
  <2> QED BY <2>1, <2>2, <2>3, UserEnters
\* The awaits of a request, while no two that take away have overlapped.
<1>8a. raced => raced'
  <2>1. ASSUME NEW r, Accounts!StartWizard(r) PROVE ~raced
    BY <2>1 DEF Accounts!StartWizard, Accounts!Enter
  <2>2. ASSUME NEW r, NEW by, NEW verified, NEW want, Accounts!StartRegister(r, by, verified, want)
        PROVE  ~raced
    BY <2>2 DEF Accounts!StartRegister, Accounts!Enter
  <2>3. ASSUME NEW r, NEW by, NEW id, Accounts!StartDelete(r, by, id) PROVE ~raced
    BY <2>3 DEF Accounts!StartDelete, Accounts!Enter
  <2>4. ASSUME NEW r, NEW by, NEW id, NEW value, Accounts!StartSetVerified(r, by, id, value) \/ Accounts!StartSetRoot(r, by, id, value)
        PROVE  ~raced
    BY <2>4 DEF Accounts!StartSetVerified, Accounts!StartSetRoot, Accounts!Enter
  <2>5. ASSUME NEW r, NEW by, NEW id, NEW want, Accounts!StartSetRoles(r, by, id, want) PROVE ~raced
    BY <2>5 DEF Accounts!StartSetRoles, Accounts!Enter
  <2>6. ASSUME NEW r, NEW role, Accounts!CreateRole(r, role) PROVE raced' = raced
    BY <2>6 DEF Accounts!CreateRole
  <2>7. ASSUME NEW r, \/ Accounts!InsertUser(r) \/ Accounts!ListRoles(r) \/ Accounts!DeleteRoles(r) \/ Accounts!Finish(r)
                      \/ Accounts!CheckDelete(r) \/ Accounts!LastAdmin(r) \/ Accounts!DeleteRow(r)
                      \/ Accounts!CheckVerified(r) \/ Accounts!CountVerified(r) \/ Accounts!CheckRoot(r) \/ Accounts!CountRoots(r)
                      \/ Accounts!UpdateUser(r)
        PROVE  raced' = raced
    <3>1. Accounts!OnlyReads => raced' = raced
      BY DEF Accounts!OnlyReads
    <3> QED BY <2>7, <3>1 DEF Accounts!InsertUser, Accounts!ListRoles, Accounts!DeleteRoles,
                              Accounts!Finish, Accounts!CheckDelete,
          Accounts!LastAdmin, Accounts!DeleteRow, Accounts!CheckVerified, Accounts!CountVerified, Accounts!CheckRoot,
          Accounts!CountRoots, Accounts!UpdateUser
  <2>8. CASE UNCHANGED usersVars
    BY <2>8 DEF usersVars
  <2>9. CASE Accounts!UsersNext
    BY <2>1, <2>2, <2>3, <2>4, <2>5, <2>6, <2>7, <2>9 DEF Accounts!UsersNext
  <2> QED BY <2>8, <2>9
<1> SUFFICES ASSUME ~raced PROVE UsersInv'
  BY <1>8a DEF UsersInv
<1>9. /\ UserTables /\ Manageable
      /\ \A r \in UserRequests : /\ userReq[r] \in UserAsks /\ AskInv(userReq[r])
                                 /\ Accounts!Takes(userReq[r]) => \A o \in UserRequests \ {r} : ~Accounts!Takes(userReq[o])
  BY DEF UsersInv
<1>10. ASSUME NEW r \in UserRequests, Accounts!InsertUser(r) PROVE UsersInv'
  <2>0. PICK req : req = userReq[r]
    OBVIOUS
  <2>1. req \in Registering /\ AskInv(req) /\ \A o \in UserRequests \ {r} : ~Accounts!Takes(userReq[o])
    <3>1. req.at = "insert" /\ req \in UserAsks /\ AskInv(userReq[r])
      BY <1>9, <1>10, <2>0 DEF Accounts!InsertUser, Accounts!At
    <3>2. Accounts!Takes(userReq[r]) /\ req \in Registering
      BY <2>0, <3>1, UserAskIs
    <3> QED BY <1>9, <2>0, <3>1, <3>2
  <2>2. PICK id : id = lastUser + 1
    OBVIOUS
  <2>3. PICK q : q = [at |-> "listRoles", id |-> id, want |-> req.want, wizard |-> req.wizard]
    OBVIOUS
  <2>4. /\ lastUser' = id /\ DOMAIN users' = DOMAIN users \cup {id}
        /\ \A u \in DOMAIN users' : users'[u] = IF u = id THEN req.row ELSE users[u]
        /\ userReq' = [userReq EXCEPT ![r] = q] /\ UNCHANGED <<roleRows, lastRoleRow, wizard, loginRequired, raced>>
    BY <1>10, <2>0, <2>2, <2>3 DEF Accounts!InsertUser, Accounts!Proceed
  <2>5. id \in Nat /\ id \notin DOMAIN users
    BY <1>9, <2>2 DEF UserTables
  <2>6. q \in SettingRoles /\ q \in UserAsks /\ q.at = "listRoles" /\ q.id = id /\ q.want = req.want /\ q.wizard = req.wizard
    BY <2>1, <2>3, <2>5 DEF Registering, SettingRoles, UserAsks
  <2>7. UserTables'
    <3>1. req.row \in RowFlags
      BY <2>1 DEF Registering
    <3> QED BY <1>9, <2>2, <2>4, <3>1 DEF UserTables
  <2>8. Accounts!Roots \subseteq Accounts!Roots' /\ Accounts!Verified \subseteq Accounts!Verified'
    BY <2>4, <2>5 DEF Accounts!Roots, Accounts!Verified
  <2>9. \A u : Accounts!RolesOf(u)' = Accounts!RolesOf(u)
    BY <2>4 DEF Accounts!RolesOf
  <2>10. wizard' = wizard /\ loginRequired' = loginRequired
    BY <2>4
  <2>11. Manageable'
    BY <1>9, <2>8, <2>9, <2>10 DEF Manageable
  <2>12. q \notin Registering \cup Deleting \cup Flagging
    BY <2>6 DEF Registering, Deleting, Flagging
  <2>13. AskInv(q)'
    <3>1. CASE req.wizard
      <4>1. req.row = [isRootUser |-> TRUE, isVerified |-> TRUE] /\ req.want = {"ADMIN"}
        BY <2>1, <3>1 DEF AskInv
      <4>2. id \in DOMAIN users' /\ users'[id] = [isRootUser |-> TRUE, isVerified |-> TRUE]
        BY <2>4, <4>1
      <4>3. id \in Accounts!Roots' /\ id \in Accounts!Verified'
        BY <4>2 DEF Accounts!Roots, Accounts!Verified
      <4> QED BY <2>6, <2>12, <3>1, <4>1, <4>3 DEF AskInv
    <3>2. CASE ~req.wizard
      <4>1. wizard
        BY <2>1, <3>2 DEF AskInv
      <4>2. loginRequired => \E u \in Accounts!Verified : "ADMIN" \in Accounts!RolesOf(u)
        BY <1>9, <4>1 DEF Manageable
      <4>3. \A u \in Accounts!Verified : u # id
        BY <2>5 DEF Accounts!Verified
      <4>4. AdminBut(id)'
        BY <2>8, <2>9, <2>10, <4>2, <4>3 DEF AdminBut
      <4> QED BY <2>6, <2>10, <2>12, <3>2, <4>1, <4>4 DEF AskInv
    <3> QED BY <3>1, <3>2
  <2>14. userReq' = [userReq EXCEPT ![r] = q]
    BY <2>4
  <2> HIDE DEF UsersInv
  <2> QED BY <2>1, <2>6, <2>7, <2>10, <2>11, <2>13, <2>14, UserGoes
<1>11. ASSUME NEW r \in UserRequests, Accounts!ListRoles(r) PROVE UsersInv'
  <2>0. PICK req : req = userReq[r]
    OBVIOUS
  <2>1. req \in SettingRoles /\ req.at = "listRoles" /\ AskInv(req) /\ Accounts!Takes(userReq[r])
    <3>1. req.at = "listRoles" /\ req \in UserAsks /\ AskInv(userReq[r])
      BY <1>9, <1>11, <2>0 DEF Accounts!ListRoles, Accounts!At
    <3> QED BY <2>0, <3>1, UserAskIs
  <2>2. PICK q : q = [at |-> "deleteRoles", id |-> req.id, want |-> req.want, previous |-> Accounts!RolesOf(req.id), wizard |-> req.wizard]
    OBVIOUS
  <2>3. userReq' = [userReq EXCEPT ![r] = q] /\ Accounts!OnlyReads
    BY <1>11, <2>0, <2>2 DEF Accounts!ListRoles, Accounts!Proceed
  <2>4. Accounts!RolesOf(req.id) \in RoleSets
    BY <1>9 DEF UserTables, Accounts!RolesOf, RoleSets
  <2>5. /\ q \in SettingRoles /\ q \in UserAsks /\ q.at = "deleteRoles" /\ q.id = req.id /\ q.want = req.want
        /\ q.wizard = req.wizard /\ q.previous = Accounts!RolesOf(q.id)
    BY <2>1, <2>2, <2>4 DEF SettingRoles, UserAsks
  <2>6. AskInv(q)
    <3>1. q \notin Registering \cup Deleting \cup Flagging
      BY <2>5 DEF Registering, Deleting, Flagging
    <3> QED BY <2>1, <2>5, <3>1 DEF AskInv
  <2> HIDE DEF UsersInv
  <2> QED BY <2>1, <2>3, <2>5, <2>6, UserReads
\* A request that sets roles changes those of its user, and nobody else runs that takes away.
<1>12. ASSUME NEW r \in UserRequests, NEW req, req = userReq[r], NEW q \in UserAsks, req \in SettingRoles,
              userReq' = [userReq EXCEPT ![r] = q],
              UNCHANGED <<users, lastUser, wizard, loginRequired>>, UserTables',
              \A u : u # req.id => Accounts!RolesOf(u)' = Accounts!RolesOf(u),
              "ADMIN" \in req.want /\ "ADMIN" \in Accounts!RolesOf(req.id) => "ADMIN" \in Accounts!RolesOf(req.id)',
              q \in SettingRoles, q.id = req.id, q.want = req.want, q.wizard = req.wizard,
              q.at \in {"createRoles", "finish"},
              Accounts!RolesOf(q.id)' = (IF q.at = "finish" THEN q.want ELSE q.want \ q.todo), q.todo \subseteq q.want
       PROVE  UsersInv'
  <2>1. AskInv(req) /\ \A o \in UserRequests \ {r} : ~Accounts!Takes(userReq[o])
    <3>1. req \in UserAsks /\ AskInv(userReq[r]) /\ Accounts!Takes(req)
      BY <1>9, <1>12, UserAskIs
    <3> QED BY <1>9, <1>12, <3>1
  <2>2. users' = users /\ wizard' = wizard /\ loginRequired' = loginRequired
    BY <1>12
  <2>3. Accounts!Roots' = Accounts!Roots /\ Accounts!Verified' = Accounts!Verified
    BY <2>2 DEF Accounts!Roots, Accounts!Verified
  <2>4. AdminBut(req.id) => AdminBut(req.id)'
    BY <1>12, <2>2, <2>3 DEF AdminBut
  <2>5. req.wizard \/ "ADMIN" \in req.want \/ AdminBut(req.id)
    BY <1>12, <2>1 DEF AskInv
  <2>6. req.wizard => "ADMIN" \in req.want
    BY <1>12, <2>1 DEF AskInv
  <2>7. Manageable'
    <3> SUFFICES ASSUME wizard PROVE Accounts!Roots' # {} /\ (loginRequired' => \E u \in Accounts!Verified' : "ADMIN" \in Accounts!RolesOf(u)')
      BY <2>2 DEF Manageable
    <3>1. Accounts!Roots # {} /\ (loginRequired => \E u \in Accounts!Verified : "ADMIN" \in Accounts!RolesOf(u))
      BY <1>9 DEF Manageable
    <3>2. CASE "ADMIN" \in req.want
      <4>1. \A u : "ADMIN" \in Accounts!RolesOf(u) => "ADMIN" \in Accounts!RolesOf(u)'
        BY <1>12, <3>2
      <4> QED BY <2>2, <2>3, <3>1, <4>1
    <3>3. CASE AdminBut(req.id)
      BY <1>12, <2>2, <2>3, <3>1, <3>3 DEF AdminBut
    <3> QED BY <2>5, <2>6, <3>2, <3>3
  <2>8. AskInv(q)'
    <3>1. q \notin Registering \cup Deleting \cup Flagging
      BY <1>12 DEF Registering, Deleting, Flagging
    <3>2. IF q.wizard THEN q.want = {"ADMIN"} /\ q.id \in Accounts!Roots' \cap Accounts!Verified'
                      ELSE wizard' /\ ("ADMIN" \in q.want \/ AdminBut(q.id)')
      BY <1>12, <2>1, <2>2, <2>3, <2>4 DEF AskInv
    <3> QED BY <1>12, <3>1, <3>2 DEF AskInv
  <2>9. UserTables' /\ userReq' = [userReq EXCEPT ![r] = q]
    BY <1>12
  <2> HIDE DEF UsersInv
  <2> QED BY <2>1, <2>2, <2>7, <2>8, <2>9, UserGoes
<1>13. ASSUME NEW r \in UserRequests, Accounts!DeleteRoles(r) PROVE UsersInv'
  <2>0. PICK req : req = userReq[r]
    OBVIOUS
  <2>1. req \in SettingRoles /\ req.at = "deleteRoles" /\ AskInv(req)
    <3>1. req.at = "deleteRoles" /\ req \in UserAsks /\ AskInv(userReq[r])
      BY <1>9, <1>13, <2>0 DEF Accounts!DeleteRoles, Accounts!At
    <3> QED BY <2>0, <3>1, UserAskIs
  <2>2. PICK q : q = [at |-> IF req.want \subseteq req.previous THEN "finish" ELSE "createRoles",
                      id |-> req.id, want |-> req.want, todo |-> req.want \ req.previous, wizard |-> req.wizard]
    OBVIOUS
  <2>3. /\ roleRows' = Accounts!Restrict(roleRows, {i \in DOMAIN roleRows :
                         ~(roleRows[i].user = req.id /\ roleRows[i].role \in req.previous \ req.want)})
        /\ userReq' = [userReq EXCEPT ![r] = q] /\ UNCHANGED <<users, lastUser, lastRoleRow, wizard, loginRequired, raced>>
    BY <1>13, <2>0, <2>2 DEF Accounts!DeleteRoles, Accounts!Proceed, Accounts!Unwanted
  <2>4. /\ DOMAIN roleRows' \subseteq DOMAIN roleRows /\ \A i \in DOMAIN roleRows' : roleRows'[i] = roleRows[i]
        /\ \A i \in DOMAIN roleRows : i \in DOMAIN roleRows' <=> ~(roleRows[i].user = req.id /\ roleRows[i].role \in req.previous \ req.want)
    BY <2>3 DEF Accounts!Restrict
  <2>5. req.previous = Accounts!RolesOf(req.id)
    BY <2>1 DEF AskInv
  <2>6. Accounts!RolesOf(req.id)' = req.want \cap req.previous /\ \A u : u # req.id => Accounts!RolesOf(u)' = Accounts!RolesOf(u)
    BY <2>4, <2>5 DEF Accounts!RolesOf
  <2>7. UserTables'
    BY <1>9, <2>3, <2>4 DEF UserTables
  <2>8. /\ q \in SettingRoles /\ q \in UserAsks /\ q.id = req.id /\ q.want = req.want /\ q.wizard = req.wizard
        /\ q.todo = req.want \ req.previous /\ q.at = IF req.want \subseteq req.previous THEN "finish" ELSE "createRoles"
    <3>1. req.want \in RoleSets /\ req.id \in Nat /\ req.wizard \in BOOLEAN
      BY <2>1 DEF SettingRoles
    <3>2. req.want \ req.previous \in RoleSets
      BY <3>1 DEF RoleSets
    <3> QED BY <2>2, <3>1, <3>2 DEF SettingRoles, UserAsks
  <2>9. Accounts!RolesOf(q.id)' = IF q.at = "finish" THEN q.want ELSE q.want \ q.todo
    BY <2>6, <2>8
  <2>10. UNCHANGED <<users, lastUser, wizard, loginRequired>> /\ userReq' = [userReq EXCEPT ![r] = q]
    BY <2>3
  <2>11. "ADMIN" \in req.want /\ "ADMIN" \in Accounts!RolesOf(req.id) => "ADMIN" \in Accounts!RolesOf(req.id)'
    BY <2>5, <2>6
  <2>12. q.at \in {"createRoles", "finish"} /\ q.todo \subseteq q.want
    BY <2>8
  <2> HIDE DEF UsersInv
  <2> QED BY <1>12, <2>0, <2>1, <2>6, <2>7, <2>8, <2>9, <2>10, <2>11, <2>12
\* The request is over.
<1>14. ASSUME NEW r \in UserRequests, userReq' = [userReq EXCEPT ![r] = Accounts!NoRequest], Accounts!OnlyReads
       PROVE  UsersInv'
  BY <1>0, <1>14, UserReads
<1>15. ASSUME NEW r \in UserRequests, NEW role, Accounts!CreateRole(r, role) PROVE UsersInv'
  <2>0. PICK req : req = userReq[r]
    OBVIOUS
  <2>1. req \in SettingRoles /\ req.at = "createRoles" /\ AskInv(req)
    <3>1. req.at = "createRoles" /\ req \in UserAsks /\ AskInv(userReq[r])
      BY <1>9, <1>15, <2>0 DEF Accounts!CreateRole, Accounts!At
    <3> QED BY <2>0, <3>1, UserAskIs
  <2>2. CASE role \notin Accounts!Roles \/ req.id \notin DOMAIN users \/ role \in Accounts!RolesOf(req.id)
    BY <1>14, <1>15, <2>0, <2>2 DEF Accounts!CreateRole, Accounts!Proceed, Accounts!OnlyReads
  <2>3. CASE ~(role \notin Accounts!Roles \/ req.id \notin DOMAIN users \/ role \in Accounts!RolesOf(req.id))
    <3>1. PICK q : q = [req EXCEPT !.todo = req.todo \ {role}, !.at = IF req.todo = {role} THEN "finish" ELSE req.at]
      OBVIOUS
    <3>2. PICK n : n = lastRoleRow + 1
      OBVIOUS
    <3>3. /\ role \in req.todo /\ lastRoleRow' = n /\ DOMAIN roleRows' = DOMAIN roleRows \cup {n}
          /\ \A i \in DOMAIN roleRows' : roleRows'[i] = IF i = n THEN [user |-> req.id, role |-> role] ELSE roleRows[i]
          /\ userReq' = [userReq EXCEPT ![r] = q] /\ UNCHANGED <<users, lastUser, wizard, loginRequired, raced>>
      BY <1>15, <2>0, <2>3, <3>1, <3>2 DEF Accounts!CreateRole, Accounts!Proceed
    <3>4. n \notin DOMAIN roleRows /\ n \in Nat
      BY <1>9, <3>2 DEF UserTables
    <3>5. Accounts!RolesOf(req.id)' = Accounts!RolesOf(req.id) \cup {role} /\ \A u : u # req.id => Accounts!RolesOf(u)' = Accounts!RolesOf(u)
      BY <3>3, <3>4 DEF Accounts!RolesOf
    <3>6. UserTables'
      BY <1>9, <2>3, <3>2, <3>3 DEF UserTables
    <3>7. /\ q \in SettingRoles /\ q \in UserAsks /\ q.id = req.id /\ q.want = req.want /\ q.wizard = req.wizard
          /\ q.todo = req.todo \ {role} /\ q.at = IF req.todo = {role} THEN "finish" ELSE "createRoles"
      <4>1. req \in [at : {"createRoles", "finish"}, id : Nat, want : RoleSets, todo : RoleSets, wizard : BOOLEAN]
        BY <2>1 DEF SettingRoles
      <4>2. req.todo \ {role} \in RoleSets
        BY <4>1 DEF RoleSets
      <4> QED BY <2>1, <3>1, <4>1, <4>2 DEF SettingRoles, UserAsks
    <3>8. Accounts!RolesOf(req.id) = req.want \ req.todo
      BY <2>1 DEF AskInv
    <3>9. role \in req.want /\ req.todo \subseteq req.want
      BY <2>1, <3>3 DEF AskInv
    <3>10. Accounts!RolesOf(q.id)' = IF q.at = "finish" THEN q.want ELSE q.want \ q.todo
      BY <3>3, <3>5, <3>7, <3>8, <3>9
    <3> HIDE DEF UsersInv
    <3>11. "ADMIN" \in req.want /\ "ADMIN" \in Accounts!RolesOf(req.id) => "ADMIN" \in Accounts!RolesOf(req.id)'
      BY <3>5
    <3>12. q.todo \subseteq q.want /\ q.at \in {"createRoles", "finish"}
      BY <3>7, <3>9
    <3>13. userReq' = [userReq EXCEPT ![r] = q] /\ UNCHANGED <<users, lastUser, wizard, loginRequired>>
      BY <3>3
    <3>14. \A u : u # req.id => Accounts!RolesOf(u)' = Accounts!RolesOf(u)
      BY <3>5
    <3>15. q \in UserAsks /\ q \in SettingRoles /\ q.id = req.id /\ q.want = req.want /\ q.wizard = req.wizard
      BY <3>7
    <3> QED BY <1>12, <2>0, <2>1, <3>6, <3>10, <3>11, <3>12, <3>13, <3>14, <3>15
  <2> QED BY <2>2, <2>3
<1>16. ASSUME NEW r \in UserRequests, Accounts!Finish(r) PROVE UsersInv'
  <2>0. PICK req : req = userReq[r]
    OBVIOUS
  <2>1. req \in SettingRoles /\ req.at = "finish" /\ AskInv(req) /\ \A o \in UserRequests \ {r} : ~Accounts!Takes(userReq[o])
    <3>1. req.at = "finish" /\ req \in UserAsks /\ AskInv(userReq[r])
      BY <1>9, <1>16, <2>0 DEF Accounts!Finish, Accounts!At
    <3> QED BY <1>9, <2>0, <3>1, UserAskIs
  <2>2. /\ userReq' = [userReq EXCEPT ![r] = Accounts!NoRequest] /\ wizard' = (wizard \/ req.wizard)
        /\ users' = users /\ roleRows' = roleRows /\ lastUser' = lastUser /\ lastRoleRow' = lastRoleRow /\ loginRequired' = loginRequired
    BY <1>16, <2>0 DEF Accounts!Finish, Accounts!Proceed
  <2>3. UserTables'
    BY <1>9, <2>2 DEF UserTables
  <2>4. Accounts!Roots' = Accounts!Roots /\ Accounts!Verified' = Accounts!Verified /\ \A u : Accounts!RolesOf(u)' = Accounts!RolesOf(u)
    BY <2>2 DEF Accounts!Roots, Accounts!Verified, Accounts!RolesOf
  <2>5. req.wizard => req.id \in Accounts!Roots \cap Accounts!Verified /\ Accounts!RolesOf(req.id) = {"ADMIN"}
    BY <2>1 DEF AskInv
  <2>6. Manageable'
    BY <1>9, <2>2, <2>4, <2>5 DEF Manageable
  <2>7. PICK q : q = Accounts!NoRequest
    OBVIOUS
  <2>8. q \in UserAsks /\ ~Accounts!Takes(q) /\ q \notin Registering \cup SettingRoles \cup Deleting \cup Flagging
    <3>1. q \in UserAsks /\ ~Accounts!Takes(q) /\ q.at = "idle"
      BY <1>0, <2>7 DEF Accounts!NoRequest
    <3> QED BY <3>1, UserAskIs
  <2>9. AskInv(q)'
    BY <2>8 DEF AskInv
  <2>10. (wizard => wizard') /\ UNCHANGED loginRequired /\ userReq' = [userReq EXCEPT ![r] = q]
    BY <2>2, <2>7
  <2> HIDE DEF UsersInv
  <2> QED BY <2>1, <2>3, <2>6, <2>8, <2>9, <2>10, UserGoes
\* A request goes to its next await.
<1>17. ASSUME NEW r \in UserRequests, NEW req, req = userReq[r], NEW s \in {"lastAdmin", "delete"}, req \in Deleting, OwnerBut(req.id),
              userReq' = [userReq EXCEPT ![r] = Accounts!Next_(r, s)], Accounts!OnlyReads
       PROVE  UsersInv'
  <2>1. AskInv(req) /\ Accounts!Takes(userReq[r])
    <3>1. req \in UserAsks /\ AskInv(userReq[r])
      BY <1>9, <1>17
    <3> QED BY <1>17, <3>1, UserAskIs
  <2>2. PICK q : q = [req EXCEPT !.at = s]
    OBVIOUS
  <2>3. q \in Deleting /\ q \in UserAsks /\ q.at = s /\ q.id = req.id
    BY <1>17, <2>2 DEF Deleting, UserAsks
  <2>4. AskInv(q)
    <3>1. q \notin Registering \cup SettingRoles \cup Flagging
      BY <2>3 DEF Registering, SettingRoles, Flagging
    <3> QED BY <1>17, <2>1, <2>3, <3>1 DEF AskInv
  <2>5. userReq' = [userReq EXCEPT ![r] = q]
    BY <1>17, <2>2 DEF Accounts!Next_
  <2> HIDE DEF UsersInv
  <2> QED BY <1>17, <2>1, <2>3, <2>4, <2>5, UserReads
<1>18. ASSUME NEW r \in UserRequests, NEW req, req = userReq[r], NEW s \in {"countVerified", "countRoots", "update"}, req \in Flagging,
              req.field = "isVerified" => s \in {"countVerified", "update"}, req.field = "isRootUser" => s \in {"countRoots", "update"},
              req.field = "isRootUser" /\ s = "update" /\ ~req.value => OwnerBut(req.id),
              userReq' = [userReq EXCEPT ![r] = Accounts!Next_(r, s)], Accounts!OnlyReads
       PROVE  UsersInv'
  <2>1. AskInv(req) /\ (~req.value => Accounts!Takes(userReq[r]))
    <3>1. req \in UserAsks /\ AskInv(userReq[r])
      BY <1>9, <1>18
    <3> QED BY <1>18, <3>1, UserAskIs
  <2>2. PICK q : q = [req EXCEPT !.at = s]
    OBVIOUS
  <2>3. q \in Flagging /\ q \in UserAsks /\ q.at = s /\ q.id = req.id /\ q.field = req.field /\ q.value = req.value
    BY <1>18, <2>2 DEF Flagging, UserAsks
  <2>4. q \notin Registering \cup SettingRoles \cup Deleting
    BY <2>3 DEF Registering, SettingRoles, Deleting, Flagging
  <2>5. AskInv(q) /\ (Accounts!Takes(q) => ~q.value)
    BY <1>18, <2>1, <2>3, <2>4, UserAskIs DEF AskInv
  <2>6. userReq' = [userReq EXCEPT ![r] = q]
    BY <1>18, <2>2 DEF Accounts!Next_
  <2> HIDE DEF UsersInv
  <2> QED BY <1>18, <2>1, <2>3, <2>5, <2>6, UserReads
<1>19. ASSUME NEW r \in UserRequests, Accounts!CheckDelete(r) \/ Accounts!LastAdmin(r) PROVE UsersInv'
  <2>0. PICK req : req = userReq[r]
    OBVIOUS
  <2>1. req \in Deleting /\ AskInv(req) /\ (Accounts!LastAdmin(r) => req.at = "lastAdmin")
    <3>1. req.at \in {"checkDelete", "lastAdmin"} /\ req \in UserAsks /\ AskInv(userReq[r]) /\ (Accounts!LastAdmin(r) => req.at = "lastAdmin")
      BY <1>9, <1>19, <2>0 DEF Accounts!CheckDelete, Accounts!LastAdmin, Accounts!At
    <3> QED BY <2>0, <3>1, UserAskIs
  <2>2. CASE userReq' = [userReq EXCEPT ![r] = Accounts!NoRequest]
    BY <1>14, <1>19, <2>2 DEF Accounts!CheckDelete, Accounts!LastAdmin
  <2>3. CASE Accounts!CheckDelete(r) /\ userReq' # [userReq EXCEPT ![r] = Accounts!NoRequest]
    <3>1. req.id \in DOMAIN users \ Accounts!Roots
      BY <2>0, <2>3 DEF Accounts!CheckDelete, Accounts!Proceed
    <3>2. Accounts!Roots # {}
      BY <1>9, <2>1 DEF Manageable, AskInv
    <3>3. OwnerBut(req.id)
      BY <3>1, <3>2 DEF OwnerBut
    <3>4. PICK s \in {"lastAdmin", "delete"} : userReq' = [userReq EXCEPT ![r] = Accounts!Next_(r, s)]
      <4>1. PICK s \in {"lastAdmin", "delete"} : s = IF "ADMIN" \in Accounts!RolesOf(req.id) THEN "lastAdmin" ELSE "delete"
        OBVIOUS
      <4> QED BY <2>0, <2>3, <3>1, <4>1 DEF Accounts!CheckDelete, Accounts!Proceed
    <3>5. Accounts!OnlyReads
      BY <2>3 DEF Accounts!CheckDelete
    <3> QED BY <1>17, <2>0, <2>1, <3>3, <3>4, <3>5
  <2>4. CASE Accounts!LastAdmin(r) /\ userReq' # [userReq EXCEPT ![r] = Accounts!NoRequest]
    <3>1. OwnerBut(req.id)
      BY <2>1, <2>4 DEF AskInv
    <3>2. userReq' = [userReq EXCEPT ![r] = Accounts!Next_(r, "delete")] /\ Accounts!OnlyReads
      BY <2>4 DEF Accounts!LastAdmin, Accounts!Proceed
    <3> QED BY <1>17, <2>0, <2>1, <3>1, <3>2
  <2> QED BY <1>19, <2>2, <2>3, <2>4
<1>20. ASSUME NEW r \in UserRequests, NEW phase \in {"checkVerified", "countVerified", "checkRoot", "countRoots"}, Accounts!At(r, phase),
              \/ phase = "checkVerified" /\ Accounts!CheckVerified(r)
              \/ phase = "countVerified" /\ Accounts!CountVerified(r)
              \/ phase = "checkRoot" /\ Accounts!CheckRoot(r)
              \/ phase = "countRoots" /\ Accounts!CountRoots(r)
       PROVE  UsersInv'
  <2>0. PICK req : req = userReq[r]
    OBVIOUS
  <2>1. req \in Flagging /\ AskInv(req) /\ req.at = phase
    <3>1. req.at = phase /\ req \in UserAsks /\ AskInv(userReq[r])
      BY <1>9, <1>20, <2>0 DEF Accounts!At
    <3> QED BY <2>0, <3>1, UserAskIs
  <2>2. /\ phase \in {"checkVerified", "countVerified"} => req.field = "isVerified"
        /\ phase \in {"checkRoot", "countRoots"} => req.field = "isRootUser"
    BY <2>1 DEF Flagging
  <2>3. Accounts!OnlyReads
    BY <1>20 DEF Accounts!CheckVerified, Accounts!CountVerified, Accounts!CheckRoot, Accounts!CountRoots
  <2>4. CASE userReq' = [userReq EXCEPT ![r] = Accounts!NoRequest]
    BY <1>14, <2>3, <2>4
  <2>5. ASSUME userReq' # [userReq EXCEPT ![r] = Accounts!NoRequest]
        PROVE  \E s \in {"countVerified", "countRoots", "update"} :
                 /\ userReq' = [userReq EXCEPT ![r] = Accounts!Next_(r, s)]
                 /\ req.field = "isVerified" => s \in {"countVerified", "update"}
                 /\ req.field = "isRootUser" => s \in {"countRoots", "update"}
                 /\ req.field = "isRootUser" /\ s = "update" /\ ~req.value => OwnerBut(req.id)
    <3>1. CASE phase = "checkVerified"
      <4>1. PICK s \in {"countVerified", "update"} : s = IF req.value THEN "update" ELSE "countVerified"
        OBVIOUS
      <4>2. userReq' = [userReq EXCEPT ![r] = Accounts!Next_(r, s)]
        BY <1>20, <2>0, <2>5, <3>1, <4>1 DEF Accounts!CheckVerified, Accounts!Proceed
      <4> QED BY <2>2, <3>1, <4>1, <4>2
    <3>2. CASE phase = "countVerified"
      <4>1. userReq' = [userReq EXCEPT ![r] = Accounts!Next_(r, "update")]
        BY <1>20, <2>5, <3>2 DEF Accounts!CountVerified, Accounts!Proceed
      <4> QED BY <2>2, <3>2, <4>1
    <3>3. CASE phase = "checkRoot"
      <4>1. PICK s \in {"countRoots", "update"} : s = IF req.value THEN "update" ELSE "countRoots"
        OBVIOUS
      <4>2. userReq' = [userReq EXCEPT ![r] = Accounts!Next_(r, s)]
        BY <1>20, <2>0, <2>5, <3>3, <4>1 DEF Accounts!CheckRoot, Accounts!Proceed
      <4> QED BY <2>2, <3>3, <4>1, <4>2
    <3>4. CASE phase = "countRoots"
      <4>1. userReq' = [userReq EXCEPT ![r] = Accounts!Next_(r, "update")] /\ Accounts!Roots # {req.id}
        BY <1>20, <2>0, <2>5, <3>4 DEF Accounts!CountRoots, Accounts!Proceed
      <4>2. Accounts!Roots # {}
        BY <1>9, <2>1 DEF Manageable, AskInv
      <4>3. OwnerBut(req.id)
        BY <4>1, <4>2 DEF OwnerBut
      <4> QED BY <2>2, <3>4, <4>1, <4>3
    <3> QED BY <3>1, <3>2, <3>3, <3>4
  <2>6. CASE userReq' # [userReq EXCEPT ![r] = Accounts!NoRequest]
    <3>1. PICK s \in {"countVerified", "countRoots", "update"} :
                 /\ userReq' = [userReq EXCEPT ![r] = Accounts!Next_(r, s)]
                 /\ req.field = "isVerified" => s \in {"countVerified", "update"}
                 /\ req.field = "isRootUser" => s \in {"countRoots", "update"}
                 /\ req.field = "isRootUser" /\ s = "update" /\ ~req.value => OwnerBut(req.id)
      BY <2>5, <2>6
    <3> QED BY <1>18, <2>0, <2>1, <2>3, <3>1
  <2> QED BY <2>4, <2>6
<1>21. ASSUME NEW r \in UserRequests, Accounts!DeleteRow(r) PROVE UsersInv'
  <2>0. PICK req : req = userReq[r]
    OBVIOUS
  <2>1. req \in Deleting /\ req.at = "delete" /\ AskInv(req) /\ \A o \in UserRequests \ {r} : ~Accounts!Takes(userReq[o])
    <3>1. req.at = "delete" /\ req \in UserAsks /\ AskInv(userReq[r])
      BY <1>9, <1>21, <2>0 DEF Accounts!DeleteRow, Accounts!At
    <3> QED BY <1>9, <2>0, <3>1, UserAskIs
  <2>2. /\ users' = Accounts!Restrict(users, DOMAIN users \ {req.id})
        /\ roleRows' = Accounts!Restrict(roleRows, {i \in DOMAIN roleRows : roleRows[i].user # req.id})
        /\ userReq' = [userReq EXCEPT ![r] = Accounts!NoRequest]
        /\ lastUser' = lastUser /\ lastRoleRow' = lastRoleRow /\ wizard' = wizard /\ loginRequired' = loginRequired
    BY <1>21, <2>0 DEF Accounts!DeleteRow, Accounts!Proceed
  <2>3. /\ DOMAIN users' = DOMAIN users \ {req.id} /\ \A u \in DOMAIN users' : users'[u] = users[u]
        /\ DOMAIN roleRows' \subseteq DOMAIN roleRows /\ \A i \in DOMAIN roleRows' : roleRows'[i] = roleRows[i]
        /\ \A i \in DOMAIN roleRows : roleRows[i].user # req.id => i \in DOMAIN roleRows'
    BY <2>2 DEF Accounts!Restrict
  <2>4. UserTables'
    BY <1>9, <2>2, <2>3 DEF UserTables
  <2>5. \A u : u # req.id => Accounts!RolesOf(u)' = Accounts!RolesOf(u)
    BY <2>3 DEF Accounts!RolesOf
  <2>6. \A u : u # req.id => (u \in Accounts!Roots => u \in Accounts!Roots') /\ (u \in Accounts!Verified => u \in Accounts!Verified')
    BY <2>3 DEF Accounts!Roots, Accounts!Verified
  <2>7. OwnerBut(req.id) /\ AdminBut(req.id)
    BY <2>1 DEF AskInv
  <2>8. Manageable'
    BY <2>2, <2>5, <2>6, <2>7 DEF Manageable, OwnerBut, AdminBut
  <2>9. PICK q : q = Accounts!NoRequest
    OBVIOUS
  <2>10. q \in UserAsks /\ ~Accounts!Takes(q) /\ q \notin Registering \cup SettingRoles \cup Deleting \cup Flagging
    <3>1. q \in UserAsks /\ ~Accounts!Takes(q) /\ q.at = "idle"
      BY <1>0, <2>9 DEF Accounts!NoRequest
    <3> QED BY <3>1, UserAskIs
  <2>11. AskInv(q)'
    BY <2>10 DEF AskInv
  <2>12. (wizard => wizard') /\ UNCHANGED loginRequired /\ userReq' = [userReq EXCEPT ![r] = q]
    BY <2>2, <2>9
  <2> HIDE DEF UsersInv
  <2> QED BY <2>1, <2>4, <2>8, <2>10, <2>11, <2>12, UserGoes
<1>22. ASSUME NEW r \in UserRequests, Accounts!UpdateUser(r) PROVE UsersInv'
  <2>0. PICK req : req = userReq[r]
    OBVIOUS
  <2>1. req \in Flagging /\ req.at = "update" /\ AskInv(req) /\ (~req.value => \A o \in UserRequests \ {r} : ~Accounts!Takes(userReq[o]))
    <3>1. req.at = "update" /\ req \in UserAsks /\ AskInv(userReq[r])
      BY <1>9, <1>22, <2>0 DEF Accounts!UpdateUser, Accounts!At
    <3> QED BY <1>9, <2>0, <3>1, UserAskIs
  <2>2. /\ users' = [u \in DOMAIN users |-> IF u = req.id THEN [users[u] EXCEPT ![req.field] = req.value] ELSE users[u]]
        /\ userReq' = [userReq EXCEPT ![r] = Accounts!NoRequest]
        /\ roleRows' = roleRows /\ lastUser' = lastUser /\ lastRoleRow' = lastRoleRow /\ wizard' = wizard /\ loginRequired' = loginRequired
    BY <1>22, <2>0 DEF Accounts!UpdateUser, Accounts!Proceed
  <2>3. req.field \in {"isVerified", "isRootUser"} /\ req.value \in BOOLEAN
    BY <2>1 DEF Flagging
  <2>4. /\ DOMAIN users' = DOMAIN users
        /\ \A u \in DOMAIN users :
             /\ users'[u] \in RowFlags
             /\ users'[u].isRootUser = IF u = req.id /\ req.field = "isRootUser" THEN req.value ELSE users[u].isRootUser
             /\ users'[u].isVerified = IF u = req.id /\ req.field = "isVerified" THEN req.value ELSE users[u].isVerified
    <3>1. DOMAIN users' = DOMAIN users
      BY <2>2
    <3>2. ASSUME NEW u \in DOMAIN users
          PROVE  /\ users'[u] \in RowFlags
                 /\ users'[u].isRootUser = IF u = req.id /\ req.field = "isRootUser" THEN req.value ELSE users[u].isRootUser
                 /\ users'[u].isVerified = IF u = req.id /\ req.field = "isVerified" THEN req.value ELSE users[u].isVerified
      <4>1. users[u] \in RowFlags
        BY <1>9 DEF UserTables
      <4>2. CASE req.field = "isVerified"
        <5>1. users'[u] = IF u = req.id THEN [users[u] EXCEPT !.isVerified = req.value] ELSE users[u]
          BY <2>2, <4>2
        <5> QED BY <2>3, <4>1, <4>2, <5>1 DEF RowFlags
      <4>3. CASE req.field = "isRootUser"
        <5>1. users'[u] = IF u = req.id THEN [users[u] EXCEPT !.isRootUser = req.value] ELSE users[u]
          BY <2>2, <4>3
        <5> QED BY <2>3, <4>1, <4>3, <5>1 DEF RowFlags
      <4> QED BY <2>3, <4>2, <4>3
    <3> QED BY <3>1, <3>2
  <2>5. UserTables'
    BY <1>9, <2>2, <2>4 DEF UserTables
  <2>6. \A u : Accounts!RolesOf(u)' = Accounts!RolesOf(u)
    BY <2>2 DEF Accounts!RolesOf
  <2>7. \A u \in Accounts!Roots : u # req.id \/ req.field = "isVerified" \/ req.value => u \in Accounts!Roots'
    BY <2>4 DEF Accounts!Roots
  <2>8. \A u \in Accounts!Verified : u # req.id \/ req.field = "isRootUser" \/ req.value => u \in Accounts!Verified'
    BY <2>4 DEF Accounts!Verified
  <2>9. Manageable'
    <3>1. CASE req.value
      BY <1>9, <2>2, <2>6, <2>7, <2>8, <3>1 DEF Manageable
    <3>2. CASE ~req.value /\ req.field = "isVerified"
      <4>1. AdminBut(req.id)
        BY <2>1, <3>2 DEF AskInv
      <4> QED BY <1>9, <2>2, <2>6, <2>7, <2>8, <3>2, <4>1 DEF Manageable, AdminBut
    <3>3. CASE ~req.value /\ req.field = "isRootUser"
      <4>1. OwnerBut(req.id)
        BY <2>1, <3>3 DEF AskInv
      <4> QED BY <1>9, <2>2, <2>6, <2>7, <2>8, <3>3, <4>1 DEF Manageable, OwnerBut
    <3> QED BY <2>3, <3>1, <3>2, <3>3
  <2>10. req.value => Accounts!Roots \subseteq Accounts!Roots' /\ Accounts!Verified \subseteq Accounts!Verified'
    BY <2>7, <2>8
  <2>11. PICK q : q = Accounts!NoRequest
    OBVIOUS
  <2>12. q \in UserAsks /\ ~Accounts!Takes(q) /\ q \notin Registering \cup SettingRoles \cup Deleting \cup Flagging
    <3>1. q \in UserAsks /\ ~Accounts!Takes(q) /\ q.at = "idle"
      BY <1>0, <2>11 DEF Accounts!NoRequest
    <3> QED BY <3>1, UserAskIs
  <2>13. AskInv(q)'
    BY <2>12 DEF AskInv
  <2>14. (wizard => wizard') /\ UNCHANGED loginRequired /\ UNCHANGED roleRows /\ userReq' = [userReq EXCEPT ![r] = q]
    BY <2>2, <2>11
  <2> HIDE DEF UsersInv
  <2> QED BY <2>1, <2>5, <2>9, <2>10, <2>12, <2>13, <2>14, UserGoes
<1>23. CASE UNCHANGED usersVars
  <2>1. /\ users' = users /\ roleRows' = roleRows /\ lastUser' = lastUser /\ lastRoleRow' = lastRoleRow
        /\ userReq' = userReq /\ wizard' = wizard /\ loginRequired' = loginRequired /\ raced' = raced
    BY <1>23 DEF usersVars
  <2>2. /\ Accounts!Roots' = Accounts!Roots /\ Accounts!Verified' = Accounts!Verified /\ \A u : Accounts!RolesOf(u)' = Accounts!RolesOf(u)
        /\ \A r : Accounts!Takes(userReq[r])' = Accounts!Takes(userReq[r])
    BY <2>1 DEF Accounts!Roots, Accounts!Verified, Accounts!RolesOf, Accounts!Takes
  <2>3. UserTables' /\ Manageable'
    BY <1>9, <2>1, <2>2 DEF UserTables, Manageable
  <2>4. \A r \in UserRequests : userReq'[r] \in UserAsks /\ AskInv(userReq[r])'
    BY <1>9, <2>1, <2>2 DEF AskInv, OwnerBut, AdminBut
  <2> QED BY <2>1, <2>2, <2>3, <2>4 DEF UsersInv
<1>24. ASSUME NEW r \in UserRequests, NEW by \in Accounts!UserIds \cup {Accounts!Nobody},
              \/ \E want \in {{}, {"ADMIN"}, {"OTHER", "unknown"}} :
                   \/ \E verified \in BOOLEAN : Accounts!StartRegister(r, by, verified, want)
                   \/ \E id \in Accounts!UserIds : Accounts!StartSetRoles(r, by, id, want)
              \/ \E id \in Accounts!UserIds : \/ Accounts!StartDelete(r, by, id)
                                              \/ \E value \in BOOLEAN : Accounts!StartSetVerified(r, by, id, value)
                                                                        \/ Accounts!StartSetRoot(r, by, id, value)
       PROVE  UsersInv'
  <2>1. {{}, {"ADMIN"}, {"OTHER", "unknown"}} \subseteq RoleSets
    BY DEF RoleSets, Accounts!Roles
  <2> HIDE DEF UsersInv
  <2> QED BY <1>4, <1>5, <1>6, <1>7, <1>8, <1>24, <2>1
<1>25. ASSUME NEW r \in UserRequests,
              \/ Accounts!CheckVerified(r) \/ Accounts!CountVerified(r) \/ Accounts!CheckRoot(r) \/ Accounts!CountRoots(r)
       PROVE  UsersInv'
  <2>1. CASE Accounts!CheckVerified(r)
    <3>1. Accounts!At(r, "checkVerified")
      BY <2>1 DEF Accounts!CheckVerified
    <3> HIDE DEF UsersInv
    <3> QED BY <1>20, <2>1, <3>1
  <2>2. CASE Accounts!CountVerified(r)
    <3>1. Accounts!At(r, "countVerified")
      BY <2>2 DEF Accounts!CountVerified
    <3> HIDE DEF UsersInv
    <3> QED BY <1>20, <2>2, <3>1
  <2>3. CASE Accounts!CheckRoot(r)
    <3>1. Accounts!At(r, "checkRoot")
      BY <2>3 DEF Accounts!CheckRoot
    <3> HIDE DEF UsersInv
    <3> QED BY <1>20, <2>3, <3>1
  <2>4. CASE Accounts!CountRoots(r)
    <3>1. Accounts!At(r, "countRoots")
      BY <2>4 DEF Accounts!CountRoots
    <3> HIDE DEF UsersInv
    <3> QED BY <1>20, <2>4, <3>1
  <2> QED BY <1>25, <2>1, <2>2, <2>3, <2>4
<1>26. ASSUME NEW r \in UserRequests,
              \/ Accounts!StartWizard(r)
              \/ Accounts!InsertUser(r) \/ Accounts!ListRoles(r) \/ Accounts!DeleteRoles(r) \/ Accounts!Finish(r)
              \/ Accounts!CheckDelete(r) \/ Accounts!LastAdmin(r) \/ Accounts!DeleteRow(r) \/ Accounts!UpdateUser(r)
              \/ \E role \in Accounts!Roles \cup {"unknown"} : Accounts!CreateRole(r, role)
       PROVE  UsersInv'
  BY <1>3, <1>10, <1>11, <1>13, <1>15, <1>16, <1>19, <1>21, <1>22, <1>26
<1>27. CASE Accounts!UsersNext
  BY <1>24, <1>25, <1>26, <1>27 DEF Accounts!UsersNext
<1> QED BY <1>23, <1>27

\* After the wizard there is an owner, and with login required a verified administrator, unless two
\* requests that take away overlap; setUserRoles leaves the roles asked for (UserService, UserRoleService).
THEOREM UsersInCharge == MCSpec => UsersKeepInCharge
<1>1. MCInit => UsersInv
  <2> SUFFICES ASSUME MCInit PROVE UsersInv
    OBVIOUS
  <2>1. /\ users = <<>> /\ roleRows = <<>> /\ lastUser = 0 /\ lastRoleRow = 0
        /\ userReq = [r \in UserRequests |-> Accounts!NoRequest] /\ wizard = FALSE
    BY DEF MCInit, Accounts!UsersInit
  <2>2. UserTables /\ Manageable
    BY <2>1 DEF UserTables, Manageable
  <2>3. PICK q : q = Accounts!NoRequest
    OBVIOUS
  <2>4. q \in UserAsks /\ q.at = "idle"
    BY <2>3 DEF UserAsks, Accounts!NoRequest
  <2>5. q \notin Registering \cup SettingRoles \cup Deleting \cup Flagging /\ ~Accounts!Takes(q)
    BY <2>4, UserAskIs DEF Registering, SettingRoles, Deleting, Flagging
  <2>6. AskInv(q)
    BY <2>5 DEF AskInv
  <2> QED BY <2>1, <2>2, <2>3, <2>4, <2>5, <2>6 DEF UsersInv
<1>2. UsersInv /\ [MCNext]_vars => UsersInv'
  BY Framed, UsersKeep
<1>3. UsersInv' => [Accounts!StaysManageable']_Accounts!usersVars
  BY DEF UsersInv, Manageable, Accounts!StaysManageable
<1>4. UsersInv => [\A r \in UserRequests :
         Accounts!At(r, "finish") /\ ~raced => Accounts!RolesOf(userReq[r].id) = userReq[r].want]_Accounts!usersVars
  <2> SUFFICES ASSUME UsersInv, NEW r \in UserRequests, userReq[r].at = "finish", ~raced
               PROVE  Accounts!RolesOf(userReq[r].id) = userReq[r].want
    BY DEF Accounts!At
  <2>1. userReq[r] \in UserAsks /\ AskInv(userReq[r])
    BY DEF UsersInv
  <2> QED BY <2>1, UserAskIs DEF AskInv
<1> QED BY <1>1, <1>2, <1>3, <1>4, PTL DEF MCSpec, UsersKeepInCharge, Accounts!UsersKeepInCharge,
                                           Accounts!RolesAsAsked

-----------------------------------------------------------------------------
(* The statistics of prints. *)

\* The numbers of rows are the same here and in the instance.
LEMMA CountsAsHere == \A S : Counts!Cardinality(S) = Cardinality(S)
BY Zenon DEF Counts!Cardinality, Cardinality

\* What reduce keeps of the rows up to i, when f tells what it kept of those before.
KeptAt(events, f, i) ==
  IF i = 0 THEN 0
  ELSE IF i \in events /\ (f[i - 1] = 0 \/ ~Counts!KeepsFirst(f[i - 1], i)) THEN i
  ELSE f[i - 1]

\* There is what reduce keeps, however many rows there are.
LEMMA ReduceEnds ==
  ASSUME NEW n \in Nat, NEW events
  PROVE  \E f : f = [i \in 0..n |-> KeptAt(events, f, i)]
<1> DEFINE Upto(m) == \E f : f = [i \in 0..m |-> KeptAt(events, f, i)]
           Missing == {m \in Nat : ~Upto(m)}
<1>1. Upto(0)
  <2> DEFINE f == [i \in 0..0 |-> 0]
  <2>1. f = [i \in 0..0 |-> KeptAt(events, f, i)]
    BY DEF KeptAt
  <2> QED BY <2>1
<1>2. ASSUME NEW m \in Nat, m # 0, Upto(m - 1) PROVE Upto(m)
  <2>1. PICK f : f = [i \in 0..(m - 1) |-> KeptAt(events, f, i)]
    BY <1>2
  <2> DEFINE g == [i \in 0..m |-> IF i = m THEN KeptAt(events, f, m) ELSE f[i]]
  <2>2. ASSUME NEW i \in 0..m PROVE g[i] = KeptAt(events, g, i)
    <3>1. CASE i = 0
      <4>1. g[0] = f[0] /\ f[0] = KeptAt(events, f, 0)
        BY <1>2, <2>1
      <4> QED BY <3>1, <4>1 DEF KeptAt
    <3>2. CASE i # 0
      <4>1. i - 1 \in 0..(m - 1) /\ g[i - 1] = f[i - 1]
        BY <1>2, <3>2
      <4>2. KeptAt(events, g, i) = KeptAt(events, f, i)
        BY <3>2, <4>1 DEF KeptAt
      <4>3. g[i] = KeptAt(events, f, i)
        <5>1. CASE i = m
          BY <5>1
        <5>2. CASE i # m
          <6>1. i \in 0..(m - 1) /\ g[i] = f[i]
            BY <1>2, <5>2
          <6> HIDE DEF g
          <6> QED BY <2>1, <6>1
        <5> QED BY <5>1, <5>2
      <4> QED BY <4>2, <4>3
    <3> QED BY <3>1, <3>2
  <2>3. g = [i \in 0..m |-> g[i]]
    OBVIOUS
  <2> HIDE DEF g
  <2>4. g = [i \in 0..m |-> KeptAt(events, g, i)]
    BY <2>2, <2>3
  <2> QED BY <2>4
<1> HIDE DEF Upto
<1>3. Missing = {}
  <2> SUFFICES ASSUME Missing # {} PROVE FALSE
    OBVIOUS
  <2>1. PICK m \in Missing : \A k \in Missing : m <= k
    BY LeastIsThere
  <2>2. m # 0
    BY <1>1
  <2>3. m - 1 \in Nat /\ m - 1 \notin Missing
    BY <2>1, <2>2
  <2> QED BY <1>2, <2>2, <2>3
<1>4. Upto(n)
  BY <1>3
<1> QED BY <1>4 DEF Upto

\* Reduce ends with one of the rows, and none of them is later.
LEMMA LatestIs ==
  ASSUME NEW n \in Nat, Len(printRows) = n, \A i \in 1..n : printRows[i].at \in Nat,
         NEW events \in SUBSET (1..n), events # {}
  PROVE  /\ Counts!Latest(events) \in events
         /\ \A i \in events : printRows[i].at <= printRows[Counts!Latest(events)].at
<1> DEFINE Kept == CHOOSE f : f = [i \in 0..n |-> KeptAt(events, f, i)]
<1>1. Kept = [i \in 0..n |-> KeptAt(events, Kept, i)]
  BY ReduceEnds
<1>2. Counts!Latest(events) = Kept[n]
  BY DEF Counts!Latest, KeptAt
<1> HIDE DEF Kept
<1> DEFINE Past(m) == events \cap 1..m
           Best(m) == IF Past(m) = {} THEN Kept[m] = 0
                      ELSE Kept[m] \in Past(m) /\ \A i \in Past(m) : printRows[i].at <= printRows[Kept[m]].at
           Wrong == {m \in 0..n : ~Best(m)}
<1>3. Best(0)
  <2>1. Past(0) = {} /\ Kept[0] = KeptAt(events, Kept, 0)
    BY <1>1
  <2> QED BY <2>1 DEF KeptAt
<1>4. ASSUME NEW m \in 1..n, Best(m - 1) PROVE Best(m)
  <2>1. Kept[m] = IF m \in events /\ (Kept[m - 1] = 0 \/ ~Counts!KeepsFirst(Kept[m - 1], m)) THEN m ELSE Kept[m - 1]
    <3>1. Kept[m] = KeptAt(events, Kept, m)
      BY <1>1
    <3> QED BY <3>1 DEF KeptAt
  <2>2. Past(m) = IF m \in events THEN Past(m - 1) \cup {m} ELSE Past(m - 1)
    OBVIOUS
  <2>3. \A i \in Past(m - 1) : i # 0 /\ i \in 1..n
    OBVIOUS
  <2> HIDE DEF Past
  <2>4. CASE m \notin events
    BY <1>4, <2>1, <2>2, <2>4
  <2>5. CASE m \in events /\ Past(m - 1) = {}
    <3>1. Kept[m] = m /\ Past(m) = {m}
      BY <1>4, <2>1, <2>2, <2>5
    <3> QED BY <3>1
  <2>6. CASE m \in events /\ Past(m - 1) # {}
    <3>1. /\ Kept[m - 1] \in Past(m - 1) /\ Kept[m - 1] # 0 /\ Past(m) = Past(m - 1) \cup {m}
          /\ \A i \in Past(m - 1) : printRows[i].at <= printRows[Kept[m - 1]].at
      BY <1>4, <2>2, <2>3, <2>6
    <3>2. printRows[m].at \in Nat /\ \A i \in Past(m - 1) : printRows[i].at \in Nat
      BY <2>3
    <3>3. CASE printRows[Kept[m - 1]].at > printRows[m].at
      BY <2>1, <2>6, <3>1, <3>2, <3>3 DEF Counts!KeepsFirst
    <3>4. CASE ~(printRows[Kept[m - 1]].at > printRows[m].at)
      <4>1. Kept[m] = m
        BY <2>1, <2>6, <3>4 DEF Counts!KeepsFirst
      <4> QED BY <3>1, <3>2, <3>4, <4>1
    <3> QED BY <3>3, <3>4
  <2> QED BY <2>4, <2>5, <2>6
<1>5. Best(n)
  <2> HIDE DEF Best
  <2> SUFFICES ASSUME Wrong # {} PROVE FALSE
    OBVIOUS
  <2>1. PICK m \in Wrong : \A k \in Wrong : m <= k
    <3>1. Wrong \in SUBSET Nat
      OBVIOUS
    <3> HIDE DEF Wrong
    <3> QED BY <3>1, LeastIsThere
  <2>2. m # 0
    BY <1>3
  <2>3. m - 1 \in 0..n /\ m \in 1..n /\ m - 1 \notin Wrong
    BY <2>1, <2>2
  <2> QED BY <1>4, <2>3
<1>6. Past(n) = events
  OBVIOUS
<1> QED BY <1>2, <1>5, <1>6

PrintRows == [printer : RowPrinters, status : Counts!Statuses, id : 0..MaxPrintRows, at : PrintDays]

CountsInv ==
  /\ printsDb \in {"mongo", "sqlite"} /\ printDay \in PrintDays
  /\ printRows \in Seq(PrintRows) /\ Len(printRows) <= MaxPrintRows
  /\ printReport.kind \in {"none", "list", "contexts", "found"}
  /\ Counts!StatisticsAddUp

LEMMA DayBounds == PrintDays \subseteq Nat /\ Windows \subseteq Nat /\ PrintDays # {}
BY ServicesAssumption

LEMMA RowsAre ==
  ASSUME CountsInv
  PROVE  /\ Len(printRows) \in Nat /\ DOMAIN printRows = 1..Len(printRows)
         /\ \A i \in 1..Len(printRows) :
              /\ printRows[i] \in PrintRows /\ printRows[i].at \in Nat /\ printRows[i].status # "none"
<1>1. printRows \in Seq(PrintRows)
  BY DEF CountsInv
<1>2. \A r \in PrintRows : r.at \in Nat /\ r.status # "none"
  BY DayBounds DEF PrintRows, Counts!Statuses
<1> HIDE DEF PrintRows
<1>3. /\ Len(printRows) \in Nat /\ DOMAIN printRows = 1..Len(printRows)
      /\ \A i \in 1..Len(printRows) : printRows[i] \in PrintRows
  BY <1>1
<1> QED BY <1>2, <1>3

\* Of some rows, what is counted of those of one status.
LEMMA PartsOfStatus ==
  ASSUME CountsInv, NEW events \in SUBSET (1..Len(printRows)), NEW status
  PROVE  Counts!PartsAddUp(Counts!OfStatus(events, status), {i \in events : printRows[i].status = status})
<1> DEFINE n == Len(printRows)
           of == {i \in events : printRows[i].status = status}
           part == Counts!OfStatus(events, status)
           Within(w) == {i \in of : printRows[i].at > printDay - w}
<1>1. n \in Nat /\ \A i \in 1..n : printRows[i].at \in Nat /\ printRows[i].status # "none"
  BY RowsAre
<1>2. of \in SUBSET (1..n) /\ IsFiniteSet(of) /\ Cardinality(of) \in Nat /\ (Cardinality(of) = 0 <=> of = {})
  <2>1. of \in SUBSET (1..n) /\ IsFiniteSet(1..n)
    <3>1. IsFiniteSet(1..n)
      <4> HIDE DEF n
      <4> QED BY <1>1, FS_Interval
    <3> QED BY <3>1
  <2> HIDE DEF of
  <2>2. IsFiniteSet(of)
    BY <2>1, FS_Subset
  <2> QED BY <2>1, <2>2, FS_CardinalityType, FS_EmptySet
<1>3. /\ part.count = Cardinality(of) /\ part.last = IF of = {} THEN Counts!NoEvent ELSE printRows[Counts!Latest(of)]
      /\ part.recent = [w \in Windows |-> Cardinality(Within(w))]
  <2>1. part = [count |-> Counts!Cardinality(of), last |-> IF of = {} THEN Counts!NoEvent ELSE printRows[Counts!Latest(of)],
                recent |-> [w \in Windows |-> Counts!Cardinality(Within(w))]]
    BY Zenon DEF Counts!OfStatus
  <2> HIDE DEF part, of, Within
  <2>2. part.recent = [w \in Windows |-> Counts!Cardinality(Within(w))]
    BY <2>1
  <2> QED BY <2>1, <2>2, CountsAsHere
<1>4. of # {} => /\ Counts!Latest(of) \in of /\ part.last = printRows[Counts!Latest(of)]
                 /\ \A i \in of : printRows[i].at <= part.last.at
  BY <1>1, <1>2, <1>3, LatestIs
<1>5. part.count = 0 <=> part.last = Counts!NoEvent
  <2>1. of # {} => part.last # Counts!NoEvent
    BY <1>1, <1>2, <1>4 DEF Counts!NoEvent
  <2> QED BY <1>2, <1>3, <2>1
<1>6. ASSUME NEW w \in Windows
      PROVE  /\ Within(w) \subseteq of /\ IsFiniteSet(Within(w)) /\ part.recent[w] = Cardinality(Within(w))
             /\ Cardinality(Within(w)) \in Nat /\ Cardinality(Within(w)) <= Cardinality(of)
             /\ (Cardinality(Within(w)) = 0 <=> Within(w) = {})
  <2>1. Within(w) \subseteq of
    OBVIOUS
  <2> HIDE DEF Within
  <2> QED BY <1>2, <1>3, <1>6, <2>1, FS_Subset, FS_CardinalityType, FS_EmptySet
<1>7. ASSUME NEW w \in Windows, of # {} PROVE Within(w) # {} <=> printDay - part.last.at < w
  <2>1. w \in Nat /\ printDay \in Nat /\ \A i \in of : printRows[i].at \in Nat
    BY <1>1, <1>2, DayBounds DEF CountsInv
  <2>2. PICK l \in of : part.last = printRows[l] /\ \A i \in of : printRows[i].at <= printRows[l].at
    BY <1>4, <1>7
  <2> HIDE DEF of, part
  <2> QED BY <2>1, <2>2
<1>8. ASSUME NEW w \in Windows, NEW v \in Windows, w < v
      PROVE  Cardinality(Within(w)) <= Cardinality(Within(v))
  <2>1. Within(w) \subseteq Within(v)
    <3>1. w \in Nat /\ v \in Nat /\ printDay \in Nat /\ \A i \in of : printRows[i].at \in Nat
      BY <1>1, <1>2, DayBounds DEF CountsInv
    <3> HIDE DEF of
    <3> QED BY <1>8, <3>1
  <2> HIDE DEF Within
  <2> QED BY <1>6, <2>1, FS_Subset
<1> HIDE DEF of, part, Within
<1>9. Counts!PartsAddUp(part, of)
  <2>1. part.count > 0 <=> of # {}
    BY <1>2, <1>3
  <2>2. part.count > 0 => \E i \in of : part.last = printRows[i]
    BY <1>4, <2>1
  <2>3. \A i \in of : printRows[i].at <= part.last.at
    BY <1>4
  <2>4. ASSUME NEW w \in Windows
        PROVE  /\ part.recent[w] <= part.count
               /\ part.count > 0 => (part.recent[w] > 0 <=> printDay - part.last.at < w)
               /\ \A v \in Windows : w < v => part.recent[w] <= part.recent[v]
    <3>1. part.recent[w] > 0 <=> Within(w) # {}
      BY <1>6
    <3>2. part.recent[w] <= part.count
      BY <1>3, <1>6
    <3>3. \A v \in Windows : w < v => part.recent[w] <= part.recent[v]
      BY <1>6, <1>8
    <3> QED BY <1>7, <2>1, <3>1, <3>2, <3>3
  <2> QED BY <1>3, <1>5, <2>2, <2>3, <2>4, CountsAsHere DEF Counts!PartsAddUp
<1> QED BY <1>9 DEF of, part

\* A list that is made of the rows as they are adds up.
LEMMA ListAddsUp ==
  ASSUME CountsInv
  PROVE  Counts!AddUp(Counts!ListGroupByPrinterStatus)
<1> USE DEF Counts!ListedOf
<1> DEFINE n == Len(printRows)
           listed == Counts!Listed
           Of(p) == Counts!ListedOf(p)
           IdsOf(p) == {printRows[i].id : i \in Of(p)}
           Job(p, id) == {i \in Of(p) : printRows[i].id = id}
           list == Counts!ListGroupByPrinterStatus
<1>1. n \in Nat /\ \A i \in 1..n : printRows[i].at \in Nat
  BY RowsAre
<1>2. listed \subseteq 1..n
  BY RowsAre DEF Counts!Listed
<1>3. /\ DOMAIN list = {printRows[i].printer : i \in listed}
      /\ \A p \in DOMAIN list : list[p] = Counts!ProcessCompletions(Of(p))
  <2>1. list = [p \in {printRows[i].printer : i \in listed} |-> Counts!ProcessCompletions(Of(p))]
    <3> DEFINE groups == Counts!GroupArrayBy(listed, "printer")
    <3>1. groups = [p \in {printRows[i].printer : i \in listed} |-> Of(p)]
      BY DEF Counts!GroupArrayBy
    <3>2. list = [p \in DOMAIN groups |-> Counts!ProcessCompletions(groups[p])]
      BY DEF Counts!ListGroupByPrinterStatus
    <3> HIDE DEF groups, listed, list
    <3> QED BY <3>1, <3>2
  <2> HIDE DEF list, Of, listed
  <2> QED BY <2>1
<1>4. ASSUME NEW p \in DOMAIN list
      PROVE  LET told == list[p]
                 jobs == told.printJobs
             IN  /\ told.eventCount = Counts!Cardinality(Of(p)) /\ told.printCount <= told.eventCount
                 /\ \A i \in Of(p) : \E id \in DOMAIN jobs : \A job \in DOMAIN jobs : i \in jobs[job].events <=> job = id
                 /\ \A id \in DOMAIN jobs :
                      /\ jobs[id].events \subseteq Of(p)
                      /\ \E i \in jobs[id].events : jobs[id].lastEvent = printRows[i]
                      /\ \A i \in jobs[id].events : printRows[i].at <= jobs[id].lastEvent.at
                 /\ Counts!PartsAddUp(told.failures, {i \in Of(p) : printRows[i].status = "PrintFailed"})
                 /\ Counts!PartsAddUp(told.successes, {i \in Of(p) : printRows[i].status = "PrintDone"})
  <2> DEFINE told == list[p]
             jobs == told.printJobs
             E == Of(p)
             I == IdsOf(p)
  <2>1. /\ told.printJobs = [id \in I |-> [events |-> Job(p, id), lastEvent |-> printRows[Counts!Latest(Job(p, id))]]]
        /\ told.printCount = Counts!Cardinality(I) /\ told.eventCount = Counts!Cardinality(E)
        /\ told.failures = Counts!OfStatus(E, "PrintFailed") /\ told.successes = Counts!OfStatus(E, "PrintDone")
    <3> DEFINE groups == Counts!GroupArrayBy(E, "id")
    <3>1. groups = [id \in I |-> Job(p, id)]
      BY DEF Counts!GroupArrayBy
    <3>2. Counts!ProcessCompletions(E) =
            [printJobs |-> [id \in DOMAIN groups |-> [events |-> groups[id], lastEvent |-> printRows[Counts!Latest(groups[id])]]],
             printCount |-> Counts!Cardinality(DOMAIN groups), eventCount |-> Counts!Cardinality(E),
             failures |-> Counts!OfStatus(E, "PrintFailed"), successes |-> Counts!OfStatus(E, "PrintDone")]
      BY DEF Counts!ProcessCompletions
    <3>3. told = Counts!ProcessCompletions(E)
      BY <1>3, <1>4
    <3> HIDE DEF groups, told, E, I, Job
    <3>4. DOMAIN groups = I /\ \A id \in I : groups[id] = Job(p, id)
      BY <3>1
    <3>5. told.printJobs = [id \in I |-> [events |-> Job(p, id), lastEvent |-> printRows[Counts!Latest(Job(p, id))]]]
      <4>1. told.printJobs = [id \in DOMAIN groups |-> [events |-> groups[id], lastEvent |-> printRows[Counts!Latest(groups[id])]]]
        BY <3>2, <3>3
      <4> QED BY <3>4, <4>1
    <3> QED BY <3>2, <3>3, <3>4, <3>5
  <2>2. E \in SUBSET (1..n) /\ IsFiniteSet(E) /\ Cardinality(E) \in Nat
    <3>1. E \in SUBSET (1..n)
      BY <1>2
    <3>2. IsFiniteSet(1..n)
      <4> HIDE DEF n
      <4> QED BY <1>1, FS_Interval
    <3> HIDE DEF E
    <3> QED BY <3>1, <3>2, FS_Subset, FS_CardinalityType
  <2>3. Cardinality(I) <= Cardinality(E)
    <3> DEFINE f == [i \in E |-> printRows[i].id]
    <3>1. f \in Surjection(E, I)
      BY DEF Surjection
    <3> HIDE DEF f, E, I
    <3> QED BY <2>2, <3>1, FS_Surjection
  <2>4. ASSUME NEW id \in I
        PROVE  /\ Job(p, id) \subseteq E /\ Counts!Latest(Job(p, id)) \in Job(p, id)
               /\ \A i \in Job(p, id) : printRows[i].at <= printRows[Counts!Latest(Job(p, id))].at
    <3>1. Job(p, id) \subseteq E /\ Job(p, id) # {} /\ Job(p, id) \in SUBSET (1..n)
      BY <2>2
    <3> HIDE DEF Job, E
    <3> QED BY <1>1, <3>1, LatestIs
  <2>5. DOMAIN jobs = I /\ \A id \in I : /\ jobs[id].events = Job(p, id)
                                        /\ jobs[id].lastEvent = printRows[Counts!Latest(Job(p, id))]
    <3> HIDE DEF told, I, Job
    <3> QED BY <2>1
  <2>6. \A i \in E : \E id \in DOMAIN jobs : \A job \in DOMAIN jobs : i \in jobs[job].events <=> job = id
    <3> SUFFICES ASSUME NEW i \in E PROVE \E id \in I : \A job \in I : i \in Job(p, job) <=> job = id
      <4> HIDE DEF jobs, I, Job, E
      <4> QED BY <2>5
    <3>1. printRows[i].id \in I /\ \A job \in I : i \in Job(p, job) <=> job = printRows[i].id
      OBVIOUS
    <3> HIDE DEF I, Job
    <3> QED BY <3>1
  <2>7. ASSUME NEW id \in DOMAIN jobs
        PROVE  /\ jobs[id].events \subseteq E
               /\ \E i \in jobs[id].events : jobs[id].lastEvent = printRows[i]
               /\ \A i \in jobs[id].events : printRows[i].at <= jobs[id].lastEvent.at
    <3> HIDE DEF jobs, Job, I, E
    <3> QED BY <2>4, <2>5, <2>7
  <2>8. \A s : Counts!PartsAddUp(Counts!OfStatus(E, s), {i \in E : printRows[i].status = s})
    <3> HIDE DEF E
    <3> QED BY <2>2, PartsOfStatus
  <2>9. told.printCount <= told.eventCount /\ told.eventCount = Counts!Cardinality(E)
    BY <2>1, <2>3, CountsAsHere
  <2> HIDE DEF told, E
  <2>10. /\ Counts!PartsAddUp(told.failures, {i \in E : printRows[i].status = "PrintFailed"})
         /\ Counts!PartsAddUp(told.successes, {i \in E : printRows[i].status = "PrintDone"})
    BY <2>1, <2>8
  <2> QED BY <2>6, <2>7, <2>9, <2>10 DEF told, E
<1> HIDE DEF Counts!ListedOf
<1>5. DOMAIN list = {printRows[i].printer : i \in Counts!Listed}
  BY <1>3
<1> QED BY <1>4, <1>5 DEF Counts!AddUp

\* There are no more ids than rows.
LEMMA IdsAreFew ==
  ASSUME CountsInv
  PROVE  Counts!Cardinality(Counts!Ids) \in 0..Len(printRows)
<1> DEFINE D == 1..Len(printRows)
           All == {r.id : r \in Counts!Elements(printRows)}
           f == [i \in D |-> printRows[i].id]
<1>1. Len(printRows) \in Nat /\ DOMAIN printRows = D
  BY RowsAre
<1>2. f \in Surjection(D, All)
  BY <1>1 DEF Surjection, Counts!Elements
<1>3. IsFiniteSet(D) /\ Cardinality(D) = Len(printRows)
  <2> DEFINE n == Len(printRows)
  <2>1. n \in Nat
    BY <1>1
  <2> HIDE DEF n
  <2>2. IsFiniteSet(1..n) /\ Cardinality(1..n) = n
    BY <2>1, FS_Interval
  <2> QED BY <2>2 DEF n
<1>4. Counts!Ids \in SUBSET All
  BY DEF Counts!Ids
<1> HIDE DEF D, All, f
<1>5. IsFiniteSet(All) /\ Cardinality(All) <= Cardinality(D)
  BY <1>2, <1>3, FS_Surjection
<1>6. IsFiniteSet(Counts!Ids) /\ Cardinality(Counts!Ids) <= Cardinality(All)
  BY <1>4, <1>5, FS_Subset
<1>7. Cardinality(Counts!Ids) \in Nat /\ Cardinality(All) \in Nat
  BY <1>5, <1>6, FS_CardinalityType
<1> QED BY <1>1, <1>3, <1>5, <1>6, <1>7, CountsAsHere

\* What adds up does so as long as the rows and the day stay.
RowsStay == printsDb' = printsDb /\ printRows' = printRows /\ printDay' = printDay

LEMMA AddUpStays ==
  ASSUME NEW list, RowsStay, Counts!AddUp(list)
  PROVE  Counts!AddUp(list)'
<1>1. \A p : Counts!ListedOf(p)' = Counts!ListedOf(p)
  BY DEF Counts!ListedOf, Counts!Listed, RowsStay
<1>2. Counts!Listed' = Counts!Listed
  BY DEF Counts!Listed, RowsStay
<1>3. \A part, of : Counts!PartsAddUp(part, of)' <=> Counts!PartsAddUp(part, of)
  BY DEF Counts!PartsAddUp, RowsStay
<1> QED BY Zenon, <1>1, <1>2, <1>3 DEF Counts!AddUp, RowsStay

LEMMA ListStays ==
  ASSUME NEW list, RowsStay, Counts!AddUp(list), printReport'.printers = list
  PROVE  Counts!AddUp(printReport.printers)'
BY AddUpStays

LEMMA CountsKeep ==
  ASSUME CountsInv, [Counts!StatisticsNext]_printStatisticsVars
  PROVE  CountsInv'
<1>0. /\ Len(printRows) \in Nat /\ DOMAIN printRows = 1..Len(printRows) /\ MaxPrintRows \in Nat
      /\ \A i \in 1..Len(printRows) : printRows[i] \in PrintRows
  BY RowsAre, Bounds
\* What is told is no list.
<1>1. ASSUME printReport'.kind \in {"none", "contexts", "found"}, printsDb' = printsDb, printDay' \in PrintDays,
             printRows' \in Seq(PrintRows), Len(printRows') <= MaxPrintRows
      PROVE  CountsInv'
  BY <1>1 DEF CountsInv, Counts!StatisticsAddUp
<1>2. Counts!NoReport.kind = "none"
  BY DEF Counts!NoReport
<1>3. ASSUME NEW p \in RowPrinters, NEW s \in Counts!Statuses, NEW id \in 0..MaxPrintRows, Counts!StorePrint(p, s, id)
      PROVE  CountsInv'
  <2> DEFINE r == [printer |-> p, status |-> s, id |-> id, at |-> printDay]
  <2>1. r \in PrintRows
    BY DEF PrintRows, CountsInv
  <2>2. printRows \in Seq(PrintRows) /\ printDay \in PrintDays
    BY DEF CountsInv
  <2>3. /\ printRows' = Append(printRows, r) /\ Len(printRows) < MaxPrintRows
        /\ printReport' = Counts!NoReport /\ UNCHANGED <<printsDb, printDay>>
    BY <1>3 DEF Counts!StorePrint
  <2> HIDE DEF r, PrintRows
  <2>4. printRows' \in Seq(PrintRows) /\ Len(printRows') = Len(printRows) + 1
    BY <2>1, <2>2, <2>3
  <2> QED BY <1>0, <1>1, <1>2, <2>2, <2>3, <2>4
<1>4. ASSUME NEW p \in RowPrinters, Counts!StartOfPrint(p) PROVE CountsInv'
  <2>1. Counts!Cardinality(Counts!Ids) \in 0..Len(printRows) /\ Len(printRows) < MaxPrintRows
    BY <1>4, IdsAreFew DEF Counts!StartOfPrint, Counts!StorePrint
  <2>2. 1 + Counts!Cardinality(Counts!Ids) \in 0..MaxPrintRows
    BY <1>0, <2>1
  <2>3. "PrintStarted" \in Counts!Statuses
    BY DEF Counts!Statuses
  <2> QED BY <1>3, <1>4, <2>2, <2>3 DEF Counts!StartOfPrint
<1>5. ASSUME NEW p \in RowPrinters, NEW s \in {"PrintDone", "PrintFailed"}, Counts!EndOfPrint(p, s)
      PROVE  CountsInv'
  <2>1. PICK id \in {Counts!NoId} \cup {r.id : r \in {q \in Counts!Elements(printRows) : q.printer = p}} :
          Counts!StorePrint(p, s, id)
    BY <1>5 DEF Counts!EndOfPrint
  <2>2. id \in 0..MaxPrintRows
    <3>1. \A r \in Counts!Elements(printRows) : r \in PrintRows
      BY <1>0 DEF Counts!Elements
    <3>2. \A r \in PrintRows : r.id \in 0..MaxPrintRows
      BY DEF PrintRows
    <3>3. Counts!NoId \in 0..MaxPrintRows
      BY <1>0 DEF Counts!NoId
    <3> QED BY <3>1, <3>2, <3>3
  <2>3. s \in Counts!Statuses
    BY DEF Counts!Statuses
  <2> QED BY <1>3, <2>1, <2>2, <2>3
<1>6. CASE Counts!TimePasses
  BY <1>1, <1>2, <1>6 DEF Counts!TimePasses, CountsInv
<1>7. CASE Counts!ListCompletions
  <2> DEFINE L == Counts!ListGroupByPrinterStatus
  <2>1. /\ printReport' = [kind |-> "list", printers |-> L] /\ UNCHANGED <<printsDb, printRows, printDay>>
    BY <1>7 DEF Counts!ListCompletions, Counts!Answers
  <2>2. Counts!AddUp(L)
    BY ListAddsUp
  <2> HIDE DEF L
  <2>3. printReport'.kind = "list" /\ printReport'.printers = L
    BY <2>1
  <2>4. Counts!AddUp(printReport.printers)'
    BY <2>1, <2>2, <2>3, ListStays DEF RowsStay
  <2> QED BY <2>1, <2>3, <2>4 DEF CountsInv, Counts!StatisticsAddUp
<1>8. CASE Counts!FindCorrelatedEntries \/ Counts!LoadPrintContexts
  <2>1. PICK report : report.kind \in {"found", "contexts"} /\ Counts!Answers(report)
    <3>1. \A id, S : [kind |-> "found", id |-> id, rows |-> S].kind = "found"
      OBVIOUS
    <3>2. \A c : [kind |-> "contexts", contexts |-> c].kind = "contexts"
      OBVIOUS
    <3>3. CASE Counts!FindCorrelatedEntries
      BY <3>1, <3>3 DEF Counts!FindCorrelatedEntries
    <3>4. CASE Counts!LoadPrintContexts
      <4>1. \E c : Counts!Answers([kind |-> "contexts", contexts |-> c])
        BY <3>4 DEF Counts!LoadPrintContexts
      <4> QED BY <3>2, <4>1
    <3> QED BY <1>8, <3>3, <3>4
  <2> QED BY <1>1, <2>1 DEF Counts!Answers, CountsInv
<1>9. CASE UNCHANGED printStatisticsVars
  <2>1. UNCHANGED <<printsDb, printRows, printDay, printReport>>
    BY <1>9 DEF printStatisticsVars
  <2>2. Counts!StatisticsAddUp'
    <3> SUFFICES ASSUME printReport.kind = "list" PROVE Counts!AddUp(printReport.printers)'
      BY <2>1 DEF Counts!StatisticsAddUp
    <3> DEFINE L == printReport.printers
    <3>1. Counts!AddUp(L)
      BY DEF CountsInv, Counts!StatisticsAddUp
    <3>2. printReport'.printers = L
      BY <2>1
    <3> HIDE DEF L
    <3> QED BY <2>1, <3>1, <3>2, ListStays DEF RowsStay
  <2> QED BY <2>1, <2>2 DEF CountsInv
<1> QED BY <1>4, <1>5, <1>6, <1>7, <1>8, <1>9 DEF Counts!StatisticsNext

LEMMA CountsStart == ASSUME MCInit PROVE CountsInv
<1> SUFFICES ASSUME Counts!StatisticsInit PROVE CountsInv
  BY DEF MCInit
<1>1. printDay \in PrintDays
  <2>1. \E d \in PrintDays : \A e \in PrintDays : d <= e
    BY LeastIsThere, DayBounds
  <2> QED BY <2>1 DEF Counts!StatisticsInit
<1>2. printReport.kind = "none" /\ printRows = <<>> /\ printsDb \in {"mongo", "sqlite"}
  BY DEF Counts!StatisticsInit, Counts!NoReport
<1>3. MaxPrintRows \in Nat
  BY Bounds
<1>4. printRows \in Seq(PrintRows) /\ Len(printRows) <= MaxPrintRows
  BY <1>2, <1>3
<1> QED BY <1>1, <1>2, <1>4 DEF CountsInv, Counts!StatisticsAddUp

\* However many rows there are, on whatever days they were stored and whether the list has
\* all or a page of them: what processCompletions tells of a printer adds up.
THEOREM PrintStatisticsAddUp == MCSpec => []StatisticsAddUp
<1>1. MCInit => CountsInv
  BY CountsStart
<1>2. CountsInv /\ [MCNext]_vars => CountsInv'
  BY Framed, CountsKeep
<1>3. CountsInv => StatisticsAddUp
  BY DEF CountsInv, StatisticsAddUp
<1> QED BY <1>1, <1>2, <1>3, PTL DEF MCSpec

LEMMA CountsTyped == MCSpec => []Counts!StatisticsTypeOK
<1>1. MCInit => CountsInv
  BY CountsStart
<1>2. CountsInv /\ [MCNext]_vars => CountsInv'
  BY Framed, CountsKeep
<1>3. CountsInv => Counts!StatisticsTypeOK
  BY RowsAre DEF CountsInv, PrintRows, Counts!StatisticsTypeOK
<1> QED BY <1>1, <1>2, <1>3, PTL DEF MCSpec

-----------------------------------------------------------------------------
(* The types of the services, one after the other. *)

LEMMA AuthTyped == MCSpec => []Auth!AuthTypeOK
<1> DEFINE Inv == Auth!AuthTypeOK /\ DOMAIN request = AuthRequests
<1> USE DEF Auth!AuthTypeOK, Auth!Idle, Auth!RenewSteps, Auth!Goto, Auth!Without, Auth!Restrict
<1>1. MCInit => Inv
  BY DEF MCInit, Auth!AuthInit
<1>2. ASSUME Inv, [MCNext]_vars PROVE Inv'
  <2>1. ASSUME NEW r \in AuthRequests, Auth!StartLogin(r) PROVE Inv'
    BY <1>2, <2>1 DEF Auth!StartLogin
  <2>2. ASSUME NEW r \in AuthRequests, Auth!SignLogin(r) PROVE Inv'
    BY <1>2, <2>2 DEF Auth!SignLogin, Auth!Signs
  <2>3. ASSUME NEW r \in AuthRequests, Auth!PurgeOutdated(r) PROVE Inv'
    BY <1>2, <2>3 DEF Auth!PurgeOutdated, Auth!Purged
  <2>4. ASSUME NEW r \in AuthRequests, NEW t \in RefreshTokens, Auth!CreateRefreshToken(r, t) PROVE Inv'
    <3>1. handedOut' \in SUBSET RefreshTokens /\ DOMAIN tokenRows' \in SUBSET handedOut'
      BY <1>2, <2>4 DEF Auth!CreateRefreshToken
    <3>2. \A x \in DOMAIN tokenRows' : tokenRows'[x] \in [used : Nat, expired : BOOLEAN]
      <4>1. CASE account = "gone"
        BY <1>2, <2>4, <4>1 DEF Auth!CreateRefreshToken
      <4>2. CASE account # "gone"
        <5>1. tokenRows' = [x \in DOMAIN tokenRows \cup {t} |->
                             IF x = t THEN [used |-> 0, expired |-> FALSE] ELSE tokenRows[x]]
          BY <2>4, <4>2 DEF Auth!CreateRefreshToken
        <5>2. [used |-> 0, expired |-> FALSE] \in [used : Nat, expired : BOOLEAN]
          OBVIOUS
        <5>3. \A x \in DOMAIN tokenRows' : x = t \/ x \in DOMAIN tokenRows
          BY <5>1
        <5>4. \A x \in DOMAIN tokenRows' :
                tokenRows'[x] = IF x = t THEN [used |-> 0, expired |-> FALSE] ELSE tokenRows[x]
          BY <5>1
        <5> QED BY <1>2, <5>2, <5>3, <5>4
      <4> QED BY <4>1, <4>2
    <3>3. request' = [request EXCEPT ![r] = Auth!Idle] /\ UNCHANGED <<account, blacklist, granted, overlapped>>
      BY <2>4 DEF Auth!CreateRefreshToken
    <3> QED BY <1>2, <3>1, <3>2, <3>3
  <2>5. ASSUME NEW r \in AuthRequests, NEW t \in RefreshTokens, Auth!StartRenewal(r, t) PROVE Inv'
    BY <1>2, <2>5 DEF Auth!StartRenewal, Auth!AfterValid
  <2>6. ASSUME NEW r \in AuthRequests, Auth!FindUser(r) PROVE Inv'
    BY <1>2, <2>6 DEF Auth!FindUser
  <2>7. ASSUME NEW r \in AuthRequests, Auth!SignRenewal(r) PROVE Inv'
    BY <1>2, <2>7 DEF Auth!SignRenewal, Auth!Signs
  <2>8. ASSUME NEW r \in AuthRequests, Auth!CountAttempts(r) PROVE Inv'
    <3> DEFINE t == request[r].token
               s == Auth!AfterValid(t, IF Auth!Exceeded(tokenRows[t].used) THEN [at |-> "evict"]
                      ELSE [request[r] EXCEPT !.at = "check", !.used = tokenRows[t].used])
    <3>1. request[r] \in [at : Auth!RenewSteps, token : RefreshTokens, used : Nat]
      BY <1>2, <2>8 DEF Auth!CountAttempts
    <3>2. t \in DOMAIN tokenRows =>
            [request[r] EXCEPT !.at = "check", !.used = tokenRows[t].used]
              \in [at : Auth!RenewSteps, token : RefreshTokens, used : Nat]
      BY <1>2, <3>1
    <3>3. \/ s \in {Auth!Idle, [at |-> "evict"]}
          \/ s \in [at : Auth!RenewSteps, token : RefreshTokens, used : Nat]
      BY <3>2 DEF Auth!AfterValid
    <3>4. request' = [request EXCEPT ![r] = s]
          /\ UNCHANGED <<account, tokenRows, handedOut, blacklist, granted, overlapped>>
      BY <2>8 DEF Auth!CountAttempts
    <3> HIDE DEF s
    <3> QED BY <1>2, <3>3, <3>4
  <2>9. ASSUME NEW r \in AuthRequests, Auth!CheckRow(r) PROVE Inv'
    BY <1>2, <2>9 DEF Auth!CheckRow
  <2>10. ASSUME NEW r \in AuthRequests, Auth!UpdateAttempts(r) PROVE Inv'
    BY <1>2, <2>10 DEF Auth!UpdateAttempts, Auth!Updated
  <2>11. ASSUME NEW r \in AuthRequests, Auth!Evict(r) \/ Auth!StartLogout(r) PROVE Inv'
    BY <1>2, <2>11 DEF Auth!Evict, Auth!StartLogout, Auth!DeleteByUser
  <2>12. ASSUME NEW r \in AuthRequests, Auth!BlacklistJwt(r) PROVE Inv'
    BY <1>2, <2>12 DEF Auth!BlacklistJwt
  <2>13. ASSUME NEW t \in RefreshTokens, Auth!ExpireRow(t) PROVE Inv'
    BY <1>2, <2>13 DEF Auth!ExpireRow
  <2>14. ASSUME Auth!AgeBlacklist \/ \E a \in {"unfit", "gone"} : Auth!ChangeAccount(a) PROVE Inv'
    BY <1>2, <2>14 DEF Auth!AgeBlacklist, Auth!ChangeAccount
  <2>15. CASE UNCHANGED authVars
    BY <1>2, <2>15 DEF authVars
  <2> QED BY <1>2, <2>1, <2>2, <2>3, <2>4, <2>5, <2>6, <2>7, <2>8, <2>9, <2>10, <2>11, <2>12, <2>13,
             <2>14, <2>15, Framed DEF Auth!AuthNext
<1> QED BY <1>1, <1>2, PTL DEF MCSpec

LEMMA SeqIs ==
  ASSUME NEW S, NEW n \in Nat, NEW f \in [1..n -> S]
  PROVE  f \in Seq(S) /\ Len(f) = n
OBVIOUS

LEMMA SeqFirst ==
  ASSUME NEW S, NEW s \in Seq(S), s # <<>>
  PROVE  /\ Head(s) \in S /\ Tail(s) \in Seq(S)
         /\ Len(Tail(s)) = Len(s) - 1 /\ Len(s) \in Nat \ {0}
OBVIOUS

\* At most two calls are under way, and there are four objects: one is always free.
LEMMA EventsTyped == MCSpec => []Events!EventsTypeOK
<1> DEFINE Calls == [label : Events!AllLabels, ref : Events!Objects \cup {Events!NoEvents}, set : BOOLEAN]
           Inv == Events!EventsTypeOK /\ Len(settingEvents) <= 2
<1> USE DEF Events!EventsTypeOK, Events!NoEvents
<1>1. MCInit => Inv
  BY DEF MCInit, Events!EventsInit
<1>2. ASSUME Inv, [MCNext]_vars PROVE Inv'
  <2> DEFINE Sent(labels) ==
               IF adapterEmits
               THEN [i \in DOMAIN labels |-> [label |-> labels[i], ref |-> entry, set |-> FALSE]]
               ELSE <<>>
  <2>1. ASSUME NEW n \in {1, 2}, NEW labels \in [1..n -> Events!AllLabels]
        PROVE  Sent(labels) \in Seq(Calls) /\ Len(Sent(labels)) <= 2
    <3>1. [i \in 1..n |-> [label |-> labels[i], ref |-> entry, set |-> FALSE]] \in [1..n -> Calls]
      BY <1>2
    <3>2. <<>> \in Seq(Calls) /\ Len(<<>>) = 0
      OBVIOUS
    <3>3. DOMAIN labels = 1..n
      OBVIOUS
    <3> HIDE DEF Calls
    <3> QED BY <3>1, <3>2, <3>3, SeqIs
  <2>2. ASSUME NEW l \in EventLabels, Events!ReceiveMessage(l) PROVE Inv'
    <3>1. <<l>> \in [1..1 -> Events!AllLabels]
      BY DEF Events!AllLabels
    <3>2. settingEvents' = Sent(<<l>>) /\ UNCHANGED <<entry, objects, adapterEmits, printerThere>>
      BY <2>2 DEF Events!ReceiveMessage, Events!Emit
    <3> HIDE DEF Sent, Calls
    <3>3. settingEvents' \in Seq(Calls) /\ Len(settingEvents') <= 2
      BY <2>1, <3>1, <3>2
    <3> QED BY <1>2, <3>2, <3>3 DEF Calls
  <2>3. CASE Events!ResetSocketState \/ Events!RefreshPrinterSocket
    <3>1. Events!ResetLabels \in [1..2 -> Events!AllLabels]
      BY DEF Events!AllLabels, Events!ResetLabels
    <3>2. /\ settingEvents' = Sent(Events!ResetLabels) /\ entry' \in {entry, Events!NoEvents}
          /\ UNCHANGED <<objects, adapterEmits, printerThere>>
      BY <2>3 DEF Events!Emit, Events!ResetSocketState, Events!RefreshPrinterSocket
    <3> HIDE DEF Sent, Calls
    <3>3. settingEvents' \in Seq(Calls) /\ Len(settingEvents') <= 2
      BY <2>1, <3>1, <3>2
    <3> QED BY <1>2, <3>2, <3>3 DEF Calls
  <2>4. CASE Events!PrintersDeleted
    BY <1>2, <2>4 DEF Events!PrintersDeleted, Events!AfterDeleteSocket
  <2>5. settingEvents # <<>> =>
          /\ Head(settingEvents) \in Calls /\ Tail(settingEvents) \in Seq(Calls)
          /\ Len(Tail(settingEvents)) = Len(settingEvents) - 1 /\ Len(settingEvents) \in {1, 2}
    <3>1. settingEvents \in Seq(Calls) /\ Len(settingEvents) <= 2
      BY <1>2
    <3>2. settingEvents # <<>> =>
            /\ Head(settingEvents) \in Calls /\ Tail(settingEvents) \in Seq(Calls)
            /\ Len(Tail(settingEvents)) = Len(settingEvents) - 1 /\ Len(settingEvents) \in Nat \ {0}
      <4> HIDE DEF Calls
      <4> QED BY <3>1, SeqFirst
    <3>3. \A n \in Nat \ {0} : n <= 2 => n \in {1, 2}
      OBVIOUS
    <3> HIDE DEF Calls
    <3> QED BY <3>1, <3>2, <3>3
  <2>6. CASE Events!GetOrCreateEvents
    <3> DEFINE call == Head(settingEvents)
               used == {entry} \cup {settingEvents[i].ref : i \in DOMAIN settingEvents}
               ref  == IF call.ref # Events!NoEvents THEN call.ref
                       ELSE CHOOSE o \in Events!Objects \ used : TRUE
               next == [call EXCEPT !.ref = ref, !.set = TRUE]
    <3>1. call \in Calls /\ Tail(settingEvents) \in Seq(Calls)
          /\ Len(Tail(settingEvents)) <= 1
      BY <2>5, <2>6 DEF Events!GetOrCreateEvents
    <3>2. \E o \in Events!Objects : o \notin used
      <4>1. DOMAIN settingEvents \subseteq {1, 2}
        BY <1>2
      <4>2. used \subseteq {entry, settingEvents[1].ref, settingEvents[2].ref}
        BY <4>1
      <4>3. \E o \in {1, 2, 3, 4} : o \notin {entry, settingEvents[1].ref, settingEvents[2].ref}
        OBVIOUS
      <4> QED BY <4>2, <4>3 DEF Events!Objects
    <3>3. ref \in Events!Objects
      <4>1. call.ref # Events!NoEvents => call.ref \in Events!Objects
        BY <3>1
      <4> HIDE DEF used, call
      <4> QED BY <3>2, <4>1
    <3>4. /\ settingEvents' = Append(Tail(settingEvents), next)
          /\ \/ entry' = entry /\ objects' = objects
             \/ entry' = ref /\ objects' = [objects EXCEPT ![ref] = {}]
          /\ UNCHANGED <<adapterEmits, printerThere>>
      BY <2>6 DEF Events!GetOrCreateEvents
    <3>5. next \in Calls
      <4> HIDE DEF ref, call
      <4> QED BY <3>1, <3>3
    <3>6. settingEvents' \in Seq(Calls) /\ Len(settingEvents') <= 2
      <4> HIDE DEF next, Calls
      <4> QED BY <3>1, <3>4, <3>5
    <3> HIDE DEF ref
    <3> QED BY <1>2, <3>3, <3>4, <3>6
  <2>7. CASE Events!SetEvent
    <3> DEFINE call == Head(settingEvents)
    <3>1. /\ call \in Calls /\ settingEvents' = Tail(settingEvents)
          /\ settingEvents' \in Seq(Calls) /\ Len(settingEvents') <= 2
          /\ objects' = [objects EXCEPT ![call.ref] = @ \cup {call.label}] /\ entry' = call.ref
          /\ UNCHANGED <<adapterEmits, printerThere>>
      BY <1>2, <2>5, <2>7 DEF Events!SetEvent
    <3> HIDE DEF call
    <3>2. objects' \in [Events!Objects -> SUBSET Events!AllLabels]
      BY <1>2, <3>1
    <3> QED BY <1>2, <3>1, <3>2
  <2>8. CASE UNCHANGED eventsVars
    BY <1>2, <2>8 DEF eventsVars
  <2> QED BY <1>2, <2>2, <2>3, <2>4, <2>6, <2>7, <2>8, Framed DEF Events!EventsNext
<1> QED BY <1>1, <1>2, PTL DEF MCSpec

\* A request is always one of UserAsks, raced or not.
LEMMA UsersTyped == MCSpec => []Accounts!UsersTypeOK
<1> DEFINE Kept ==
             /\ DOMAIN users \in SUBSET Accounts!UserIds /\ lastUser \in 0..MaxUsers
             /\ \A u \in DOMAIN users : users[u] \in RowFlags
             /\ DOMAIN roleRows \in SUBSET (1..lastRoleRow) /\ lastRoleRow \in 0..MaxRoleRows
             /\ \A i \in DOMAIN roleRows :
                   /\ roleRows[i].role \in Accounts!Roles /\ roleRows[i].user \in DOMAIN users
                   /\ \A j \in DOMAIN roleRows \ {i} : roleRows[j] # roleRows[i]
           Flags == wizard \in BOOLEAN /\ loginRequired \in BOOLEAN /\ raced \in BOOLEAN
           Asked == DOMAIN userReq = UserRequests /\ \A r \in UserRequests : userReq[r] \in UserAsks
           Inv == Kept /\ Flags /\ Asked
<1>1. MCInit => Inv
  <2>1. Accounts!NoRequest \in UserAsks
    BY DEF UserAsks
  <2>2. Accounts!UsersInit => Kept /\ Flags
    <3>1. DOMAIN <<>> = {} /\ 0 \in 0..MaxUsers /\ 0 \in 0..MaxRoleRows
      BY Bounds
    <3> QED BY <3>1 DEF Accounts!UsersInit
  <2> QED BY <2>1, <2>2 DEF MCInit, Accounts!UsersInit
<1>2. ASSUME Inv, [MCNext]_vars PROVE Inv'
  <2>1. ASSUME NEW r \in UserRequests, NEW q \in UserAsks, userReq' = [userReq EXCEPT ![r] = q]
        PROVE  Asked'
    BY <1>2, <2>1
  <2>2. ASSUME NEW r \in UserRequests, NEW q \in UserAsks, userReq' = [userReq EXCEPT ![r] = q],
               Accounts!OnlyReads
        PROVE  Inv'
    <3>1. Asked'
      BY <2>1, <2>2
    <3>2. UNCHANGED <<users, roleRows, lastUser, lastRoleRow, wizard, loginRequired, raced>>
      BY <2>2 DEF Accounts!OnlyReads
    <3>3. Kept' /\ Flags'
      BY <1>2, <3>2
    <3> QED BY <3>1, <3>3
  <2>3. ASSUME NEW r \in UserRequests, NEW q \in UserAsks, Accounts!Enter(r, q)
        PROVE  Inv'
    <3>1. Asked'
      BY <2>1, <2>3 DEF Accounts!Enter
    <3>2. Flags'
      BY <1>2, <2>3 DEF Accounts!Enter
    <3>3. UNCHANGED <<users, roleRows, lastUser, lastRoleRow>>
      BY <2>3 DEF Accounts!Enter
    <3> QED BY <1>2, <3>1, <3>2, <3>3
  <2>4. ASSUME NEW r \in UserRequests
        PROVE  userReq[r] \in UserAsks /\ Accounts!NoRequest \in UserAsks
    BY <1>2 DEF UserAsks
  <2>5. \A u : Accounts!RolesOf(u) \in RoleSets
    BY <1>2 DEF Accounts!RolesOf, RoleSets, Accounts!Roles
  <2>6. ASSUME NEW r \in UserRequests, Accounts!StartWizard(r) PROVE Inv'
    <3>1. [at |-> "insert", row |-> [isRootUser |-> TRUE, isVerified |-> TRUE],
           want |-> {"ADMIN"}, wizard |-> TRUE] \in UserAsks
      BY DEF UserAsks, Registering, RowFlags, RoleSets, Accounts!Roles
    <3> QED BY <2>3, <2>6, <3>1 DEF Accounts!StartWizard
  <2>7. ASSUME NEW r \in UserRequests, NEW by, NEW verified \in BOOLEAN, NEW want \in RoleSets,
               Accounts!StartRegister(r, by, verified, want)
        PROVE  Inv'
    <3>1. [at |-> "insert", row |-> [isRootUser |-> FALSE, isVerified |-> verified],
           want |-> want, wizard |-> FALSE] \in UserAsks
      BY DEF UserAsks, Registering, RowFlags
    <3> QED BY <2>3, <2>7, <3>1 DEF Accounts!StartRegister
  <2>8. ASSUME NEW r \in UserRequests, NEW by, NEW id \in Accounts!UserIds, Accounts!StartDelete(r, by, id)
        PROVE  Inv'
    <3>1. [at |-> "checkDelete", id |-> id] \in UserAsks
      BY DEF UserAsks, Deleting, Accounts!UserIds
    <3> QED BY <2>3, <2>8, <3>1 DEF Accounts!StartDelete
  <2>9. ASSUME NEW r \in UserRequests, NEW by, NEW id \in Accounts!UserIds, NEW value \in BOOLEAN,
               Accounts!StartSetVerified(r, by, id, value)
        PROVE  Inv'
    <3>1. [at |-> "checkVerified", id |-> id, field |-> "isVerified", value |-> value] \in UserAsks
      BY DEF UserAsks, Flagging, Accounts!UserIds
    <3> QED BY <2>3, <2>9, <3>1 DEF Accounts!StartSetVerified
  <2>10. ASSUME NEW r \in UserRequests, NEW by, NEW id \in Accounts!UserIds, NEW value \in BOOLEAN,
                Accounts!StartSetRoot(r, by, id, value)
         PROVE  Inv'
    <3>1. [at |-> "checkRoot", id |-> id, field |-> "isRootUser", value |-> value] \in UserAsks
      BY DEF UserAsks, Flagging, Accounts!UserIds
    <3> QED BY <2>3, <2>10, <3>1 DEF Accounts!StartSetRoot
  <2>11. ASSUME NEW r \in UserRequests, NEW by, NEW id \in Accounts!UserIds, NEW want \in RoleSets,
                Accounts!StartSetRoles(r, by, id, want)
         PROVE  Inv'
    <3>1. [at |-> "listRoles", id |-> id, want |-> want, wizard |-> FALSE] \in UserAsks
      BY DEF UserAsks, SettingRoles, Accounts!UserIds
    <3> QED BY <2>3, <2>11, <3>1 DEF Accounts!StartSetRoles
  <2>12. ASSUME NEW r \in UserRequests, Accounts!InsertUser(r) PROVE Inv'
    <3>1. userReq[r] \in Registering /\ lastUser + 1 \in Accounts!UserIds
      BY <1>2, <2>4, <2>12, UserAskIs, Bounds DEF Accounts!InsertUser, Accounts!At, Accounts!UserIds
    <3>2. [at |-> "listRoles", id |-> lastUser + 1, want |-> userReq[r].want, wizard |-> userReq[r].wizard]
            \in UserAsks
      BY <3>1 DEF UserAsks, Registering, SettingRoles, Accounts!UserIds
    <3>3. Asked'
      BY <2>1, <2>12, <3>2 DEF Accounts!InsertUser, Accounts!Proceed
    <3>4. /\ users' = [u \in DOMAIN users \cup {lastUser + 1} |->
                         IF u = lastUser + 1 THEN userReq[r].row ELSE users[u]]
          /\ lastUser' = lastUser + 1 /\ UNCHANGED <<roleRows, lastRoleRow, wizard, loginRequired, raced>>
      BY <2>12 DEF Accounts!InsertUser
    <3>5. userReq[r].row \in RowFlags
      BY <3>1 DEF Registering
    <3>6. Kept'
      BY <1>2, <3>1, <3>4, <3>5 DEF Accounts!UserIds
    <3> QED BY <1>2, <3>3, <3>4, <3>6
  <2>13. ASSUME NEW r \in UserRequests, Accounts!ListRoles(r) PROVE Inv'
    <3>1. userReq[r] \in SettingRoles
      BY <2>4, <2>13, UserAskIs DEF Accounts!ListRoles, Accounts!At
    <3>2. [at |-> "deleteRoles", id |-> userReq[r].id, want |-> userReq[r].want,
           previous |-> Accounts!RolesOf(userReq[r].id), wizard |-> userReq[r].wizard] \in UserAsks
      BY <2>5, <3>1 DEF UserAsks, SettingRoles
    <3> QED BY <2>2, <2>13, <3>2 DEF Accounts!ListRoles, Accounts!Proceed
  <2>14. ASSUME NEW r \in UserRequests, Accounts!DeleteRoles(r) PROVE Inv'
    <3>1. userReq[r] \in SettingRoles /\ userReq[r].at = "deleteRoles"
      BY <2>4, <2>14, UserAskIs DEF Accounts!DeleteRoles, Accounts!At
    <3> DEFINE req == userReq[r]
               q == [at |-> IF req.want \subseteq req.previous THEN "finish" ELSE "createRoles",
                     id |-> req.id, want |-> req.want, todo |-> req.want \ req.previous,
                     wizard |-> req.wizard]
    <3>2. q \in UserAsks
      BY <3>1 DEF UserAsks, SettingRoles, RoleSets
    <3>3. Asked'
      <4>1. userReq' = [userReq EXCEPT ![r] = q]
        BY <2>14 DEF Accounts!DeleteRoles, Accounts!Proceed
      <4> HIDE DEF q
      <4> QED BY <2>1, <3>2, <4>1
    <3>4. /\ DOMAIN roleRows' \subseteq DOMAIN roleRows
          /\ \A i \in DOMAIN roleRows' : roleRows'[i] = roleRows[i]
          /\ UNCHANGED <<users, lastUser, lastRoleRow, wizard, loginRequired, raced>>
      BY <2>14 DEF Accounts!DeleteRoles, Accounts!Restrict
    <3>5. Kept' /\ Flags'
      BY <1>2, <3>4
    <3> QED BY <3>3, <3>5
  <2>15. ASSUME NEW r \in UserRequests, NEW role, Accounts!CreateRole(r, role) PROVE Inv'
    <3> DEFINE req == userReq[r]
               q == [req EXCEPT !.todo = @ \ {role}, !.at = IF req.todo = {role} THEN "finish" ELSE @]
    <3>1. req \in SettingRoles /\ req.at = "createRoles"
      BY <2>4, <2>15, UserAskIs DEF Accounts!CreateRole, Accounts!At
    <3>2. q \in UserAsks
      BY <3>1 DEF UserAsks, SettingRoles, RoleSets
    <3>3. CASE role \notin Accounts!Roles \/ req.id \notin DOMAIN users \/ role \in Accounts!RolesOf(req.id)
      <4>1. userReq' = [userReq EXCEPT ![r] = Accounts!NoRequest] /\ Accounts!OnlyReads
        BY <2>15, <3>3 DEF Accounts!CreateRole, Accounts!Proceed, Accounts!OnlyReads
      <4> QED BY <2>2, <2>4, <4>1
    <3>4. CASE ~(role \notin Accounts!Roles \/ req.id \notin DOMAIN users \/ role \in Accounts!RolesOf(req.id))
      <4>1. /\ userReq' = [userReq EXCEPT ![r] = q] /\ lastRoleRow < MaxRoleRows /\ lastRoleRow' = lastRoleRow + 1
            /\ roleRows' = [i \in DOMAIN roleRows \cup {lastRoleRow + 1} |->
                              IF i = lastRoleRow + 1 THEN [user |-> req.id, role |-> role] ELSE roleRows[i]]
            /\ UNCHANGED <<users, lastUser, wizard, loginRequired, raced>>
        BY <2>15, <3>4 DEF Accounts!CreateRole, Accounts!Proceed
      <4>2. Asked'
        <5> HIDE DEF q
        <5> QED BY <2>1, <3>2, <4>1
      <4>3. \A i \in DOMAIN roleRows : roleRows[i] # [user |-> req.id, role |-> role]
        BY <3>4 DEF Accounts!RolesOf
      <4>4. DOMAIN roleRows' \subseteq 1..lastRoleRow' /\ lastRoleRow' \in 0..MaxRoleRows
        BY <1>2, <4>1, Bounds
      <4>5. \A i \in DOMAIN roleRows' :
              \/ i = lastRoleRow + 1 /\ roleRows'[i] = [user |-> req.id, role |-> role]
              \/ i \in DOMAIN roleRows /\ roleRows'[i] = roleRows[i]
        BY <4>1
      <4>6. Kept'
        BY <1>2, <3>4, <4>1, <4>3, <4>4, <4>5
      <4> QED BY <1>2, <4>1, <4>2, <4>6
    <3> QED BY <3>3, <3>4
  <2>16. ASSUME NEW r \in UserRequests, Accounts!Finish(r) PROVE Inv'
    <3>1. userReq[r] \in SettingRoles
      BY <2>4, <2>16, UserAskIs DEF Accounts!Finish, Accounts!At
    <3>2. wizard' \in BOOLEAN
      BY <2>16 DEF Accounts!Finish
    <3>3. UNCHANGED <<users, roleRows, lastUser, lastRoleRow, loginRequired, raced>>
      BY <2>16 DEF Accounts!Finish
    <3>4. Asked'
      BY <2>1, <2>4, <2>16 DEF Accounts!Finish, Accounts!Proceed
    <3> QED BY <1>2, <3>2, <3>3, <3>4
  <2>17. ASSUME NEW r \in UserRequests, Accounts!CheckDelete(r) \/ Accounts!LastAdmin(r) PROVE Inv'
    <3>1. userReq[r] \in Deleting
      BY <2>4, <2>17, UserAskIs DEF Accounts!CheckDelete, Accounts!LastAdmin, Accounts!At
    <3>2. \A s \in {"lastAdmin", "delete"} : Accounts!Next_(r, s) \in UserAsks
      BY <3>1 DEF UserAsks, Deleting, Accounts!Next_
    <3>3. \E q \in {Accounts!NoRequest, Accounts!Next_(r, "lastAdmin"), Accounts!Next_(r, "delete")} :
            userReq' = [userReq EXCEPT ![r] = q]
      BY <2>17 DEF Accounts!CheckDelete, Accounts!LastAdmin, Accounts!Proceed
    <3> QED BY <2>2, <2>4, <2>17, <3>2, <3>3 DEF Accounts!CheckDelete, Accounts!LastAdmin
  <2>18. ASSUME NEW r \in UserRequests, Accounts!DeleteRow(r) PROVE Inv'
    <3> DEFINE id == userReq[r].id
    <3>1. Asked'
      BY <2>1, <2>4, <2>18 DEF Accounts!DeleteRow, Accounts!Proceed
    <3>2. /\ DOMAIN users' = DOMAIN users \ {id} /\ \A u \in DOMAIN users' : users'[u] = users[u]
          /\ DOMAIN roleRows' = {i \in DOMAIN roleRows : roleRows[i].user # id}
          /\ \A i \in DOMAIN roleRows' : roleRows'[i] = roleRows[i]
          /\ UNCHANGED <<lastUser, lastRoleRow, wizard, loginRequired, raced>>
      BY <2>18 DEF Accounts!DeleteRow, Accounts!Restrict
    <3> HIDE DEF id
    <3>3. Kept' /\ Flags'
      BY <1>2, <3>2
    <3> QED BY <3>1, <3>3
  <2>19. ASSUME NEW r \in UserRequests,
                \/ Accounts!CheckVerified(r) \/ Accounts!CountVerified(r)
                \/ Accounts!CheckRoot(r) \/ Accounts!CountRoots(r)
         PROVE  Inv'
    <3>1. userReq[r] \in Flagging
      BY <2>4, <2>19, UserAskIs
         DEF Accounts!CheckVerified, Accounts!CountVerified, Accounts!CheckRoot, Accounts!CountRoots, Accounts!At
    <3>2. /\ userReq[r].field = "isVerified" => Accounts!Next_(r, "countVerified") \in UserAsks
          /\ userReq[r].field = "isRootUser" => Accounts!Next_(r, "countRoots") \in UserAsks
          /\ Accounts!Next_(r, "update") \in UserAsks
      BY <3>1 DEF UserAsks, Flagging, Accounts!Next_
    <3>3. \E q \in UserAsks : userReq' = [userReq EXCEPT ![r] = q]
      BY <2>4, <2>19, <3>1, <3>2
         DEF Accounts!CheckVerified, Accounts!CountVerified, Accounts!CheckRoot, Accounts!CountRoots,
             Accounts!Proceed, Accounts!At, Flagging
    <3> QED BY <2>2, <2>19, <3>3
         DEF Accounts!CheckVerified, Accounts!CountVerified, Accounts!CheckRoot, Accounts!CountRoots
  <2>20. ASSUME NEW r \in UserRequests, Accounts!UpdateUser(r) PROVE Inv'
    <3> DEFINE req == userReq[r]
    <3>1. req.field \in {"isVerified", "isRootUser"} /\ req.value \in BOOLEAN
      BY <2>4, <2>20, UserAskIs DEF Accounts!UpdateUser, Accounts!At, Flagging
    <3>2. /\ DOMAIN users' = DOMAIN users
          /\ \A u \in DOMAIN users' : users'[u] \in {users[u], [users[u] EXCEPT ![req.field] = req.value]}
          /\ UNCHANGED <<roleRows, lastUser, lastRoleRow, wizard, loginRequired, raced>>
      BY <2>20 DEF Accounts!UpdateUser
    <3>3. \A u \in DOMAIN users : [users[u] EXCEPT ![req.field] = req.value] \in RowFlags
      BY <1>2, <3>1 DEF RowFlags
    <3>4. Asked'
      BY <2>1, <2>4, <2>20 DEF Accounts!UpdateUser, Accounts!Proceed
    <3> HIDE DEF req
    <3>5. Kept' /\ Flags'
      BY <1>2, <3>2, <3>3
    <3> QED BY <3>4, <3>5
  <2>21. CASE UNCHANGED usersVars
    BY <1>2, <2>21 DEF usersVars
  <2>22. {} \in RoleSets /\ {"ADMIN"} \in RoleSets /\ {"OTHER", "unknown"} \in RoleSets
    BY DEF RoleSets, Accounts!Roles
  <2> HIDE DEF Inv
  <2>23. ASSUME NEW r \in UserRequests,
                \/ Accounts!StartWizard(r)
                \/ Accounts!InsertUser(r) \/ Accounts!ListRoles(r) \/ Accounts!DeleteRoles(r) \/ Accounts!Finish(r)
                \/ Accounts!CheckDelete(r) \/ Accounts!LastAdmin(r) \/ Accounts!DeleteRow(r)
                \/ Accounts!CheckVerified(r) \/ Accounts!CountVerified(r)
                \/ Accounts!CheckRoot(r) \/ Accounts!CountRoots(r) \/ Accounts!UpdateUser(r)
                \/ \E role \in Accounts!Roles \cup {"unknown"} : Accounts!CreateRole(r, role)
         PROVE  Inv'
    BY <2>6, <2>12, <2>13, <2>14, <2>15, <2>16, <2>17, <2>18, <2>19, <2>20, <2>23
  <2>24. ASSUME NEW r \in UserRequests, NEW by \in Accounts!UserIds \cup {Accounts!Nobody},
                \/ \E want \in {{}, {"ADMIN"}, {"OTHER", "unknown"}} :
                     \/ \E verified \in BOOLEAN : Accounts!StartRegister(r, by, verified, want)
                     \/ \E id \in Accounts!UserIds : Accounts!StartSetRoles(r, by, id, want)
                \/ \E id \in Accounts!UserIds :
                     \/ Accounts!StartDelete(r, by, id)
                     \/ \E value \in BOOLEAN : Accounts!StartSetVerified(r, by, id, value)
                                               \/ Accounts!StartSetRoot(r, by, id, value)
         PROVE  Inv'
    BY <2>7, <2>8, <2>9, <2>10, <2>11, <2>22, <2>24
  <2>25. CASE Accounts!UsersNext
    BY <2>23, <2>24, <2>25 DEF Accounts!UsersNext
  <2> QED BY <1>2, <2>21, <2>25, Framed
<1>3. Inv => Accounts!UsersTypeOK
  <2>1. Asked => \A r \in UserRequests : userReq[r].at \in Accounts!Steps \cup {"idle"}
    BY DEF UserAsks, Accounts!NoRequest, Registering, SettingRoles, Deleting, Flagging, Accounts!Steps
  <2> QED BY <2>1 DEF Accounts!UsersTypeOK, RowFlags
<1> QED BY <1>1, <1>2, <1>3, PTL DEF MCSpec

\* A request has an entity once it read one, and there is a row when one is on its way.
LEMMA SettingsTyped == MCSpec => []Patches!SettingsTypeOK
<1> DEFINE Loaded(e) == e \in Patches!Entities \cup {Patches!NotLoaded}
           Typed(q) == /\ q \in PatchAsks /\ \E s \in Patches!Sections : DOMAIN q.patch \subseteq s
                       /\ q.at \in {"write", "assign", "migrate", "found"} => q.entity \in Patches!Entities
           Kept == /\ settingsDb \in {"sqlite", "mongo"} /\ Loaded(row) /\ Loaded(settings)
                   /\ sentryEnabled \in BOOLEAN /\ patchesOverlapped \in BOOLEAN
                   /\ settings # Patches!NotLoaded => row \in Patches!Entities
           Asked == /\ DOMAIN patching = SettingsRequests
                    /\ \A r \in SettingsRequests :
                         patching[r] # Patches!NoPatch => Typed(patching[r]) /\ settings # Patches!NotLoaded
           Inv == Kept /\ Asked
<1> USE SettingsFacts
<1>1. MCInit => Inv
  BY DEF MCInit, Patches!SettingsInit
<1>2. ASSUME Inv, [MCNext]_vars PROVE Inv'
  <2> HIDE DEF Typed
  <2>1. ASSUME NEW r \in SettingsRequests, NEW q, Typed(q), patching' = [patching EXCEPT ![r] = q],
               settings' = settings, settings # Patches!NotLoaded
        PROVE  Asked'
    BY <1>2, <2>1
  <2>2. ASSUME NEW r \in SettingsRequests, patching[r].at # "idle"
        PROVE  /\ Typed(patching[r]) /\ settings # Patches!NotLoaded /\ row \in Patches!Entities
               /\ Patches!GetOrCreate = Patches!Migrated(row) /\ Patches!Migrated(row) \in Patches!Entities
    <3>1. patching[r] # Patches!NoPatch
      BY <2>2 DEF Patches!NoPatch
    <3>2. Typed(patching[r]) /\ settings # Patches!NotLoaded /\ row \in Patches!Entities
      BY <1>2, <3>1
    <3> QED BY <3>2, MigratedIs DEF Patches!GetOrCreate
  <2>3. ASSUME NEW e \in Patches!Entities
        PROVE  e["sentry"] \in BOOLEAN /\ Loaded(e) /\ e # Patches!NotLoaded
    BY DEF Patches!Entities
  <2>4. CASE Patches!LoadSettings
    <3>1. Patches!GetOrCreate \in Patches!Entities
      BY <1>2, MigratedIs DEF Patches!GetOrCreate
    <3>2. /\ settings' = Patches!GetOrCreate /\ sentryEnabled' = Patches!GetOrCreate["sentry"]
          /\ settings = Patches!NotLoaded
          /\ row' = IF row = Patches!NotLoaded \/ settingsDb = "mongo" THEN Patches!GetOrCreate ELSE row
          /\ UNCHANGED <<settingsDb, patching, patchesOverlapped>>
      BY <2>4 DEF Patches!LoadSettings, Patches!ProcessSentryEnabled
    <3>3. Kept'
      BY <1>2, <2>3, <3>1, <3>2
    <3>4. Asked'
      BY <1>2, <3>2
    <3> QED BY <3>3, <3>4
  <2>5. ASSUME NEW r \in SettingsRequests, NEW f \in Patches!Fields, NEW value \in BOOLEAN,
               Patches!StartPatch(r, f, value)
        PROVE  Inv'
    <3> DEFINE q == [at |-> IF settingsDb = "mongo" THEN "find" ELSE IF f = "timeout" THEN "update" ELSE "patch",
                     field |-> f, patch |-> [x \in {f} |-> value], entity |-> Patches!NotLoaded, before |-> row]
    <3>1. patching' = [patching EXCEPT ![r] = q] /\ settings # Patches!NotLoaded
          /\ patchesOverlapped' \in BOOLEAN /\ UNCHANGED <<settingsDb, row, settings, sentryEnabled>>
      BY <2>5 DEF Patches!StartPatch
    <3>2. Typed(q)
      <4>1. [x \in {f} |-> value] \in Partials
        <5>1. {f} \in SUBSET Patches!Fields /\ [x \in {f} |-> value] \in [{f} -> BOOLEAN]
          OBVIOUS
        <5> QED BY <5>1 DEF Partials
      <4>2. DOMAIN q.patch = {f} /\ \E s \in Patches!Sections : {f} \subseteq s
        OBVIOUS
      <4>3. row \in Patches!Entities
        BY <1>2, <3>1
      <4> QED BY <4>1, <4>2, <4>3 DEF Typed, PatchAsks, PatchSteps
    <3> HIDE DEF q
    <3>3. Asked'
      BY <2>1, <3>1, <3>2
    <3> QED BY <1>2, <3>1, <3>3
  <2>6. ASSUME NEW r \in SettingsRequests, Patches!ReadSection(r) PROVE Inv'
    <3> DEFINE req == patching[r]
               q == [req EXCEPT !.at = "update", !.patch = Patches!MergedSection(Patches!GetOrCreate, req.patch)]
    <3>1. /\ req.at = "patch" /\ patching' = [patching EXCEPT ![r] = q]
          /\ UNCHANGED <<settingsDb, row, settings, sentryEnabled, patchesOverlapped>>
      BY <2>6 DEF Patches!ReadSection, Patches!Goes
    <3>2. /\ Patches!MergedSection(Patches!GetOrCreate, req.patch) \in Partials
          /\ \E t \in Patches!Sections : DOMAIN Patches!MergedSection(Patches!GetOrCreate, req.patch) \subseteq t
      BY <2>2, <3>1, MergedIs DEF Typed, PatchAsks
    <3>3. req \in PatchAsks /\ settings # Patches!NotLoaded
      BY <2>2, <3>1 DEF Typed
    <3>4. Typed(q)
      BY <3>2, <3>3 DEF Typed, PatchAsks, PatchSteps
    <3> HIDE DEF q
    <3> QED BY <1>2, <2>1, <3>1, <3>3, <3>4
  <2>7. ASSUME NEW r \in SettingsRequests, Patches!ReadEntity(r) PROVE Inv'
    <3> DEFINE req == patching[r]
               e == Patches!Assigned(Patches!GetOrCreate, req.patch)
               q == [req EXCEPT !.at = "write", !.entity = e]
    <3>1. /\ req.at = "update" /\ patching' = [patching EXCEPT ![r] = q]
          /\ UNCHANGED <<settingsDb, row, settings, sentryEnabled, patchesOverlapped>>
      BY <2>7 DEF Patches!ReadEntity, Patches!Goes
    <3>2. req \in PatchAsks /\ settings # Patches!NotLoaded /\ \E s \in Patches!Sections : DOMAIN req.patch \subseteq s
      BY <2>2, <3>1 DEF Typed
    <3>3. e \in Patches!Entities
      <4>1. \E D \in SUBSET Patches!Fields : req.patch \in [D -> BOOLEAN]
        BY <3>2 DEF PatchAsks, Partials
      <4>2. Patches!GetOrCreate \in Patches!Entities
        BY <2>2, <3>1
      <4> QED BY <4>1, <4>2, AssignedIs
    <3> HIDE DEF e
    <3>4. Typed(q)
      BY <3>2, <3>3 DEF Typed, PatchAsks, PatchSteps
    <3> HIDE DEF q
    <3> QED BY <1>2, <2>1, <3>1, <3>2, <3>4
  <2>8. ASSUME NEW r \in SettingsRequests, Patches!WriteEntity(r) \/ Patches!StoreMigrated(r) PROVE Inv'
    <3> DEFINE req == patching[r]
    <3>1. /\ req.at \in {"write", "migrate"} /\ row' = req.entity
          /\ \E s \in {"assign", "found"} : patching' = [patching EXCEPT ![r] = [req EXCEPT !.at = s]]
          /\ UNCHANGED <<settingsDb, settings, sentryEnabled, patchesOverlapped>>
      BY <2>8 DEF Patches!WriteEntity, Patches!StoreMigrated, Patches!Goes
    <3>2. Typed(req) /\ req.entity \in Patches!Entities /\ settings # Patches!NotLoaded
      BY <2>2, <3>1 DEF Typed
    <3>3. \A s \in {"assign", "found"} : Typed([req EXCEPT !.at = s])
      BY <3>2 DEF Typed, PatchAsks, PatchSteps
    <3>4. Asked'
      BY <2>1, <3>1, <3>2, <3>3
    <3> QED BY <1>2, <3>1, <3>2, <3>4
  <2>9. ASSUME NEW r \in SettingsRequests, Patches!FindSettings(r) PROVE Inv'
    <3> DEFINE req == patching[r]
               q == [req EXCEPT !.at = "migrate", !.entity = Patches!Migrated(row)]
    <3>1. /\ req.at = "find" /\ patching' = [patching EXCEPT ![r] = q]
          /\ UNCHANGED <<settingsDb, row, settings, sentryEnabled, patchesOverlapped>>
      BY <2>9 DEF Patches!FindSettings, Patches!Goes
    <3>2. Typed(req) /\ Patches!Migrated(row) \in Patches!Entities /\ settings # Patches!NotLoaded
      BY <2>2, <3>1
    <3>3. Typed(q)
      BY <3>2 DEF Typed, PatchAsks, PatchSteps
    <3> HIDE DEF q
    <3> QED BY <1>2, <2>1, <3>1, <3>2, <3>3
  <2>10. ASSUME NEW r \in SettingsRequests, Patches!StorePatched(r) PROVE Inv'
    <3> DEFINE req == patching[r]
               p == Patches!MergedSection(req.entity, req.patch)
               e == Patches!Assigned(req.entity, p)
               q == [req EXCEPT !.at = "assign", !.entity = e]
    <3>1. /\ req.at = "found" /\ patching' = [patching EXCEPT ![r] = q] /\ row' = e
          /\ UNCHANGED <<settingsDb, settings, sentryEnabled, patchesOverlapped>>
      BY <2>10 DEF Patches!StorePatched, Patches!Goes
    <3>2. Typed(req) /\ req.entity \in Patches!Entities /\ settings # Patches!NotLoaded
      BY <2>2, <3>1 DEF Typed
    <3>3. e \in Patches!Entities
      <4>1. p \in Partials
        BY <3>2, MergedIs DEF Typed, PatchAsks
      <4>2. \E D \in SUBSET Patches!Fields : p \in [D -> BOOLEAN]
        BY <4>1 DEF Partials
      <4> HIDE DEF p
      <4> QED BY <3>2, <4>2, AssignedIs
    <3> HIDE DEF e
    <3>4. Typed(q)
      BY <3>2, <3>3 DEF Typed, PatchAsks, PatchSteps
    <3> HIDE DEF q
    <3>5. Asked'
      BY <2>1, <3>1, <3>2, <3>4
    <3> QED BY <1>2, <3>1, <3>3, <3>5
  <2>11. ASSUME NEW r \in SettingsRequests, Patches!AssignSettings(r) PROVE Inv'
    <3> DEFINE req == patching[r]
    <3>1. /\ req.at = "assign" /\ settings' = req.entity /\ patching' = [patching EXCEPT ![r] = Patches!NoPatch]
          /\ sentryEnabled' \in {sentryEnabled, req.entity["sentry"]}
          /\ UNCHANGED <<settingsDb, row, patchesOverlapped>>
      BY <2>11 DEF Patches!AssignSettings, Patches!Goes, Patches!ProcessSentryEnabled
    <3>2. req.entity \in Patches!Entities /\ row \in Patches!Entities
      BY <2>2, <3>1 DEF Typed
    <3>3. Kept'
      BY <1>2, <2>3, <3>1, <3>2
    <3>4. Asked'
      BY <1>2, <2>3, <3>1, <3>2
    <3> QED BY <3>3, <3>4
  <2>12. CASE Patches!RestartSettings
    BY <1>2, <2>12 DEF Patches!RestartSettings
  <2>13. CASE UNCHANGED settingsVars
    BY <1>2, <2>13 DEF settingsVars
  <2> HIDE DEF Inv
  <2> QED BY <1>2, <2>4, <2>5, <2>6, <2>7, <2>8, <2>9, <2>10, <2>11, <2>12, <2>13, Framed
             DEF Patches!SettingsNext
<1>3. Inv => Patches!SettingsTypeOK
  <2>1. Asked => \A r \in SettingsRequests :
          /\ patching[r].at \in PatchSteps \cup {"idle"}
          /\ patching[r].at \in {"write", "assign", "migrate", "found"} => patching[r].entity \in Patches!Entities
    BY DEF PatchAsks, Patches!NoPatch
  <2> QED BY <2>1 DEF Patches!SettingsTypeOK, PatchSteps
<1> QED BY <1>1, <1>2, <1>3, PTL DEF MCSpec

LEMMA TestsTyped == MCSpec => []Testing!TestsTypeOK
<1>1. MCInit => TestsInv
  BY DEF MCInit, TestsInv, Running, Testing!TestsInit, Testing!TestsTypeOK, Testing!NoSocket
<1>2. TestsInv /\ [MCNext]_vars => TestsInv'
  BY Framed, TestsKeep
<1>3. TestsInv => Testing!TestsTypeOK
  BY DEF TestsInv
<1> QED BY <1>1, <1>2, <1>3, PTL DEF MCSpec

LEMMA PrintsTyped == MCSpec => []Prints!CompletionsTypeOK
<1>1. MCInit => PrintsInv
  BY PrintsStart
<1>2. PrintsInv /\ [MCNext]_vars => PrintsInv'
  BY Framed, PrintsKeep
<1>3. PrintsInv => Prints!CompletionsTypeOK
  BY DEF PrintsInv
<1> QED BY <1>1, <1>2, <1>3, PTL DEF MCSpec

LEMMA UploadsTyped == MCSpec => []Sending!UploadsTypeOK
<1>1. MCInit => UploadsInv
  BY DEF MCInit, UploadsInv, Sending!UploadsInit, Sending!UploadsTypeOK
<1>2. UploadsInv /\ [MCNext]_vars => UploadsInv'
  BY Framed, UploadsKeep
<1>3. UploadsInv => Sending!UploadsTypeOK
  BY DEF UploadsInv
<1> QED BY <1>1, <1>2, <1>3, PTL DEF MCSpec

LEMMA ThumbnailsTyped == MCSpec => []Thumbs!ThumbnailsTypeOK
<1> DEFINE Loads == [at : {"idle", "extract", "write", "set"}, image : Images \cup {"none", ""}]
           Inv == Thumbs!ThumbnailsTypeOK /\ DOMAIN loading = ThumbnailLoads
<1> USE DEF Thumbs!ThumbnailsTypeOK, Thumbs!NoLoad
<1>1. MCInit => Inv
  <2> SUFFICES ASSUME Thumbs!ThumbnailsInit PROVE Inv
    BY DEF MCInit
  <2> QED BY DEF Thumbs!ThumbnailsInit
<1>2. ASSUME Inv, [MCNext]_vars PROVE Inv'
  <2>1. \A l \in ThumbnailLoads, s \in {"extract", "set"} : [loading[l] EXCEPT !.at = s] \in Loads
    BY <1>2
  <2>2. Thumbs!NoLoad \in Loads
    OBVIOUS
  <2>3. ASSUME NEW l \in ThumbnailLoads, Thumbs!StartLoad(l) PROVE Inv'
    <3>1. loading' = [loading EXCEPT ![l] = [loading[l] EXCEPT !.at = "extract"]]
      BY <1>2, <2>3 DEF Thumbs!StartLoad
    <3> QED BY <1>2, <2>1, <2>3, <3>1 DEF Thumbs!StartLoad, Thumbs!Overlaps, Thumbs!ThumbnailsBusy
  <2>4. ASSUME NEW l \in ThumbnailLoads, NEW image \in Images \cup {""}, Thumbs!Extracted(l, image)
        PROVE  Inv'
    BY <1>2, <2>4 DEF Thumbs!Extracted
  <2>5. ASSUME NEW l \in ThumbnailLoads, Thumbs!LoadFails(l) PROVE Inv'
    BY <1>2, <2>5 DEF Thumbs!LoadFails
  <2>6. ASSUME NEW l \in ThumbnailLoads, Thumbs!WriteThumbnailFile(l) PROVE Inv'
    <3>1. loading' = [loading EXCEPT ![l] = [loading[l] EXCEPT !.at = "set"]]
      BY <1>2, <2>6 DEF Thumbs!WriteThumbnailFile
    <3>2. loading[l].image \in Images \cup {"none", ""}
      BY <1>2
    <3> QED BY <1>2, <2>1, <2>6, <3>1, <3>2 DEF Thumbs!WriteThumbnailFile, Thumbs!FileOf
  <2>7. ASSUME NEW l \in ThumbnailLoads, Thumbs!SetPrinterThumbnail(l) PROVE Inv'
    <3>1. loading[l].image \in Images \cup {"none", ""}
      BY <1>2
    <3> QED BY <1>2, <2>2, <2>7, <3>1 DEF Thumbs!SetPrinterThumbnail
  <2>8. CASE Thumbs!SwitchSupport \/ Thumbs!ApplySupport
    BY <1>2, <2>8 DEF Thumbs!SwitchSupport, Thumbs!ApplySupport, Thumbs!LoadedCache, Thumbs!Overlaps,
                      Thumbs!ThumbnailsBusy
  <2>9. CASE Thumbs!ThumbnailPrinterDeleted \/ Thumbs!ThumbnailsRestart
    BY <1>2, <2>2, <2>9 DEF Thumbs!ThumbnailPrinterDeleted, Thumbs!ThumbnailsRestart,
                            Thumbs!LoadedCache,
       Thumbs!Overlaps, Thumbs!ThumbnailsBusy
  <2>10. CASE UNCHANGED thumbnailVars
    BY <1>2, <2>10 DEF thumbnailVars
  <2> HIDE DEF Inv
  <2> QED BY <1>2, <2>3, <2>4, <2>5, <2>6, <2>7, <2>8, <2>9, <2>10, Framed DEF Thumbs!ThumbnailsNext
<1> QED BY <1>1, <1>2, PTL DEF MCSpec

LEMMA BundleTyped == MCSpec => []Client!BundleTypeOK
<1> DEFINE Versions == Releases \cup {0, MinimumRelease}
           Goings == [at : {"idle", "download", "readdir", "clear"}, target : Versions, todo : SUBSET Client!Parts]
<1> USE DEF Client!BundleTypeOK
<1>1. MCInit => Client!BundleTypeOK
  <2> SUFFICES ASSUME Client!BundleInit PROVE Client!BundleTypeOK
    BY DEF MCInit
  <2>1. Client!NoUpdate \in Goings
    BY DEF Client!NoUpdate
  <2> QED BY <2>1 DEF Client!BundleInit
<1>2. ASSUME Client!BundleTypeOK, [MCNext]_vars PROVE Client!BundleTypeOK'
  <2>1. ASSUME NEW u \in Client!Updaters, NEW s \in Goings, updating' = [updating EXCEPT ![u] = s],
               bundle' \in [Client!Parts -> Versions], updatesOverlapped' \in BOOLEAN
        PROVE  Client!BundleTypeOK'
    BY <1>2, <2>1
  <2>2. ASSUME NEW requested \in Releases \cup {0}, NEW downgrade \in BOOLEAN
        PROVE  Client!Target(requested, downgrade) \in Versions
    BY DEF Client!Target, Client!Greater
  <2>3. ASSUME NEW u \in Client!Updaters, NEW target \in Versions, Client!UpdateStarts(u, target)
        PROVE  Client!BundleTypeOK'
    <3>1. [at |-> "download", target |-> target, todo |-> {}] \in Goings
      OBVIOUS
    <3> QED BY <1>2, <2>1, <2>3, <3>1 DEF Client!UpdateStarts
  <2>4. CASE Client!BootUpdates
    BY <2>2, <2>3, <2>4 DEF Client!BootUpdates, Client!Updaters
  <2>5. ASSUME NEW requested \in Releases \cup {0}, NEW downgrade \in BOOLEAN,
               Client!RequestUpdates(requested, downgrade)
        PROVE  Client!BundleTypeOK'
    BY <2>2, <2>3, <2>5 DEF Client!RequestUpdates, Client!Updaters
  <2>6. ASSUME NEW u \in Client!Updaters
        PROVE  /\ Client!NoUpdate \in Goings /\ updating[u].target \in Versions
               /\ \A at \in {"readdir", "clear"}, todo \in SUBSET Client!Parts :
                    [at |-> at, target |-> updating[u].target, todo |-> todo] \in Goings
               /\ \A parts : Client!BundleWith(u, parts) \in [Client!Parts -> Versions]
    <3>1. updating[u].target \in Versions
      BY <1>2
    <3> QED BY <1>2, <3>1 DEF Client!NoUpdate, Client!BundleWith
  <2>7. ASSUME NEW u \in Client!Updaters, Client!Downloaded(u) \/ Client!DownloadFails(u) \/ Client!ReadDir(u)
        PROVE  Client!BundleTypeOK'
    <3>1. \E s \in Goings : updating' = [updating EXCEPT ![u] = s]
      <4>1. {p \in Client!Parts : bundle[p] # 0} \in SUBSET Client!Parts
        OBVIOUS
      <4> QED BY <2>6, <2>7, <4>1
           DEF Client!Downloaded, Client!DownloadFails, Client!ReadDir, Client!UpdateGoes
    <3>2. bundle' = bundle /\ updatesOverlapped' = updatesOverlapped
      BY <2>7 DEF Client!Downloaded, Client!DownloadFails, Client!ReadDir
    <3> QED BY <1>2, <2>1, <3>1, <3>2
  <2>8. ASSUME NEW u \in Client!Updaters, NEW p \in Client!Parts, Client!RemovePart(u, p)
        PROVE  Client!BundleTypeOK'
    <3>1. updating[u].todo \ {p} \in SUBSET Client!Parts
      BY <1>2
    <3>2. \E s \in Goings : updating' = [updating EXCEPT ![u] = s]
      BY <2>6, <2>8, <3>1 DEF Client!RemovePart, Client!UpdateGoes
    <3>3. bundle' \in [Client!Parts -> Versions] /\ updatesOverlapped' = updatesOverlapped
      BY <1>2, <2>8 DEF Client!RemovePart
    <3> QED BY <1>2, <2>1, <3>2, <3>3
  <2>9. ASSUME NEW u \in Client!Updaters, Client!ExtractBundle(u) PROVE Client!BundleTypeOK'
    <3>1. bundle' \in [Client!Parts -> Versions] /\ updatesOverlapped' = updatesOverlapped
      BY <2>6, <2>9 DEF Client!ExtractBundle
    <3> QED BY <1>2, <2>1, <2>6, <2>9, <3>1 DEF Client!ExtractBundle
  <2>10. CASE Client!BundleCrash
    <3>1. bundle' \in [Client!Parts -> Versions]
      BY <1>2, <2>6, <2>10 DEF Client!BundleCrash
    <3>2. updating' \in [Client!Updaters -> Goings]
      BY <2>6, <2>10 DEF Client!BundleCrash
    <3> QED BY <1>2, <2>10, <3>1, <3>2 DEF Client!BundleCrash
  <2>11. CASE UNCHANGED bundleVars
    BY <1>2, <2>11 DEF bundleVars
  <2> HIDE DEF Client!BundleTypeOK
  <2> QED BY <1>2, <2>4, <2>5, <2>7, <2>8, <2>9, <2>10, <2>11, Framed DEF Client!BundleNext
<1> QED BY <1>1, <1>2, PTL DEF MCSpec

LEMMA WatchersTyped == MCSpec => []Watchers!IoTypeOK
<1> USE Bounds DEF Watchers!IoTypeOK, Watchers!FirstMoment, Watchers!NoUpdate, Watchers!NotConnected
<1>1. MCInit => Watchers!IoTypeOK
  <2> SUFFICES ASSUME Watchers!IoInit PROVE Watchers!IoTypeOK
    BY DEF MCInit
  <2>1. moment = 2 /\ 2 \in 2..MaxMoments
    BY DEF Watchers!IoInit
  <2>2. stateUpdate \in [Watchers!Askers -> {0} \cup 2..moment] /\ shown \in [IoClients -> 0..moment]
    BY <2>1 DEF Watchers!IoInit
  <2> QED BY <2>1, <2>2 DEF Watchers!IoInit
<1>2. ASSUME Watchers!IoTypeOK, [MCNext]_vars PROVE Watchers!IoTypeOK'
  <2>1. ASSUME NEW to \in [IoClients -> 0..moment], NEW begun, Watchers!Send(to, begun)
        PROVE  shown' \in [IoClients -> 0..moment]
    BY <1>2, <2>1 DEF Watchers!Send, Watchers!ReadAt
  <2>2. ASSUME NEW a \in Watchers!Askers, NEW to \in [IoClients -> 0..moment], Watchers!SendUpdate(a, to)
        PROVE  Watchers!IoTypeOK'
    <3>1. shown' \in [IoClients -> 0..moment]
      BY <2>1, <2>2 DEF Watchers!SendUpdate
    <3>2. stateUpdate' \in [Watchers!Askers -> {0} \cup 2..moment]
      BY <1>2, <2>2 DEF Watchers!SendUpdate
    <3> QED BY <1>2, <2>2, <3>1, <3>2 DEF Watchers!SendUpdate
  <2>3. CASE Watchers!StateChanges
    <3>1. moment' = moment + 1 /\ moment' \in 2..MaxMoments
      BY <1>2, <2>3 DEF Watchers!StateChanges
    <3>2. 0..moment \subseteq 0..moment' /\ 2..moment \subseteq 2..moment'
      BY <1>2, <3>1
    <3> QED BY <1>2, <2>3, <3>1, <3>2 DEF Watchers!StateChanges
  <2>4. CASE Watchers!FloorsDeleted \/ Watchers!AttachServer
    BY <1>2, <2>4 DEF Watchers!FloorsDeleted, Watchers!AttachServer
  <2>5. CASE Watchers!Run
    BY <1>2, <2>2, <2>5 DEF Watchers!Run, Watchers!Askers
  <2>6. ASSUME NEW a \in Watchers!Askers, Watchers!FloorsLoaded(a) PROVE Watchers!IoTypeOK'
    <3>1. shown' \in [IoClients -> 0..moment]
      BY <1>2, <2>1, <2>6 DEF Watchers!FloorsLoaded
    <3> QED BY <1>2, <2>6, <3>1 DEF Watchers!FloorsLoaded
  <2>7. ASSUME NEW a \in Watchers!Askers, Watchers!FloorsFail(a) PROVE Watchers!IoTypeOK'
    BY <1>2, <2>7 DEF Watchers!FloorsFail
  <2>8. ASSUME NEW c \in IoClients, Watchers!OnConnect(c) PROVE Watchers!IoTypeOK'
    <3>1. [shown EXCEPT ![c] = Watchers!NothingYet] \in [IoClients -> 0..moment]
      BY <1>2 DEF Watchers!NothingYet
    <3> QED BY <2>2, <2>8, <3>1 DEF Watchers!OnConnect, Watchers!Askers
  <2>9. ASSUME NEW c \in IoClients, Watchers!Disconnect(c) PROVE Watchers!IoTypeOK'
    BY <1>2, <2>9 DEF Watchers!Disconnect
  <2>10. CASE UNCHANGED ioVars
    BY <1>2, <2>10 DEF ioVars
  <2> HIDE DEF Watchers!IoTypeOK
  <2> QED BY <1>2, <2>3, <2>4, <2>5, <2>6, <2>7, <2>8, <2>9, <2>10, Framed DEF Watchers!IoNext
<1> QED BY <1>1, <1>2, PTL DEF MCSpec

LEMMA FilesTyped == MCSpec => []Files!FilesTypeOK
<1> DEFINE Inv == FilesInv /\ filesTrouble \subseteq {"upload", "other"}
<1>1. MCInit => Inv
  BY FilesStart DEF MCInit, Files!FilesInit
<1>2. ASSUME Inv, [MCNext]_vars PROVE Inv'
  <2>1. FilesInv'
    BY <1>2, Framed, FilesKeep
  <2>2. CASE UNCHANGED filesVars
    BY <1>2, <2>1, <2>2 DEF filesVars
  <2>3. ASSUME NEW r \in FileRequests, NEW plan, NEW f, NEW kind, Files!StartFiling(r, plan, f, kind)
        PROVE  filesTrouble' \subseteq {"upload", "other"}
    BY <1>2, <2>3 DEF Files!StartFiling
  <2>4. ASSUME NEW r \in FileRequests, Files!ListFails(r)
        PROVE  filesTrouble' \subseteq {"upload", "other"}
    BY <1>2, <2>4 DEF Files!ListFails
  <2>5. ASSUME NEW f \in GcodeFiles, NEW age, Files!ByHand(f, age)
        PROVE  filesTrouble' \subseteq {"upload", "other"}
    BY <1>2, <2>5 DEF Files!ByHand
  <2>6. CASE Files!FilesRestart \/ Files!Age \/ Files!PurgeFiles
    BY <1>2, <2>1, <2>6 DEF Files!FilesRestart, Files!Age, Files!PurgeFiles
  <2>7. ASSUME NEW r \in FileRequests,
               \/ Files!ListDevice(r) \/ Files!CacheFiles(r) \/ Files!CheckOutdated(r) \/ Files!CleanOutdated(r)
               \/ Files!ListAll(r) \/ Files!RemoveEnds(r) \/ \E f \in GcodeFiles, ok \in BOOLEAN : Files!RemoveFile(r, f, ok)
               \/ Files!DeleteOnDevice(r) \/ Files!UploadToDevice(r) \/ Files!DeviceRefuses(r) \/ Files!PurgeFile(r)
               \/ Files!PurgePrinterFiles(r)
        PROVE  filesTrouble' = filesTrouble
    BY <2>7 DEF Files!ListDevice, Files!CacheFiles, Files!CheckOutdated, Files!CleanOutdated,
                Files!ListAll,
       Files!RemoveEnds, Files!RemoveFile, Files!DeleteOnDevice, Files!UploadToDevice, Files!DeviceRefuses,
       Files!PurgeFile, Files!PurgePrinterFiles
  <2>8. [Files!FilesNext]_filesVars
    BY <1>2, Framed
  <2> QED BY <1>2, <2>1, <2>2, <2>3, <2>4, <2>5, <2>6, <2>7, <2>8
       DEF Files!FilesNext, Files!GetFiles, Files!ClearPrinterFiles, Files!BootClean, Files!DeleteFile,
           Files!UploadPrinterFile
<1>3. Inv => Files!FilesTypeOK
  BY DEF FilesInv, Filings, Files!FilesTypeOK
<1> QED BY <1>1, <1>2, <1>3, PTL DEF MCSpec

\* Tables of rows that hold printers which are there, and what a well-formed database is by them.
PrinterTable(P) == Import!IsTable(P) /\ \A i \in DOMAIN P : P[i] = [name |-> P[i].name]
HolderTable(T, P) ==
  /\ Import!IsTable(T)
  /\ \A i \in DOMAIN T : T[i] = [name |-> T[i].name, printers |-> T[i].printers] /\ T[i].printers \subseteq DOMAIN P
OneFloorEach(F) == \A f, g \in DOMAIN F : f # g => F[f].printers \cap F[g].printers = {}

LEMMA WellFormedIs ==
  ASSUME NEW P, NEW F, NEW G, PrinterTable(P), HolderTable(F, P), HolderTable(G, P), OneFloorEach(F)
  PROVE  Import!WellFormed([printers |-> P, floors |-> F, groups |-> G])
<1> DEFINE d == [printers |-> P, floors |-> F, groups |-> G]
<1>1. d.printers = P /\ d.floors = F /\ d.groups = G /\ d = [printers |-> d.printers, floors |-> d.floors, groups |-> d.groups]
  OBVIOUS
<1> HIDE DEF d
<1>2. Import!HasTables(d)
  BY <1>1 DEF Import!HasTables, PrinterTable, HolderTable
<1>3. Import!WellFormed(d)
  BY <1>1, <1>2 DEF Import!WellFormed, HolderTable, OneFloorEach
<1> QED BY <1>3 DEF d

LEMMA WellFormedHas ==
  ASSUME Import!WellFormed(db)
  PROVE  /\ db = [printers |-> db.printers, floors |-> db.floors, groups |-> db.groups]
         /\ PrinterTable(db.printers) /\ HolderTable(db.floors, db.printers) /\ HolderTable(db.groups, db.printers)
         /\ OneFloorEach(db.floors)
BY DEF Import!WellFormed, Import!HasTables, PrinterTable, HolderTable, OneFloorEach

LEMMA PutHolder ==
  ASSUME NEW T, NEW P, HolderTable(T, P), NEW i \in Import!Ids, NEW name, NEW printers \in SUBSET DOMAIN P
  PROVE  HolderTable(Import!Put(T, i, [name |-> name, printers |-> printers]), P)
<1> DEFINE new == [name |-> name, printers |-> printers]
           U == Import!Put(T, i, new)
<1>1. DOMAIN U = DOMAIN T \cup {i} /\ U = [j \in DOMAIN U |-> U[j]] /\ U[i] = new /\ \A j \in DOMAIN T : j # i => U[j] = T[j]
  BY DEF Import!Put
<1>2. new.name = name /\ new.printers = printers /\ new = [name |-> new.name, printers |-> new.printers]
  OBVIOUS
<1> HIDE DEF new, U
<1>3. HolderTable(U, P)
  BY <1>1, <1>2 DEF HolderTable, Import!IsTable
<1> QED BY <1>3 DEF U, new

\* Some printers are taken from all rows, some rows are left.
WithoutAny(T, printers) == [i \in DOMAIN T |-> [T[i] EXCEPT !.printers = @ \ printers]]

LEMMA TakenFromHolders ==
  ASSUME NEW T, NEW P, HolderTable(T, P), NEW printers, NEW Q, \A i \in DOMAIN T : T[i].printers \ printers \subseteq DOMAIN Q
  PROVE  /\ HolderTable(WithoutAny(T, printers), Q) /\ DOMAIN WithoutAny(T, printers) = DOMAIN T
         /\ \A i \in DOMAIN T : WithoutAny(T, printers)[i].printers = T[i].printers \ printers
<1> DEFINE U == WithoutAny(T, printers)
<1>1. DOMAIN U = DOMAIN T /\ U = [i \in DOMAIN U |-> U[i]]
  BY DEF WithoutAny
<1>2. ASSUME NEW i \in DOMAIN T
      PROVE  U[i].printers = T[i].printers \ printers /\ U[i] = [name |-> U[i].name, printers |-> U[i].printers]
  <2>1. T[i] = [name |-> T[i].name, printers |-> T[i].printers]
    BY DEF HolderTable
  <2>2. U[i] = [T[i] EXCEPT !.printers = @ \ printers]
    BY DEF WithoutAny
  <2> HIDE DEF U
  <2>3. U[i] = [name |-> T[i].name, printers |-> T[i].printers \ printers]
    BY <2>1, <2>2
  <2> QED BY <2>3
<1> HIDE DEF U
<1>3. HolderTable(U, Q)
  BY <1>1, <1>2 DEF HolderTable, Import!IsTable
<1>4. HolderTable(U, Q) /\ DOMAIN U = DOMAIN T /\ \A i \in DOMAIN T : U[i].printers = T[i].printers \ printers
  BY <1>1, <1>2, <1>3
<1> QED BY <1>4 DEF U

LEMMA FewerHolders ==
  ASSUME NEW T, NEW P, HolderTable(T, P), NEW S
  PROVE  LET U == Import!Restrict(T, DOMAIN T \ S)
         IN  HolderTable(U, P) /\ DOMAIN U = DOMAIN T \ S /\ \A i \in DOMAIN U : U[i] = T[i]
<1> DEFINE U == Import!Restrict(T, DOMAIN T \ S)
<1>1. DOMAIN U = DOMAIN T \ S /\ U = [i \in DOMAIN U |-> U[i]] /\ \A i \in DOMAIN U : U[i] = T[i]
  BY DEF Import!Restrict
<1> HIDE DEF U
<1>2. HolderTable(U, P)
  BY <1>1 DEF HolderTable, Import!IsTable
<1>3. HolderTable(U, P) /\ DOMAIN U = DOMAIN T \ S /\ \A i \in DOMAIN U : U[i] = T[i]
  BY <1>1, <1>2
<1> QED BY <1>3 DEF U

\* An import on its way has its parts, plans of rows of the file, and a map to ids.
OfFile(todo, imported) ==
  /\ todo = [insert |-> todo.insert, update |-> todo.update]
  /\ todo.insert \subseteq DOMAIN imported /\ DOMAIN todo.update \subseteq DOMAIN imported
ImportGoing ==
  /\ importing = [at |-> importing.at, printers |-> importing.printers, floors |-> importing.floors,
                  groups |-> importing.groups, printerIdMap |-> importing.printerIdMap,
                  group |-> importing.group, remove |-> importing.remove, add |-> importing.add,
                  before |-> importing.before]
  /\ importing.at # "idle" /\ \A i \in DOMAIN importing.printerIdMap : importing.printerIdMap[i] \in Import!Ids
  /\ OfFile(importing.printers, yaml.printers) /\ OfFile(importing.floors, yaml.floors)
  /\ OfFile(importing.groups, yaml.groups)
ImportTypes ==
  /\ Import!WellFormed(yaml) /\ Import!WellFormed(db)
  /\ importing # Import!NoImport => ImportGoing

LEMMA FileGoesOn ==
  ASSUME NEW todo, NEW imported, OfFile(todo, imported), NEW i
  PROVE  /\ OfFile([todo EXCEPT !.insert = @ \ {i}], imported)
         /\ OfFile([todo EXCEPT !.update = Import!Restrict(@, DOMAIN @ \ {i})], imported)
<1> DEFINE more == [todo EXCEPT !.insert = @ \ {i}]
           rest == [j \in DOMAIN todo.update \ {i} |-> todo.update[j]]
           next == [todo EXCEPT !.update = Import!Restrict(@, DOMAIN @ \ {i})]
<1>1. more = [insert |-> todo.insert \ {i}, update |-> todo.update]
  BY DEF OfFile
<1>2. next = [insert |-> todo.insert, update |-> rest] /\ DOMAIN rest = DOMAIN todo.update \ {i}
  BY DEF OfFile, Import!Restrict
<1> HIDE DEF more, next, rest
<1>3. OfFile(more, imported) /\ OfFile(next, imported)
  BY <1>1, <1>2 DEF OfFile
<1> QED BY <1>3 DEF more, next

LEMMA PlansOfFile ==
  ASSUME NEW imported, NEW table, DOMAIN table \subseteq Import!Ids, DOMAIN imported \subseteq Import!Ids
  PROVE  OfFile(Import!Upserts(imported, table), imported) /\ OfFile(Import!GroupUpserts(imported, table), imported)
<1>1. \A todo : PlanOf(todo, imported, table) => OfFile(todo, imported)
  BY DEF PlanOf, OfFile
<1>2. PlanOf(Import!Upserts(imported, table), imported, table)
  BY UpsertsPlan
<1>3. PlanOf(Import!GroupUpserts(imported, table), imported, table)
  BY GroupUpsertsPlan
<1> QED BY <1>1, <1>2, <1>3

LEMMA ImportTyped == MCSpec => []Import!YamlTypeOK
<1>1. MCInit => ImportTypes
  <2> SUFFICES ASSUME Import!YamlInit PROVE ImportTypes
    BY DEF MCInit
  <2> QED BY TablesAreWellFormed DEF Import!YamlInit, ImportTypes
<1>2. ASSUME ImportTypes, [MCNext]_vars PROVE ImportTypes'
  <2>1. /\ Import!WellFormed(yaml) /\ Import!HasTables(yaml) /\ Import!HasTables(db) /\ UNCHANGED yaml
        /\ Import!WellFormed(yaml')
    BY <1>2, Framed, Disturbed DEF ImportTypes, Import!WellFormed
  <2>2. /\ db = [printers |-> db.printers, floors |-> db.floors, groups |-> db.groups]
        /\ PrinterTable(db.printers) /\ HolderTable(db.floors, db.printers) /\ HolderTable(db.groups, db.printers)
        /\ OneFloorEach(db.floors)
    BY <1>2, WellFormedHas DEF ImportTypes
  <2>3. /\ DOMAIN db.printers \subseteq Import!Ids /\ DOMAIN db.floors \subseteq Import!Ids /\ DOMAIN db.groups \subseteq Import!Ids
        /\ DOMAIN yaml.printers \subseteq Import!Ids /\ DOMAIN yaml.floors \subseteq Import!Ids /\ DOMAIN yaml.groups \subseteq Import!Ids
    BY <2>1 DEF Import!HasTables, Import!IsTable
  <2>4. \A at : importing.at = at /\ at # "idle" => ImportGoing
    BY <1>2 DEF ImportTypes, Import!NoImport
  \* What goes on of an import leaves its other parts.
  <2>5. ASSUME ImportGoing, NEW at, at # "idle", NEW printers, NEW floors, NEW groups, NEW M, NEW group, NEW remove, NEW add,
               OfFile(printers, yaml.printers), OfFile(floors, yaml.floors), OfFile(groups, yaml.groups),
               \A i \in DOMAIN M : M[i] \in Import!Ids,
               importing' = [at |-> at, printers |-> printers, floors |-> floors, groups |-> groups, printerIdMap |-> M,
                             group |-> group, remove |-> remove, add |-> add, before |-> importing.before]
        PROVE  ImportGoing'
    BY <2>1, <2>5 DEF ImportGoing
  <2>6. CASE Import!StartImport
    <3> DEFINE todo == Import!Upserts(yaml.printers, db.printers)
    <3>1. /\ importing' = [at |-> "printers", printers |-> todo, floors |-> Import!NoUpserts, groups |-> Import!NoUpserts,
                           printerIdMap |-> Import!NoRows, group |-> 0, remove |-> {}, add |-> {}, before |-> db]
          /\ db' = db
      BY <2>6 DEF Import!StartImport
    <3>2. OfFile(todo, yaml.printers)
      BY <2>3, PlansOfFile
    <3>3. \A imported : OfFile(Import!NoUpserts, imported)
      BY DEF OfFile, Import!NoUpserts, Import!NoRows
    <3> HIDE DEF todo
    <3>4. ImportGoing'
      BY <2>1, <3>1, <3>2, <3>3 DEF ImportGoing, Import!NoRows
    <3> QED BY <1>2, <2>1, <3>1, <3>4 DEF ImportTypes
  <2>7. CASE Import!AnalyseFloors
    <3> DEFINE todo == Import!Upserts(yaml.floors, db.floors)
    <3>1. /\ ImportGoing /\ importing' = [importing EXCEPT !.at = "floors", !.floors = todo] /\ db' = db
      BY <2>4, <2>7 DEF Import!AnalyseFloors
    <3>2. OfFile(todo, yaml.floors)
      BY <2>3, PlansOfFile
    <3> HIDE DEF todo
    <3>3. ImportGoing'
      <4>1. importing' = [at |-> "floors", printers |-> importing.printers, floors |-> todo, groups |-> importing.groups,
                          printerIdMap |-> importing.printerIdMap, group |-> importing.group, remove |-> importing.remove,
                          add |-> importing.add, before |-> importing.before]
        BY <3>1 DEF ImportGoing
      <4> QED BY <2>5, <3>1, <3>2, <4>1 DEF ImportGoing
    <3> QED BY <1>2, <2>1, <3>1, <3>3 DEF ImportTypes
  <2>8. CASE Import!AnalyseGroups
    <3> DEFINE todo == Import!GroupUpserts(yaml.groups, db.groups)
    <3>1. /\ ImportGoing /\ importing' = [importing EXCEPT !.at = "write", !.groups = todo] /\ db' = db
      BY <2>4, <2>8 DEF Import!AnalyseGroups
    <3>2. OfFile(todo, yaml.groups)
      BY <2>3, PlansOfFile
    <3> HIDE DEF todo
    <3>3. ImportGoing'
      <4>1. importing' = [at |-> "write", printers |-> importing.printers, floors |-> importing.floors, groups |-> todo,
                          printerIdMap |-> importing.printerIdMap, group |-> importing.group, remove |-> importing.remove,
                          add |-> importing.add, before |-> importing.before]
        BY <3>1 DEF ImportGoing
      <4> QED BY <2>5, <3>1, <3>2, <4>1 DEF ImportGoing
    <3> QED BY <1>2, <2>1, <3>1, <3>3 DEF ImportTypes
  <2>9. ASSUME NEW part \in {"printers", "floors", "groups"}, Import!Writing(part)
        PROVE  ImportGoing /\ importing.at = "write"
    BY <2>4, <2>9 DEF Import!Writing
  \* What is inserted first is a row of the file.
  <2>10. ASSUME NEW todo, NEW imported, OfFile(todo, imported), DOMAIN imported \subseteq Import!Ids, todo.insert # {}
         PROVE  Import!First(todo.insert) \in DOMAIN imported
    BY <2>10, FirstIs DEF OfFile
  <2>11. ASSUME NEW i \in Import!Ids, Import!InsertPrinter(i) PROVE ImportTypes'
    <3> DEFINE n == Import!NewId(db.printers)
               todo == [importing.printers EXCEPT !.insert = @ \ {i}]
               printers == Import!Put(db.printers, n, yaml.printers[i])
               M == Import!Put(importing.printerIdMap, i, n)
    <3>1. /\ Import!Writing("printers") /\ Import!HasRoom(db.printers) /\ importing.printers.insert # {}
          /\ i = Import!First(importing.printers.insert)
      BY <2>11 DEF Import!InsertPrinter, Import!Upcoming
    <3>2. ImportGoing /\ importing.at = "write"
      BY <2>9, <3>1
    <3>3. i \in DOMAIN yaml.printers
      BY <2>3, <2>10, <3>1, <3>2 DEF ImportGoing
    <3>4. n \in Import!Ids \ DOMAIN db.printers
      BY <2>3, <3>1, NewIdIs
    <3>5. importing' = [importing EXCEPT !.printers = todo, !.printerIdMap = M]
      BY <2>11, <3>2 DEF Import!InsertPrinter, Import!Inserted, ImportGoing
    <3>6. db' = [printers |-> printers, floors |-> db.floors, groups |-> db.groups]
      BY <2>2, <2>11 DEF Import!InsertPrinter
    <3>7. OfFile(todo, yaml.printers)
      BY <3>2, FileGoesOn DEF ImportGoing
    <3> HIDE DEF n, todo
    <3>8. \A j \in DOMAIN M : M[j] \in Import!Ids
      BY <3>2, <3>4 DEF ImportGoing, Import!Put
    <3>9. /\ DOMAIN printers = DOMAIN db.printers \cup {n} /\ printers = [j \in DOMAIN printers |-> printers[j]]
          /\ printers[n] = yaml.printers[i] /\ \A j \in DOMAIN db.printers : printers[j] = db.printers[j]
      BY <3>4 DEF Import!Put
    <3> HIDE DEF printers, M
    <3>10. PrinterTable(printers)
      BY <2>1, <2>2, <3>3, <3>4, <3>9 DEF PrinterTable, Import!IsTable, Import!HasTables
    <3>11. HolderTable(db.floors, printers) /\ HolderTable(db.groups, printers)
      BY <2>2, <3>9 DEF HolderTable
    <3>12. Import!WellFormed(db')
      BY <2>2, <3>6, <3>10, <3>11, WellFormedIs
    <3>13. ImportGoing'
      <4>1. importing' = [at |-> importing.at, printers |-> todo, floors |-> importing.floors, groups |-> importing.groups,
                          printerIdMap |-> M, group |-> importing.group, remove |-> importing.remove, add |-> importing.add,
                          before |-> importing.before]
        BY <3>2, <3>5 DEF ImportGoing
      <4> QED BY <2>5, <3>2, <3>7, <3>8, <4>1 DEF ImportGoing
    <3> QED BY <2>1, <3>12, <3>13 DEF ImportTypes
  <2>12. ASSUME NEW i \in Import!Ids, Import!UpdatePrinter(i) PROVE ImportTypes'
    <3> DEFINE u == importing.printers.update[i]
               todo == [importing.printers EXCEPT !.update = Import!Restrict(@, DOMAIN @ \ {i})]
               printers == [db.printers EXCEPT ![u] = yaml.printers[i]]
               M == Import!Put(importing.printerIdMap, i, u)
    <3>1. Import!Writing("printers") /\ i \in DOMAIN importing.printers.update /\ u \in DOMAIN db.printers
      BY <2>12 DEF Import!UpdatePrinter, Import!Upcoming
    <3>2. ImportGoing /\ importing.at = "write"
      BY <2>9, <3>1
    <3>3. i \in DOMAIN yaml.printers
      BY <3>1, <3>2 DEF ImportGoing, OfFile
    <3>5. importing' = [importing EXCEPT !.printers = todo, !.printerIdMap = M]
      <4>0. todo = [importing.printers EXCEPT !.update = Import!Restrict(@, DOMAIN @ \ {i})]
        OBVIOUS
      <4> HIDE DEF todo
      <4>1. Import!UpdatedRow("printers", i) = [importing EXCEPT !.printers = todo]
        BY <4>0 DEF Import!UpdatedRow
      <4>2. importing' = [Import!UpdatedRow("printers", i) EXCEPT !.printerIdMap = M]
        <5>1. importing' = [Import!UpdatedRow("printers", i) EXCEPT !.printerIdMap = Import!Put(@, i, u)]
          BY <2>12 DEF Import!UpdatePrinter, Import!MappedTo
        <5> HIDE DEF u
        <5> QED BY <3>2, <4>1, <5>1 DEF ImportGoing
      <4> HIDE DEF M
      <4> QED BY <3>2, <4>1, <4>2 DEF ImportGoing
    <3>6. db' = [printers |-> printers, floors |-> db.floors, groups |-> db.groups]
      BY <2>2, <2>12 DEF Import!UpdatePrinter
    <3>7. OfFile(todo, yaml.printers)
      BY <3>2, FileGoesOn DEF ImportGoing
    <3> HIDE DEF todo, u
    <3>8. \A j \in DOMAIN M : M[j] \in Import!Ids
      BY <2>3, <3>1, <3>2 DEF ImportGoing, Import!Put
    <3>9. /\ DOMAIN printers = DOMAIN db.printers /\ printers = [j \in DOMAIN printers |-> printers[j]]
          /\ printers[u] = yaml.printers[i] /\ \A j \in DOMAIN db.printers : j # u => printers[j] = db.printers[j]
      BY <3>1
    <3> HIDE DEF printers, M
    <3>10. PrinterTable(printers)
      BY <2>1, <2>2, <3>3, <3>9 DEF PrinterTable, Import!IsTable, Import!HasTables
    <3>11. HolderTable(db.floors, printers) /\ HolderTable(db.groups, printers)
      BY <2>2, <3>9 DEF HolderTable
    <3>12. Import!WellFormed(db')
      BY <2>2, <3>6, <3>10, <3>11, WellFormedIs
    <3>13. ImportGoing'
      <4>1. importing' = [at |-> importing.at, printers |-> todo, floors |-> importing.floors, groups |-> importing.groups,
                          printerIdMap |-> M, group |-> importing.group, remove |-> importing.remove, add |-> importing.add,
                          before |-> importing.before]
        BY <3>2, <3>5 DEF ImportGoing
      <4> QED BY <2>5, <3>2, <3>7, <3>8, <4>1 DEF ImportGoing
    <3> QED BY <2>1, <3>12, <3>13 DEF ImportTypes
  \* Floors.
  <2>13. ASSUME ImportGoing, importing.at = "write", NEW i, NEW id \in Import!Ids, NEW part, Import!WriteFloor(part, i, id), NEW todo,
                OfFile(todo, yaml.floors), part = [importing EXCEPT !.floors = todo]
         PROVE  ImportTypes'
    <3> DEFINE ps == Import!Mapped(yaml.floors[i].printers)
               others == WithoutAny(db.floors, ps)
               floors == Import!Put(others, id, [name |-> yaml.floors[i].name, printers |-> ps])
    <3>1. ps \subseteq DOMAIN db.printers
      BY <2>13 DEF Import!WriteFloor
    <3>2. db' = [printers |-> db.printers, floors |-> floors, groups |-> db.groups] /\ importing' = [importing EXCEPT !.floors = todo]
      BY <2>2, <2>13 DEF Import!WriteFloor, Import!PlaceOn, WithoutAny
    <3>3. floors[id].printers = ps /\ \A f \in DOMAIN others : f # id => floors[f] = others[f]
      <4> HIDE DEF others, ps
      <4> QED BY DEF Import!Put
    <3>4. DOMAIN floors = DOMAIN others \cup {id}
      BY DEF Import!Put
    <3> HIDE DEF ps
    <3>5. /\ HolderTable(others, db.printers) /\ DOMAIN others = DOMAIN db.floors
          /\ \A f \in DOMAIN db.floors : others[f].printers = db.floors[f].printers \ ps
      <4>1. \A f \in DOMAIN db.floors : db.floors[f].printers \ ps \subseteq DOMAIN db.printers
        BY <2>2 DEF HolderTable
      <4> QED BY <2>2, <4>1, TakenFromHolders
    <3> HIDE DEF others
    <3>6. HolderTable(floors, db.printers)
      BY <3>1, <3>5, PutHolder
    <3> HIDE DEF floors
    <3>7. OneFloorEach(floors)
      <4> SUFFICES ASSUME NEW f \in DOMAIN floors, NEW g \in DOMAIN floors, f # g
                   PROVE  floors[f].printers \cap floors[g].printers = {}
        BY DEF OneFloorEach
      <4>1. \A h \in DOMAIN floors : h = id \/ (h \in DOMAIN db.floors /\ floors[h].printers = db.floors[h].printers \ ps)
        BY <3>3, <3>4, <3>5
      <4>2. floors[id].printers = ps
        BY <3>3
      <4> QED BY <2>2, <4>1, <4>2 DEF OneFloorEach
    <3>8. Import!WellFormed(db')
      BY <2>2, <3>2, <3>6, <3>7, WellFormedIs
    <3>9. ImportGoing'
      <4>1. importing' = [at |-> importing.at, printers |-> importing.printers, floors |-> todo, groups |-> importing.groups,
                          printerIdMap |-> importing.printerIdMap, group |-> importing.group, remove |-> importing.remove,
                          add |-> importing.add, before |-> importing.before]
        BY <2>13, <3>2 DEF ImportGoing
      <4> QED BY <2>5, <2>13, <4>1 DEF ImportGoing
    <3> QED BY <2>1, <3>8, <3>9 DEF ImportTypes
  <2>14. ASSUME NEW i \in Import!Ids, Import!InsertFloor(i) PROVE ImportTypes'
    <3> DEFINE todo == [importing.floors EXCEPT !.insert = @ \ {i}]
    <3>1. /\ Import!Writing("floors") /\ Import!HasRoom(db.floors)
          /\ Import!WriteFloor(Import!Inserted("floors", i), i, Import!NewId(db.floors))
      BY <2>14 DEF Import!InsertFloor
    <3>2. ImportGoing /\ importing.at = "write"
      BY <2>9, <3>1
    <3>3. Import!Inserted("floors", i) = [importing EXCEPT !.floors = todo]
      BY DEF Import!Inserted
    <3>4. OfFile(todo, yaml.floors) /\ Import!NewId(db.floors) \in Import!Ids
      BY <2>3, <3>1, <3>2, FileGoesOn, NewIdIs DEF ImportGoing
    <3> HIDE DEF todo
    <3> QED BY <2>13, <3>1, <3>2, <3>3, <3>4
  <2>15. ASSUME NEW i \in Import!Ids, Import!UpdateFloor(i) PROVE ImportTypes'
    <3> DEFINE todo == [importing.floors EXCEPT !.update = Import!Restrict(@, DOMAIN @ \ {i})]
               id == importing.floors.update[i]
    <3>1. /\ Import!Writing("floors") /\ id \in DOMAIN db.floors
          /\ Import!WriteFloor(Import!UpdatedRow("floors", i), i, id)
      BY <2>15 DEF Import!UpdateFloor
    <3>2. ImportGoing /\ importing.at = "write"
      BY <2>9, <3>1
    <3>3. OfFile(todo, yaml.floors) /\ id \in Import!Ids
      BY <2>3, <3>1, <3>2, FileGoesOn DEF ImportGoing
    <3>4. todo = [importing.floors EXCEPT !.update = Import!Restrict(@, DOMAIN @ \ {i})]
      OBVIOUS
    <3> HIDE DEF todo, id
    <3>5. Import!UpdatedRow("floors", i) = [importing EXCEPT !.floors = todo]
      BY <3>4 DEF Import!UpdatedRow
    <3> QED BY <2>13, <3>1, <3>2, <3>3, <3>5
  \* Groups.
  <2>16. ASSUME ImportGoing, importing.at = "write", NEW id \in Import!Ids, NEW name, NEW printers \in SUBSET DOMAIN db.printers,
                db' = [printers |-> db.printers, floors |-> db.floors,
                       groups |-> Import!Put(db.groups, id, [name |-> name, printers |-> printers])]
         PROVE  Import!WellFormed(db')
    BY <2>2, <2>16, PutHolder, WellFormedIs
  <2>17. ASSUME ImportGoing, importing.at = "write", NEW todo, OfFile(todo, yaml.groups), NEW group, NEW remove, NEW add,
                importing' = [importing EXCEPT !.groups = todo, !.group = group, !.remove = remove, !.add = add]
         PROVE  ImportGoing'
    <3>1. importing' = [at |-> importing.at, printers |-> importing.printers, floors |-> importing.floors, groups |-> todo,
                        printerIdMap |-> importing.printerIdMap, group |-> group, remove |-> remove,
                        add |-> add, before |-> importing.before]
      BY <2>17 DEF ImportGoing
    <3>2. /\ importing.at # "idle" /\ OfFile(importing.printers, yaml.printers) /\ OfFile(importing.floors, yaml.floors)
          /\ \A i \in DOMAIN importing.printerIdMap : importing.printerIdMap[i] \in Import!Ids
      BY <2>17 DEF ImportGoing
    <3> QED BY <2>5, <2>17, <3>1, <3>2
  <2>18. ASSUME NEW i \in Import!Ids, Import!CreateGroup(i) PROVE ImportTypes'
    <3> DEFINE id == Import!NewId(db.groups)
               todo == [importing.groups EXCEPT !.insert = @ \ {i}]
               members == Import!Mapped(yaml.groups[i].printers)
    <3>1. Import!Writing("groups") /\ Import!HasRoom(db.groups)
      BY <2>18 DEF Import!CreateGroup
    <3>2. ImportGoing /\ importing.at = "write"
      BY <2>9, <3>1
    <3>3. OfFile(todo, yaml.groups) /\ id \in Import!Ids
      BY <2>3, <3>1, <3>2, FileGoesOn, NewIdIs DEF ImportGoing
    <3>4. db' = [printers |-> db.printers, floors |-> db.floors,
                 groups |-> Import!Put(db.groups, id, [name |-> yaml.groups[i].name, printers |-> {}])]
      BY <2>2, <2>18 DEF Import!CreateGroup
    <3>5. importing' = [importing EXCEPT !.groups = todo, !.group = id, !.remove = importing.remove, !.add = members]
      <4>1. importing' = [importing EXCEPT !.groups = todo, !.group = id, !.add = members]
        BY <2>18, <3>2 DEF Import!CreateGroup, Import!Inserted, ImportGoing
      <4> HIDE DEF todo, id, members
      <4> QED BY <3>2, <4>1 DEF ImportGoing
    <3> HIDE DEF todo, id, members
    <3>6. Import!WellFormed(db')
      BY <2>16, <3>2, <3>3, <3>4
    <3> QED BY <2>1, <2>17, <3>2, <3>3, <3>5, <3>6 DEF ImportTypes
  <2>19. ASSUME NEW i \in Import!Ids, Import!CompareGroup(i) PROVE ImportTypes'
    <3> DEFINE id == importing.groups.update[i]
               todo == [importing.groups EXCEPT !.update = Import!Restrict(@, DOMAIN @ \ {i})]
               remove == db.groups[id].printers \ Import!Mapped(yaml.groups[i].printers)
               add == Import!Mapped(yaml.groups[i].printers) \ db.groups[id].printers
    <3>1. Import!Writing("groups") /\ db' = db
      BY <2>19 DEF Import!CompareGroup
    <3>2. ImportGoing /\ importing.at = "write"
      BY <2>9, <3>1
    <3>3. OfFile(todo, yaml.groups)
      BY <3>2, FileGoesOn DEF ImportGoing
    <3>4. importing' = [importing EXCEPT !.groups = todo, !.group = id, !.remove = remove, !.add = add]
      <4>0. todo = [importing.groups EXCEPT !.update = Import!Restrict(@, DOMAIN @ \ {i})]
        OBVIOUS
      <4> HIDE DEF todo
      <4>1. Import!UpdatedRow("groups", i) = [importing EXCEPT !.groups = todo]
        BY <4>0 DEF Import!UpdatedRow
      <4>2. importing' = [Import!UpdatedRow("groups", i) EXCEPT !.group = id, !.remove = remove, !.add = add]
        BY <2>19 DEF Import!CompareGroup
      <4> HIDE DEF id, remove, add
      <4> QED BY <3>2, <4>1, <4>2 DEF ImportGoing
    <3> HIDE DEF todo, id, remove, add
    <3> QED BY <1>2, <2>1, <2>17, <3>1, <3>2, <3>3, <3>4 DEF ImportTypes
  \* The group in progress loses or gets a member.
  <2>20. ASSUME importing.at = "write", importing.group \in DOMAIN db.groups, NEW remove, NEW add,
                importing' = [importing EXCEPT !.remove = remove, !.add = add],
                NEW printers \in SUBSET DOMAIN db.printers,
                db' = [db EXCEPT !.groups[importing.group].printers = printers]
         PROVE  ImportTypes'
    <3> DEFINE groups == [db.groups EXCEPT ![importing.group].printers = printers]
    <3>1. ImportGoing
      BY <2>4, <2>20
    <3>3. db' = [printers |-> db.printers, floors |-> db.floors, groups |-> groups]
      BY <2>2, <2>20
    <3>4. HolderTable(groups, db.printers)
      <4>1. /\ DOMAIN groups = DOMAIN db.groups /\ groups = [j \in DOMAIN groups |-> groups[j]]
            /\ groups[importing.group] = [db.groups[importing.group] EXCEPT !.printers = printers]
            /\ \A j \in DOMAIN db.groups \ {importing.group} : groups[j] = db.groups[j]
        BY <2>20
      <4> HIDE DEF groups
      <4>2. groups[importing.group] = [name |-> db.groups[importing.group].name, printers |-> printers]
        BY <2>2, <2>20, <4>1 DEF HolderTable
      <4>3. ASSUME NEW j \in DOMAIN groups
            PROVE  groups[j] = [name |-> groups[j].name, printers |-> groups[j].printers] /\ groups[j].printers \subseteq DOMAIN db.printers
        <5>1. CASE j = importing.group
          BY <4>2, <5>1
        <5>2. CASE j # importing.group
          BY <2>2, <4>1, <5>2 DEF HolderTable
        <5> QED BY <5>1, <5>2
      <4> QED BY <2>2, <4>1, <4>3 DEF HolderTable, Import!IsTable
    <3> HIDE DEF groups
    <3>5. Import!WellFormed(db')
      BY <2>2, <3>3, <3>4, WellFormedIs
    <3>7. ImportGoing'
      <4>1. importing' = [at |-> importing.at, printers |-> importing.printers, floors |-> importing.floors,
                          groups |-> importing.groups, printerIdMap |-> importing.printerIdMap, group |-> importing.group,
                          remove |-> remove, add |-> add, before |-> importing.before]
        BY <2>20, <3>1 DEF ImportGoing
      <4> QED BY <2>5, <3>1, <4>1 DEF ImportGoing
    <3> QED BY <2>1, <3>5, <3>7 DEF ImportTypes
  <2>21. ASSUME NEW p \in Import!Ids, Import!RemovePrinterFromGroup(p) PROVE ImportTypes'
    <3> DEFINE printers == db.groups[importing.group].printers \ {p}
               remove == importing.remove \ {p}
    <3>1. /\ importing.at = "write" /\ importing.group \in DOMAIN db.groups /\ importing' = [importing EXCEPT !.remove = remove]
          /\ db' = [db EXCEPT !.groups[importing.group].printers = printers]
      BY <2>21 DEF Import!RemovePrinterFromGroup
    <3>2. printers \in SUBSET DOMAIN db.printers
      BY <2>2, <3>1 DEF HolderTable
    <3> HIDE DEF printers, remove
    <3>3. importing' = [importing EXCEPT !.remove = remove, !.add = importing.add]
      BY <2>4, <3>1 DEF ImportGoing
    <3> QED BY <2>20, <3>1, <3>2, <3>3
  <2>22. ASSUME NEW p \in Import!Ids, Import!AddPrinterToGroup(p) PROVE ImportTypes'
    <3> DEFINE printers == db.groups[importing.group].printers \cup {p}
               add == importing.add \ {p}
    <3>1. /\ importing.at = "write" /\ importing.group \in DOMAIN db.groups /\ importing' = [importing EXCEPT !.add = add]
          /\ db' = [db EXCEPT !.groups[importing.group].printers = printers] /\ p \in DOMAIN db.printers
      BY <2>22 DEF Import!AddPrinterToGroup
    <3>2. printers \in SUBSET DOMAIN db.printers
      BY <2>2, <3>1 DEF HolderTable
    <3> HIDE DEF printers, add
    <3>3. importing' = [importing EXCEPT !.remove = importing.remove, !.add = add]
      BY <2>4, <3>1 DEF ImportGoing
    <3> QED BY <2>20, <3>1, <3>2, <3>3
  <2>23. CASE Import!GroupDone
    <3>1. importing.at = "write" /\ importing' = [importing EXCEPT !.group = 0] /\ db' = db
      BY <2>23 DEF Import!GroupDone
    <3>2. ImportGoing
      BY <2>4, <3>1
    <3>3. importing' = [at |-> importing.at, printers |-> importing.printers, floors |-> importing.floors,
                        groups |-> importing.groups, printerIdMap |-> importing.printerIdMap, group |-> 0,
                        remove |-> importing.remove, add |-> importing.add, before |-> importing.before]
      BY <3>1, <3>2 DEF ImportGoing
    <3>4. ImportGoing'
      BY <2>5, <3>2, <3>3 DEF ImportGoing
    <3> QED BY <1>2, <2>1, <3>1, <3>4 DEF ImportTypes
  <2>24. CASE Import!ImportDone \/ Import!ImportFails
    BY <1>2, <2>1, <2>24 DEF Import!ImportDone, Import!ImportFails, ImportTypes
  \* The others.
  <2>25. ASSUME Import!WellFormed(db'), importing' = importing PROVE ImportTypes'
    BY <1>2, <2>1, <2>25 DEF ImportTypes, ImportGoing
  <2>26. ASSUME NEW p \in DOMAIN db.printers, Import!DeletePrinterRow(p) PROVE ImportTypes'
    <3> DEFINE printers == Import!Restrict(db.printers, DOMAIN db.printers \ {p})
               floors == Import!Without(db.floors, p)
               groups == Import!Without(db.groups, p)
    <3>1. db' = [printers |-> printers, floors |-> floors, groups |-> groups] /\ importing' = importing
      BY <2>26 DEF Import!DeletePrinterRow, Import!Disturb
    <3>2. /\ DOMAIN printers = DOMAIN db.printers \ {p} /\ printers = [j \in DOMAIN printers |-> printers[j]]
          /\ \A j \in DOMAIN printers : printers[j] = db.printers[j]
      BY DEF Import!Restrict
    <3> HIDE DEF printers
    <3>3. PrinterTable(printers)
      BY <2>2, <3>2 DEF PrinterTable, Import!IsTable
    <3>4. ASSUME NEW T, HolderTable(T, db.printers)
          PROVE  /\ HolderTable(Import!Without(T, p), printers) /\ DOMAIN Import!Without(T, p) = DOMAIN T
                 /\ \A i \in DOMAIN T : Import!Without(T, p)[i].printers = T[i].printers \ {p}
      <4>1. \A i \in DOMAIN T : T[i].printers \ {p} \subseteq DOMAIN printers
        BY <3>2, <3>4 DEF HolderTable
      <4>2. Import!Without(T, p) = WithoutAny(T, {p})
        BY DEF Import!Without, WithoutAny
      <4>3. /\ HolderTable(WithoutAny(T, {p}), printers) /\ DOMAIN WithoutAny(T, {p}) = DOMAIN T
            /\ \A i \in DOMAIN T : WithoutAny(T, {p})[i].printers = T[i].printers \ {p}
        BY <3>4, <4>1, TakenFromHolders
      <4> QED BY <4>2, <4>3
    <3>5. HolderTable(floors, printers) /\ HolderTable(groups, printers)
      BY <2>2, <3>4
    <3>6. OneFloorEach(floors)
      BY <2>2, <3>4 DEF OneFloorEach
    <3> HIDE DEF floors, groups
    <3> QED BY <2>25, <3>1, <3>3, <3>5, <3>6, WellFormedIs
  <2>27. ASSUME NEW g \in DOMAIN db.groups, Import!DeleteGroup(g) PROVE ImportTypes'
    <3>1. /\ db' = [printers |-> db.printers, floors |-> db.floors, groups |-> Import!Restrict(db.groups, DOMAIN db.groups \ {g})]
          /\ importing' = importing
      BY <2>2, <2>27 DEF Import!DeleteGroup, Import!Disturb
    <3>2. HolderTable(Import!Restrict(db.groups, DOMAIN db.groups \ {g}), db.printers)
      BY <2>2, FewerHolders
    <3> QED BY <2>2, <2>25, <3>1, <3>2, WellFormedIs
  <2>28. ASSUME NEW f \in DOMAIN db.floors, Import!DeleteFloor(f) PROVE ImportTypes'
    <3> DEFINE floors == Import!Restrict(db.floors, DOMAIN db.floors \ {f})
    <3>1. db' = [printers |-> db.printers, floors |-> floors, groups |-> db.groups] /\ importing' = importing
      BY <2>2, <2>28 DEF Import!DeleteFloor, Import!Disturb
    <3>2. HolderTable(floors, db.printers) /\ DOMAIN floors = DOMAIN db.floors \ {f} /\ \A j \in DOMAIN floors : floors[j] = db.floors[j]
      BY <2>2, FewerHolders
    <3> HIDE DEF floors
    <3>3. OneFloorEach(floors)
      BY <2>2, <3>2 DEF OneFloorEach
    <3> QED BY <2>2, <2>25, <3>1, <3>2, <3>3, WellFormedIs
  <2>29. CASE UNCHANGED yamlVars
    BY <1>2, <2>25, <2>29 DEF yamlVars, ImportTypes
  <2> QED BY <1>2, <2>6, <2>7, <2>8, <2>11, <2>12, <2>14, <2>15, <2>18, <2>19, <2>21, <2>22, <2>23,
             <2>24, <2>26, <2>27,
             <2>28, <2>29, Framed
          DEF Import!YamlNext
<1>3. ImportTypes => Import!YamlTypeOK
  BY DEF ImportTypes, ImportGoing, Import!YamlTypeOK, Import!Range
<1> QED BY <1>1, <1>2, <1>3, PTL DEF MCSpec

LEMMA MachinesTyped == MCSpec => []Machines!ApiTypeOK
<1> USE MachinesAreApart, Bounds
<1> DEFINE Printers == Machines!ApiPrinters
           Calls == [op : Machines!UserOps \cup {"none"}, printer : Printers]
           Inv == /\ ApiInv /\ moonrakerSupport \in BOOLEAN /\ apiEvents \in 0..MaxApiEvents
                  /\ apiLogin \in [Machines!ApiInstances -> Printers] /\ userCall \in [ApiUsers -> Calls]
<1>0. Machines!NoApiCall \in Calls /\ Machines!NoApiCall.printer \in Printers /\ Printers \subseteq Machines!ApiInstances
  BY DEF Machines!NoApiCall, Machines!ApiPrinters, Machines!ApiInstances
<1>1. MCInit => Inv
  <2> SUFFICES ASSUME MCInit PROVE Inv
    OBVIOUS
  <2>1. ApiInv
    BY ApiStarts
  <2>2. Machines!ApiInit
    BY DEF MCInit
  <2> QED BY <1>0, <2>1, <2>2 DEF Machines!ApiInit
<1>2. ASSUME Inv, [MCNext]_vars PROVE Inv'
  <2>1. ApiInv' /\ [Machines!ApiNext]_apiVars
    BY <1>2, Framed, ApiKeep
  <2>2. ASSUME moonrakerSupport' = moonrakerSupport, apiLogin' = apiLogin, userCall' = userCall, apiEvents' = apiEvents
        PROVE  Inv'
    BY <1>2, <2>1, <2>2
  <2>3. ASSUME NEW p \in Printers,
               \/ Machines!PrinterDeleted(p) \/ Machines!FirstAnswered(p) \/ Machines!SecondAnswered(p) \/ Machines!ReprintFails(p)
               \/ \E ok \in BOOLEAN : Machines!BatchCallAnswered(p, ok)
        PROVE  Inv'
    BY <2>2, <2>3 DEF Machines!PrinterDeleted, Machines!FirstAnswered, Machines!SecondAnswered,
                      Machines!ReprintFails,
       Machines!BatchCallAnswered
  <2>4. ASSUME apiEvents < MaxApiEvents, apiEvents' = apiEvents + 1 PROVE apiEvents' \in 0..MaxApiEvents
    BY <1>2, <2>4
  <2>5. ASSUME NEW p \in Printers, Machines!PrinterActs(p) PROVE Inv'
    BY <1>2, <2>1, <2>4, <2>5 DEF Machines!PrinterActs
  <2>6. ASSUME NEW p \in Printers, Machines!ReprintStarts(p) PROVE Inv'
    <3>1. apiLogin' \in [Machines!ApiInstances -> Printers]
      BY <1>0, <1>2, <2>6 DEF Machines!ReprintStarts, Machines!ApiOf
    <3> QED BY <1>2, <2>1, <2>6, <3>1 DEF Machines!ReprintStarts
  <2>7. ASSUME NEW u \in ApiUsers, NEW p \in Printers, NEW op \in Machines!UserOps, Machines!UserCalls(u, op, p)
        PROVE  Inv'
    <3>1. [op |-> op, printer |-> p] \in Calls
      OBVIOUS
    <3>2. userCall' \in [ApiUsers -> Calls]
      <4> HIDE DEF Calls
      <4> QED BY <1>2, <2>7, <3>1 DEF Machines!UserCalls
    <3> QED BY <1>2, <2>1, <2>4, <2>7, <3>2 DEF Machines!UserCalls
  <2>8. ASSUME NEW u \in ApiUsers, NEW ok \in BOOLEAN, Machines!UserAnswered(u, ok) PROVE Inv'
    <3>1. userCall' \in [ApiUsers -> Calls]
      <4> HIDE DEF Calls
      <4> QED BY <1>0, <1>2, <2>8 DEF Machines!UserAnswered
    <3> QED BY <1>2, <2>1, <2>8, <3>1 DEF Machines!UserAnswered
  <2>9. ASSUME NEW op \in {"list", "startPrint", "connect"}, NEW ps \in Batches, Machines!StartBatch(op, ps)
        PROVE  Inv'
    BY <2>2, <2>9 DEF Machines!StartBatch
  <2>10. CASE Machines!BatchTurn
    <3>1. apiLogin' \in [Machines!ApiInstances -> Printers]
      <4>1. Head(batch.todo) \in cachedPrinters => Head(batch.todo) \in Printers
        BY <1>2 DEF ApiInv
      <4> QED BY <1>0, <1>2, <2>10, <4>1 DEF Machines!BatchTurn, Machines!ApiOf
    <3> QED BY <1>2, <2>1, <2>10, <3>1 DEF Machines!BatchTurn
  <2>11. CASE Machines!BatchEnds
    BY <2>2, <2>11 DEF Machines!BatchEnds
  <2>12. CASE UNCHANGED apiVars
    BY <2>2, <2>12 DEF apiVars
  <2>13. "getVersion" \in Machines!UserOps
    BY DEF Machines!UserOps
  <2> HIDE DEF Inv
  <2> QED BY <2>1, <2>3, <2>5, <2>6, <2>7, <2>8, <2>9, <2>10, <2>11, <2>12, <2>13
       DEF Machines!ApiNext, Machines!TestPrintApiConnection
<1>3. Inv => Machines!ApiTypeOK
  BY DEF ApiInv, Machines!ApiTypeOK
<1> QED BY <1>1, <1>2, <1>3, PTL DEF MCSpec

LEMMA UpdatesTyped == MCSpec => []Updates!FirmwareTypeOK
<1> USE Bounds DEF Updates!FirmwareVersions
<1> DEFINE Folder == [release : 1..MaxPublished, whole : BOOLEAN]
           Outcomes == [printers : SUBSET Scanned, states : SUBSET Scanned, failures : SUBSET Scanned]
           Kinds == {"none", "scan", "get", "install", "flash"}
           Inv == /\ UpdatesInv /\ published \in 0..MaxPublished /\ firmwareReleases \in 0..published
                  /\ firmwareFolder \in Seq(Folder) /\ scanOutcome \in Outcomes
                  /\ \A r \in FirmwareRequests : /\ firmwareCall[r].kind \in Kinds
                                                 /\ firmwareCall[r].kind = "get" => firmwareCall[r].release \in 1..MaxPublished
<1>1. MCInit => Inv
  <2> SUFFICES ASSUME MCInit PROVE Inv
    OBVIOUS
  <2>1. UpdatesInv
    BY UpdatesStart
  <2>2. Updates!FirmwareInit
    BY DEF MCInit
  <2>3. Updates!NoOutcome \in Outcomes /\ Updates!NoCall.kind = "none"
    BY DEF Updates!NoOutcome, Updates!NoCall
  <2> HIDE DEF Folder, Outcomes
  <2> QED BY <2>1, <2>2, <2>3 DEF Updates!FirmwareInit
<1>2. ASSUME Inv, [MCNext]_vars PROVE Inv'
  <2>1. UpdatesInv' /\ [Updates!FirmwareNext]_firmwareVars
    BY <1>2, Framed, UpdatesKeep
  <2>2. ASSUME NEW r \in FirmwareRequests, NEW call, Updates!Calls(r, call), call.kind \in Kinds,
               call.kind = "get" => call.release \in 1..MaxPublished,
               UNCHANGED <<published, firmwareReleases>>, firmwareFolder' \in Seq(Folder), scanOutcome' \in Outcomes
        PROVE  Inv'
    <3>1. \A q \in FirmwareRequests : firmwareCall'[q] = IF q = r THEN call ELSE firmwareCall[q]
      BY <1>2, <2>2 DEF Updates!Calls, UpdatesInv
    <3> HIDE DEF Folder, Outcomes
    <3> QED BY <1>2, <2>1, <2>2, <3>1
  <2>3. CASE Updates!Publish \/ Updates!QueryReleases
    <3> HIDE DEF Folder, Outcomes
    <3> QED BY <1>2, <2>1, <2>3 DEF Updates!Publish, Updates!QueryReleases
  <2>4. ASSUME NEW p \in Scanned, Updates!PrinterForgotten(p) PROVE Inv'
    <3> HIDE DEF Folder, Outcomes
    <3> QED BY <1>2, <2>1, <2>4 DEF Updates!PrinterForgotten, Updates!SameFiles
  <2>5. ASSUME NEW r \in FirmwareRequests, Updates!DownloadFirmware(r) PROVE Inv'
    <3> DEFINE call == [kind |-> "get", release |-> firmwareReleases]
               file == [release |-> firmwareReleases, whole |-> FALSE]
    <3>1. firmwareReleases \in 1..MaxPublished
      BY <1>2, <2>5 DEF Updates!DownloadFirmware
    <3>2. call.kind = "get" /\ call.release \in 1..MaxPublished /\ file \in Folder
      BY <3>1
    <3>3. Updates!Calls(r, call) /\ firmwareFolder' = Append(firmwareFolder, file) /\ UNCHANGED <<published, firmwareReleases, scanOutcome>>
      BY <2>5 DEF Updates!DownloadFirmware
    <3> HIDE DEF call, file, Folder
    <3>4. firmwareFolder' \in Seq(Folder)
      BY <1>2, <3>2, <3>3
    <3> QED BY <1>2, <2>2, <3>2, <3>3, <3>4
  <2>6. Updates!NoCall.kind = "none"
    BY DEF Updates!NoCall
  <2>7. ASSUME NEW r \in FirmwareRequests, Updates!DownloadEnds(r) PROVE Inv'
    <3> DEFINE file == [release |-> firmwareCall[r].release, whole |-> TRUE]
    <3>1. file \in Folder
      BY <1>2, <2>7 DEF Updates!DownloadEnds
    <3>2. /\ Updates!Calls(r, Updates!NoCall) /\ UNCHANGED <<published, firmwareReleases, scanOutcome>>
          /\ \/ \E i \in DOMAIN firmwareFolder : firmwareFolder' = Updates!Rewritten(i, file)
             \/ UNCHANGED firmwareFolder
      BY <2>7 DEF Updates!DownloadEnds
    <3> HIDE DEF file, Folder
    <3>3. ASSUME NEW i \in DOMAIN firmwareFolder PROVE Updates!Rewritten(i, file) \in Seq(Folder)
      <4> DEFINE n == Len(firmwareFolder)
      <4>1. n \in Nat /\ DOMAIN firmwareFolder = 1..n /\ \A j \in 1..n : firmwareFolder[j] \in Folder
        BY <1>2
      <4> DEFINE g == [j \in 1..n |-> IF j < i THEN firmwareFolder[j] ELSE IF j = n THEN file ELSE firmwareFolder[j + 1]]
      <4>2. Updates!Rewritten(i, file) = g
        BY <4>1 DEF Updates!Rewritten
      <4>3. ASSUME NEW j \in 1..n PROVE g[j] \in Folder
        <5>1. i \in 1..n
          BY <4>1
        <5>2. CASE j < i
          BY <4>1, <5>1, <5>2
        <5>3. CASE ~(j < i) /\ j = n
          BY <3>1, <5>1, <5>3
        <5>4. CASE ~(j < i) /\ j # n
          <6>1. j + 1 \in 1..n
            BY <4>1, <5>4
          <6> HIDE DEF n
          <6> QED BY <4>1, <5>1, <5>4, <6>1
        <5> QED BY <5>2, <5>3, <5>4
      <4>4. g \in [1..n -> Folder]
        <5> HIDE DEF n
        <5> QED BY <4>3
      <4> HIDE DEF n, g
      <4> QED BY <4>1, <4>2, <4>4
    <3>4. firmwareFolder' \in Seq(Folder)
      BY <1>2, <3>2, <3>3
    <3> QED BY <1>2, <2>2, <2>6, <3>2, <3>4
  <2>8. ASSUME NEW r \in FirmwareRequests, \E p \in Scanned : Updates!InstallPlugin(r, p) \/ Updates!FlashFirmware(r, p)
        PROVE  Inv'
    <3>1. PICK call : call.kind \in {"install", "flash"} /\ Updates!Calls(r, call) /\ Updates!SameFiles /\ UNCHANGED scanOutcome
      <4>1. \A p : [kind |-> "install", printer |-> p].kind = "install"
        OBVIOUS
      <4>2. \A p, v : [kind |-> "flash", printer |-> p, release |-> v].kind = "flash"
        OBVIOUS
      <4> QED BY <2>8, <4>1, <4>2 DEF Updates!InstallPlugin, Updates!FlashFirmware
    <3> HIDE DEF Folder, Outcomes
    <3> QED BY <1>2, <2>2, <3>1 DEF Updates!SameFiles
  <2>9. ASSUME NEW r \in FirmwareRequests, Updates!PrinterAnswers(r) PROVE Inv'
    <3> HIDE DEF Folder, Outcomes
    <3> QED BY <1>2, <2>2, <2>6, <2>9 DEF Updates!PrinterAnswers, Updates!SameFiles
  \* The steps of a scan leave it a scan, or end it.
  <2>10. ASSUME NEW r \in FirmwareRequests, Updates!StartScan(r) \/ (\E p \in Scanned : Updates!ScanNext(r, p)) \/ Updates!ScanAnswered(r)
         PROVE  Inv'
    <3>1. PICK call : Updates!Calls(r, call) /\ Updates!SameFiles /\ UNCHANGED scanOutcome /\ call.kind = "scan"
      <4>1. CASE Updates!StartScan(r)
        <5> DEFINE call == [kind |-> "scan", at |-> "next", printers |-> scannable, left |-> scannable,
                            asked |-> {}, states |-> {}, failures |-> {}]
        <5>1. call.kind = "scan"
          OBVIOUS
        <5>2. Updates!Calls(r, call) /\ Updates!SameFiles /\ UNCHANGED scanOutcome
          BY <4>1 DEF Updates!StartScan
        <5> HIDE DEF call
        <5> QED BY <5>1, <5>2
      <4>2. ASSUME NEW p \in Scanned, Updates!ScanNext(r, p)
            PROVE  \E call : Updates!Calls(r, call) /\ Updates!SameFiles /\ UNCHANGED scanOutcome /\ call.kind = "scan"
        <5> DEFINE asking == [firmwareCall[r] EXCEPT !.at = "plugin", !.asked = {p}, !.left = @ \ {p}]
                   next == IF p \in scannable THEN asking ELSE Updates!AfterFailure(asking)
        <5>1. Updates!Calls(r, next) /\ Updates!SameFiles /\ UNCHANGED scanOutcome
          BY <4>2 DEF Updates!ScanNext
        <5>2. firmwareCall[r] \in Scans
          BY <1>2, <4>2 DEF UpdatesInv, Updates!ScanNext
        <5>3. next.kind = "scan"
          BY <5>2 DEF Scans, Updates!AfterFailure
        <5> HIDE DEF next
        <5> QED BY <5>1, <5>3
      <4>3. CASE Updates!ScanAnswered(r)
        <5> DEFINE seen == [firmwareCall[r] EXCEPT !.at = "version"]
        <5>1. /\ \/ Updates!Calls(r, Updates!AfterFailure(firmwareCall[r]))
                 \/ Updates!Calls(r, Updates!AfterSuccess(firmwareCall[r]))
                 \/ Updates!Calls(r, seen)
              /\ Updates!SameFiles /\ UNCHANGED scanOutcome
          BY <4>3 DEF Updates!ScanAnswered
        <5>2. firmwareCall[r] \in Scans
          BY <1>2, <4>3 DEF UpdatesInv, Updates!ScanAnswered
        <5>3. /\ Updates!AfterFailure(firmwareCall[r]).kind = "scan"
              /\ Updates!AfterSuccess(firmwareCall[r]).kind = "scan" /\ seen.kind = "scan"
          BY <5>2 DEF Scans, Updates!AfterFailure, Updates!AfterSuccess
        <5> HIDE DEF seen
        <5> QED BY <5>1, <5>3
      <4> QED BY <2>10, <4>1, <4>2, <4>3
    <3> HIDE DEF Folder, Outcomes
    <3> QED BY <1>2, <2>2, <3>1 DEF Updates!SameFiles
  <2>11. ASSUME NEW r \in FirmwareRequests, Updates!ScanEnds(r) PROVE Inv'
    <3> DEFINE call == firmwareCall[r]
    <3>1. call \in Scans
      BY <1>2, <2>11 DEF UpdatesInv, Updates!ScanEnds
    <3>2. /\ Updates!Calls(r, Updates!NoCall) /\ Updates!SameFiles
          /\ scanOutcome' = [printers |-> call.printers, states |-> call.states, failures |-> call.failures]
      BY <2>11 DEF Updates!ScanEnds
    <3> HIDE DEF call
    <3>3. scanOutcome' \in Outcomes
      BY <3>1, <3>2 DEF Scans
    <3> HIDE DEF Folder, Outcomes
    <3> QED BY <1>2, <2>2, <2>6, <3>2, <3>3 DEF Updates!SameFiles
  <2>12. CASE UNCHANGED firmwareVars
    <3> HIDE DEF Folder, Outcomes
    <3> QED BY <1>2, <2>1, <2>12 DEF firmwareVars
  <2> HIDE DEF Inv
  <2> QED BY <2>1, <2>3, <2>4, <2>5, <2>7, <2>8, <2>9, <2>10, <2>11, <2>12 DEF Updates!FirmwareNext
<1>3. Inv => Updates!FirmwareTypeOK
  <2> SUFFICES ASSUME Inv PROVE Updates!FirmwareTypeOK
    OBVIOUS
  <2>1. \A i \in DOMAIN firmwareFolder : firmwareFolder[i] \in Folder
    <3> HIDE DEF Folder
    <3> QED OBVIOUS
  <2> QED BY <2>1 DEF UpdatesInv, Updates!FirmwareTypeOK
<1> QED BY <1>1, <1>2, <1>3, PTL DEF MCSpec

\* Numbers of documents that are named by a read of the roles are of documents that are there.
LEMMA RightsTyped == MCSpec => []Rights!RolesTypeOK
<1> DEFINE Runs == [role : 0..3, state : {"none", "look", "create", "created"}, id : Nat]
           Inv == /\ SyncInv /\ SetupInv /\ wizardCompleted \in BOOLEAN /\ loginNeeded \in BOOLEAN
                  /\ starts \in 1..MaxStarts /\ \A s \in Rights!Syncers : roleSync[s].id \in 0..Len(roleDocs)
<1>0. Rights!NotSyncing.id = 0 /\ "boot" \in Rights!Syncers /\ \A r \in RoleCallers : r \in Rights!Syncers
  BY DEF Rights!NotSyncing, Rights!Syncers
<1>1. MCInit => Inv
  <2> SUFFICES ASSUME MCInit PROVE Inv
    OBVIOUS
  <2>1. SyncInv /\ SetupInv
    BY RightsStart
  <2>2. Rights!RolesInit
    BY DEF MCInit
  <2>3. \A s \in Rights!Syncers : roleSync[s] = Rights!NotSyncing
    BY <2>2 DEF Rights!RolesInit
  <2>4. Len(roleDocs) = 0
    BY <2>2 DEF Rights!RolesInit
  <2>5. wizardCompleted \in BOOLEAN /\ loginNeeded \in BOOLEAN /\ starts \in 1..MaxStarts
    <3>1. MaxStarts \in Nat \ {0}
      BY Bounds
    <3>2. 1 \in 1..MaxStarts
      BY <3>1
    <3>3. starts = 1 /\ wizardCompleted = FALSE /\ loginNeeded = FALSE
      BY <2>2 DEF Rights!RolesInit
    <3> QED BY <3>2, <3>3
  <2>6. \A s \in Rights!Syncers : roleSync[s].id \in 0..Len(roleDocs)
    BY <1>0, <2>3, <2>4
  <2> QED BY <2>1, <2>5, <2>6
<1>2. ASSUME Inv, [MCNext]_vars PROVE Inv'
  <2>1. SyncInv' /\ SetupInv' /\ [Rights!RolesNext]_rolesVars
    BY <1>2, Framed, SyncKeep, SetupKeep
  <2>2. roleSync \in [Rights!Syncers -> Runs] /\ Len(roleDocs) \in Nat
    BY <1>2 DEF SyncInv
  <2> HIDE DEF Runs
  \* The list of who reads roles stays.
  <2>3. ASSUME UNCHANGED <<roleDocs, roleSync>>, wizardCompleted' \in BOOLEAN, loginNeeded' \in BOOLEAN,
               starts' \in 1..MaxStarts
        PROVE  Inv'
    BY <1>2, <2>1, <2>3
  \* One of them goes on.
  <2>4. ASSUME NEW s \in Rights!Syncers, NEW x, roleSync' = [roleSync EXCEPT ![s] = x],
               Len(roleDocs') \in Nat, Len(roleDocs) <= Len(roleDocs'), x.id \in 0..Len(roleDocs'),
               UNCHANGED <<wizardCompleted, loginNeeded>>, starts' \in 1..MaxStarts
        PROVE  Inv'
    <3>1. \A o \in Rights!Syncers : roleSync'[o] = IF o = s THEN x ELSE roleSync[o]
      BY <2>2, <2>4
    <3>2. \A o \in Rights!Syncers : roleSync'[o].id \in 0..Len(roleDocs')
      BY <1>2, <2>2, <2>4, <3>1
    <3> QED BY <1>2, <2>1, <2>4, <3>2
  <2>5. \A i : [role |-> i, state |-> "look", id |-> 0].id = 0
    OBVIOUS
  <2>6. ASSUME NEW s \in Rights!Syncers, NEW i, NEW c, Rights!Push(s, i, c),
               UNCHANGED <<roleDocs, wizardCompleted, loginNeeded, starts>>
        PROVE  Inv'
    <3> DEFINE x == IF roleSync[s].role = 3 THEN Rights!NotSyncing
                    ELSE [role |-> roleSync[s].role + 1, state |-> "look", id |-> 0]
    <3>1. roleSync' = [roleSync EXCEPT ![s] = x]
      BY <2>6 DEF Rights!Push
    <3>2. x.id = 0
      BY <1>0
    <3> HIDE DEF x
    <3>3. x.id \in 0..Len(roleDocs') /\ Len(roleDocs') \in Nat /\ Len(roleDocs) <= Len(roleDocs') /\ starts' \in 1..MaxStarts
      BY <1>2, <2>2, <2>6, <3>2
    <3> QED BY <2>4, <2>6, <3>1, <3>3
  \* One of them begins, or stops.
  <2>19. ASSUME NEW s \in Rights!Syncers, NEW x, x.id = 0, roleSync' = [roleSync EXCEPT ![s] = x],
                UNCHANGED <<roleDocs, wizardCompleted, loginNeeded, starts>>
         PROVE  Inv'
    <3>1. x.id \in 0..Len(roleDocs') /\ Len(roleDocs') \in Nat /\ Len(roleDocs) <= Len(roleDocs') /\ starts' \in 1..MaxStarts
      BY <1>2, <2>2, <2>19
    <3> QED BY <2>4, <2>19, <3>1
  <2>7. ASSUME NEW s \in Rights!Syncers, Rights!LookForRole(s) PROVE Inv'
    <3>1. UNCHANGED <<roleDocs, wizardCompleted, loginNeeded, starts>>
      BY <2>7 DEF Rights!LookForRole
    <3>2. CASE \E i : Rights!Push(s, i, FALSE)
      BY <2>6, <3>1, <3>2
    <3>3. CASE roleSync' = [roleSync EXCEPT ![s].state = "create"]
      <4> DEFINE x == [roleSync[s] EXCEPT !.state = "create"]
      <4>1. roleSync' = [roleSync EXCEPT ![s] = x]
        BY <3>3
      <4>2. x.id = roleSync[s].id
        BY <2>2 DEF Runs
      <4> HIDE DEF x
      <4>3. x.id \in 0..Len(roleDocs') /\ Len(roleDocs') \in Nat /\ Len(roleDocs) <= Len(roleDocs') /\ starts' \in 1..MaxStarts
        BY <1>2, <2>2, <3>1, <4>2
      <4> QED BY <2>4, <3>1, <4>1, <4>3
    <3> QED BY <2>7, <3>2, <3>3 DEF Rights!LookForRole
  <2>8. ASSUME NEW s \in Rights!Syncers, Rights!StoreNewRole(s) PROVE Inv'
    <3> DEFINE x == [roleSync[s] EXCEPT !.state = "created", !.id = Len(roleDocs')]
    <3>1. roleSync' = [roleSync EXCEPT ![s] = x] /\ UNCHANGED <<wizardCompleted, loginNeeded, starts>>
      BY <2>8 DEF Rights!StoreNewRole
    <3>2. Len(roleDocs') = Len(roleDocs) + 1
      <4>1. roleDocs \in Seq(RoleNames) /\ roleDocs' = Append(roleDocs, Rights!RoleOrder[roleSync[s].role])
        BY <1>2, <2>8 DEF SyncInv, Rights!StoreNewRole
      <4> QED BY <4>1
    <3>3. x.id = Len(roleDocs')
      BY <2>2 DEF Runs
    <3> HIDE DEF x
    <3>4. x.id \in 0..Len(roleDocs') /\ Len(roleDocs') \in Nat /\ Len(roleDocs) <= Len(roleDocs') /\ starts' \in 1..MaxStarts
      BY <1>2, <2>2, <3>1, <3>2, <3>3
    <3> QED BY <2>4, <3>1, <3>4
  <2>9. ASSUME NEW s \in Rights!Syncers, Rights!NewRoleStored(s) PROVE Inv'
    BY <2>6, <2>9 DEF Rights!NewRoleStored
  <2>10. CASE Rights!LoadSettings
    BY <1>2, <2>3, <2>10 DEF Rights!LoadSettings, Rights!Booted
  <2>11. ASSUME NEW p \in Rights!PermissionNames, Rights!SyncPermission(p) PROVE Inv'
    <3>1. UNCHANGED <<roleDocs, wizardCompleted, loginNeeded, starts>>
      BY <2>11 DEF Rights!SyncPermission, Rights!Booted
    <3>2. roleSync' = roleSync \/ roleSync' = [roleSync EXCEPT !["boot"] = [role |-> 1, state |-> "look", id |-> 0]]
      BY <2>11 DEF Rights!SyncPermission, Rights!BeginSync
    <3> QED BY <1>0, <1>2, <2>3, <2>5, <2>19, <3>1, <3>2
  <2>12. CASE Rights!BootFails
    BY <1>0, <2>12, <2>19 DEF Rights!BootFails, Rights!Booted
  <2>13. CASE Rights!BootRunsAgain
    BY <1>2, <2>3, Bounds, <2>13 DEF Rights!BootRunsAgain, Rights!Booted
  <2>14. CASE Rights!ProcessRestarts
    <3>1. \A s \in Rights!Syncers : roleSync'[s] = Rights!NotSyncing
      BY <2>14 DEF Rights!ProcessRestarts, Rights!Forgotten
    <3> QED BY <1>0, <1>2, <2>1, <2>2, <2>14, <3>1, Bounds DEF Rights!ProcessRestarts
  <2>15. ASSUME NEW r \in RoleCallers,
                \/ Rights!TakeRole(r) \/ Rights!FindUser(r) \/ Rights!PatchLoginRequired(r)
                \/ Rights!CompleteWizard(r) \/ \E name \in OwnerNames : Rights!RegisterUser(r, name)
         PROVE  Inv'
    BY <1>2, <2>3, <2>15 DEF Rights!TakeRole, Rights!FindUser, Rights!PatchLoginRequired,
                             Rights!CompleteWizard,
       Rights!RegisterUser
  <2>16. ASSUME NEW r \in RoleCallers, Rights!Setup(r) PROVE Inv'
    <3>1. UNCHANGED <<roleDocs, wizardCompleted, loginNeeded, starts>>
      BY <2>16 DEF Rights!Setup
    <3>2. roleSync' = roleSync \/ roleSync' = [roleSync EXCEPT ![r] = [role |-> 1, state |-> "look", id |-> 0]]
      BY <2>16 DEF Rights!Setup, Rights!BeginSync
    <3> QED BY <1>0, <1>2, <2>3, <2>5, <2>19, <3>1, <3>2
  <2>17. ASSUME NEW r \in RoleCallers, Rights!RequestFails(r) PROVE Inv'
    BY <1>0, <2>17, <2>19 DEF Rights!RequestFails
  <2>18. CASE UNCHANGED rolesVars
    BY <1>2, <2>3, <2>18 DEF rolesVars
  <2> HIDE DEF Inv
  <2> QED BY <2>1, <2>7, <2>8, <2>9, <2>10, <2>11, <2>12, <2>13, <2>14, <2>15, <2>16, <2>17, <2>18
       DEF Rights!RolesNext
<1>3. Inv => Rights!RolesTypeOK
  <2> SUFFICES ASSUME Inv PROVE Rights!RolesTypeOK
    OBVIOUS
  <2>1. \A i \in DOMAIN roleDocs : roleDocs[i] \in {Rights!RoleOrder[j] : j \in 1..3}
    <3>1. \A n \in RoleNames : \E j \in 1..3 : Rights!RoleOrder[j] = n
      BY ThreeRoles DEF RoleNames
    <3>2. \A i \in DOMAIN roleDocs : roleDocs[i] \in RoleNames
      BY DEF SyncInv
    <3> QED BY <3>1, <3>2
  <2>2. \A i \in DOMAIN loadedRoles : loadedRoles[i] \in DOMAIN roleDocs
    <3> DEFINE D == DOMAIN roleDocs
    <3>1. loadedRoles \in Seq(D)
      BY DEF SyncInv
    <3> HIDE DEF D
    <3>2. \A i \in DOMAIN loadedRoles : loadedRoles[i] \in D
      BY <3>1
    <3> QED BY <3>2 DEF D
  <2>3. \A s \in Rights!Syncers : roleSync[s].role \in 0..3
    BY DEF SyncInv
  <2>4. DOMAIN accountDocs \subseteq OwnerNames /\ \A u \in DOMAIN accountDocs : accountDocs[u] \in DOMAIN roleDocs
    BY DEF SetupInv
  <2> QED BY <2>1, <2>2, <2>3, <2>4 DEF SyncInv, Rights!RolesTypeOK
<1> QED BY <1>1, <1>2, <1>3, PTL DEF MCSpec

\* The messages under way are of the objects that there are.
LEMMA ObjectsTyped == MCSpec => []Objects!KlipperTypeOK
<1> DEFINE Values == UNION {{o[n] : n \in DOMAIN o} : o \in Objects!Objects}
           Answers == {Objects!NoQuery, Objects!Waiting}
                        \cup [at : {"served"}, status : Objects!Objects \cup {Objects!Down}, now : BOOLEAN]
           Inv == /\ ObjectsInv /\ asOf \in BOOLEAN /\ Len(updates) <= MaxUpdates
                  /\ \A q \in ObjectQueries : queries[q] \in Answers
<1>0. Objects!NoQuery \in Answers /\ Objects!Waiting \in Answers /\ MaxUpdates \in Nat
  BY Bounds
<1>1. MCInit => Inv
  <2> SUFFICES ASSUME MCInit PROVE Inv
    OBVIOUS
  <2>1. ObjectsInv
    BY ObjectsStart
  <2>2. Objects!KlipperInit
    BY DEF MCInit
  <2>3. asOf \in BOOLEAN /\ Len(updates) <= MaxUpdates /\ \A q \in ObjectQueries : queries[q] = Objects!NoQuery
    BY <1>0, <2>2 DEF Objects!KlipperInit
  <2> HIDE DEF Answers
  <2> QED BY <1>0, <2>1, <2>3
<1>2. ASSUME Inv, [MCNext]_vars PROVE Inv'
  <2> HIDE DEF Answers
  <2>1. ObjectsInv' /\ [Objects!KlipperNext]_klipperVars
    BY <1>2, Framed, ObjectsKeep
  <2>2. updates \in Seq(Changes \cup Notices) /\ DOMAIN queries = ObjectQueries
    BY <1>2 DEF ObjectsInv
  <2>3. Len(updates) \in Nat /\ \A u \in Changes \cup Notices : Len(Append(updates, u)) = Len(updates) + 1
    BY <2>2
  <2>4. updates # <<>> => Len(Tail(updates)) <= MaxUpdates
    BY <1>0, <1>2, <2>2, <2>3
  \* Klipper changes.
  <2>5. ASSUME asOf' = FALSE, queries' = Objects!Outdated, Len(updates') <= MaxUpdates PROVE Inv'
    <3>1. ASSUME NEW q \in ObjectQueries PROVE queries'[q] \in Answers
      <4>1. CASE queries[q].at = "served"
        <5>1. queries'[q] = [queries[q] EXCEPT !.now = FALSE]
          BY <2>5, <4>1 DEF Objects!Outdated
        <5>2. queries[q] \in [at : {"served"}, status : Objects!Objects \cup {Objects!Down}, now : BOOLEAN]
          BY <1>2, <4>1 DEF ObjectsInv
        <5> DEFINE States == Objects!Objects \cup {Objects!Down}
        <5> HIDE DEF States
        <5>3. [queries[q] EXCEPT !.now = FALSE] \in [at : {"served"}, status : States, now : BOOLEAN]
          BY <5>2 DEF States
        <5> QED BY <5>1, <5>3 DEF Answers, States
      <4>2. CASE queries[q].at # "served"
        BY <1>2, <2>5, <4>2 DEF Objects!Outdated
      <4> QED BY <4>1, <4>2
    <3> QED BY <2>1, <2>5, <3>1
  <2>6. ASSUME NEW n \in DOMAIN Objects!AtStart, Objects!ObjectChanges(n) PROVE Inv'
    <3>1. PICK o \in Objects!Objects : /\ Objects!Becomes(o)
                                       /\ updates' = IF subscribed THEN Append(updates, [object |-> n, value |-> o[n]]) ELSE updates
      BY <2>6 DEF Objects!ObjectChanges
    <3>2. [object |-> n, value |-> o[n]] \in Changes
      <4>1. n \in Names
        BY DEF Names, Objects!AtStart
      <4> QED BY <4>1 DEF Changes
    <3>3. Len(updates') <= MaxUpdates
      <4>1. Len(updates) < MaxUpdates
        BY <2>6 DEF Objects!ObjectChanges
      <4>2. Len(Append(updates, [object |-> n, value |-> o[n]])) = Len(updates) + 1
        BY <2>3, <3>2
      <4> QED BY <1>0, <2>3, <3>1, <4>1, <4>2
    <3> QED BY <2>5, <3>1, <3>3 DEF Objects!Becomes
  <2>7. CASE Objects!Disconnects \/ Objects!Returns
    <3>1. \E u \in Notices : updates' = Append(updates, u)
      BY <2>7 DEF Objects!Disconnects, Objects!Returns, Notices
    <3>2. Len(updates) < MaxUpdates /\ asOf' = FALSE /\ queries' = Objects!Outdated
      BY <2>7 DEF Objects!Disconnects, Objects!Returns, Objects!Becomes
    <3>3. Len(updates') <= MaxUpdates
      BY <1>0, <2>3, <3>1, <3>2
    <3> QED BY <2>5, <3>2, <3>3
  \* A query begins, ends, or is answered by Moonraker.
  <2>8. ASSUME NEW q \in ObjectQueries, NEW x \in Answers, queries' = [queries EXCEPT ![q] = x],
               Len(updates') <= MaxUpdates, asOf' \in BOOLEAN
        PROVE  Inv'
    <3>1. \A r \in ObjectQueries : queries'[r] = IF r = q THEN x ELSE queries[r]
      BY <2>2, <2>8
    <3> QED BY <1>2, <2>1, <2>8, <3>1
  <2>9. ASSUME NEW q \in ObjectQueries, Objects!QueryObjects(q) \/ Objects!QueryFails(q) PROVE Inv'
    BY <1>0, <1>2, <2>8, <2>9 DEF Objects!QueryObjects, Objects!QueryFails, Objects!Asked
  <2>10. ASSUME NEW q \in ObjectQueries, Objects!Served(q) PROVE Inv'
    <3> DEFINE x == [at |-> "served", status |-> klipper, now |-> TRUE]
               States == Objects!Objects \cup {Objects!Down}
    <3>1. klipper \in States
      BY <1>2 DEF ObjectsInv
    <3>2. x \in [at : {"served"}, status : States, now : BOOLEAN]
      <4> HIDE DEF States
      <4> QED BY <3>1
    <3>3. x \in Answers
      BY <3>2 DEF Answers
    <3>4. queries' = [queries EXCEPT ![q] = x] /\ UNCHANGED <<updates, asOf>>
      BY <2>10 DEF Objects!Served
    <3> HIDE DEF x
    <3> QED BY <1>2, <2>8, <3>3, <3>4
  <2>11. ASSUME NEW q \in ObjectQueries, Objects!QueryAnswered(q) PROVE Inv'
    <3>1. queries' = [queries EXCEPT ![q] = Objects!NoQuery] /\ UNCHANGED updates /\ asOf' = queries[q].now
      BY <2>11 DEF Objects!QueryAnswered
    <3>2. queries[q].now \in BOOLEAN
      BY <1>2, <2>11 DEF ObjectsInv, Objects!QueryAnswered
    <3> QED BY <1>0, <1>2, <2>8, <3>1, <3>2
  <2>12. ASSUME UNCHANGED queries, asOf' \in BOOLEAN, Len(updates') <= MaxUpdates PROVE Inv'
    BY <1>2, <2>1, <2>12
  <2>13. CASE Objects!StatusUpdate
    <3>1. updates # <<>> /\ updates' = Tail(updates) /\ UNCHANGED queries
          /\ (asOf' = asOf \/ asOf' = (asOf /\ subscribed))
      BY <2>13 DEF Objects!StatusUpdate
    <3>2. asOf' \in BOOLEAN
      BY <1>2, <3>1 DEF ObjectsInv
    <3> QED BY <2>4, <2>12, <3>1, <3>2
  <2>14. CASE Objects!KlippyNotified
    <3>1. updates # <<>> /\ updates' = Tail(updates) /\ UNCHANGED asOf
          /\ (UNCHANGED queries \/ \E q \in ObjectQueries : queries' = [queries EXCEPT ![q] = Objects!Waiting])
      BY <2>14 DEF Objects!KlippyNotified, Objects!Asked
    <3> QED BY <1>0, <1>2, <2>4, <2>8, <2>12, <3>1
  <2>15. CASE UNCHANGED klipperVars
    BY <1>2, <2>12, <2>15 DEF klipperVars
  <2> HIDE DEF Inv
  <2> QED BY <2>1, <2>6, <2>7, <2>9, <2>10, <2>11, <2>13, <2>14, <2>15 DEF Objects!KlipperNext
<1>3. Inv => Objects!KlipperTypeOK
  <2> SUFFICES ASSUME Inv PROVE Objects!KlipperTypeOK
    OBVIOUS
  <2>1. current \in [DOMAIN Objects!NoFlags -> BOOLEAN]
    <3> DEFINE D == {"operational", "printing", "paused", "ready", "sdReady", "error"}
    <3>1. DOMAIN Objects!NoFlags = D
      BY DEF Objects!NoFlags
    <3>2. ASSUME NEW a \in BOOLEAN, NEW b \in BOOLEAN, NEW c \in BOOLEAN, NEW d \in BOOLEAN, NEW e \in BOOLEAN, NEW f \in BOOLEAN
          PROVE  [operational |-> a, printing |-> b, paused |-> c, ready |-> d, sdReady |-> e, error |-> f] \in [D -> BOOLEAN]
      OBVIOUS
    <3>3. current = Objects!FlagsOf(printerObjects)
      BY DEF ObjectsInv
    <3> HIDE DEF D
    <3> QED BY <3>1, <3>2, <3>3 DEF Objects!FlagsOf, Objects!NoFlags
  <2>2. \A i \in DOMAIN updates : updates[i] \in Objects!Updates
    <3>1. \A o \in Objects!Objects, n \in Names : n \in DOMAIN o
      BY ObjectsByField
    <3>2. Changes \subseteq [object : Names, value : Values]
      <4> SUFFICES ASSUME NEW n \in Names, NEW o \in Objects!Objects
                   PROVE  [object |-> n, value |-> o[n]] \in [object : Names, value : Values]
        BY DEF Changes
      <4>1. o[n] \in Values
        BY <3>1
      <4> HIDE DEF Values
      <4> QED BY <4>1
    <3>3. DOMAIN Objects!AtStart = Names
      BY DEF Objects!AtStart, Names
    <3>4. \A i \in DOMAIN updates : updates[i] \in Changes \cup Notices
      <4> DEFINE Us == Changes \cup Notices
      <4>1. updates \in Seq(Us)
        BY DEF ObjectsInv
      <4> HIDE DEF Us
      <4>2. \A i \in DOMAIN updates : updates[i] \in Us
        BY <4>1
      <4> QED BY <4>2 DEF Us
    <3> HIDE DEF Inv
    <3> QED BY <3>2, <3>3, <3>4 DEF Objects!Updates, Notices
  <2> QED BY <2>1, <2>2 DEF ObjectsInv, Objects!KlipperTypeOK
<1> QED BY <1>1, <1>2, <1>3, PTL DEF MCSpec

LEMMA ProfilesTyped == MCSpec => []Profiles!AccountsTypeOK
<1> DEFINE Inv == ProfilesInv /\ touched \in BOOLEAN /\ boots \in 0..MaxBoots
<1>1. MCInit => Inv
  <2> SUFFICES ASSUME MCInit PROVE Inv
    OBVIOUS
  <2>1. ProfilesInv
    BY ProfilesStart
  <2>2. touched = FALSE /\ boots = 0
    BY DEF MCInit, Profiles!AccountsInit
  <2>3. MaxBoots \in Nat
    BY Bounds
  <2>4. 0 \in 0..MaxBoots
    BY <2>3
  <2> QED BY <2>1, <2>2, <2>4
<1>2. ASSUME Inv, [MCNext]_vars PROVE Inv'
  <2>1. ProfilesInv' /\ [Profiles!AccountsNext]_accountVars
    BY <1>2, Framed, ProfilesKeep
  <2> DEFINE Told == touched' = touched \/ touched' \in BOOLEAN
             Booted == boots' = boots \/ (boots < MaxBoots /\ boots' = boots + 1)
  <2>2. ASSUME NEW r, Profiles!WriteRegistered(r) \/ Profiles!WriteAccount(r) PROVE Told /\ Booted
    BY <2>2 DEF Profiles!WriteRegistered, Profiles!WriteAccount
  <2>3. ASSUME NEW r, NEW name, Profiles!StartRegister(r, name) PROVE Told /\ Booted
    BY <2>3 DEF Profiles!StartRegister, Profiles!Enters
  <2>4. ASSUME NEW r, NEW by, NEW id, NEW name, NEW old, NEW new,
               \/ Profiles!Verifies(r, by, id) \/ Profiles!ChangeUsername(r, by, id, name)
               \/ Profiles!ChangePassword(r, by, id, old, new)
        PROVE  Told /\ Booted
    BY <2>4 DEF Profiles!Verifies, Profiles!ChangeUsername, Profiles!ChangePassword, Profiles!Enters
  <2>5. ASSUME NEW by, NEW setting, NEW value, Profiles!ChangeAccess(by, setting, value)
        PROVE  Told /\ Booted
    BY <2>5 DEF Profiles!ChangeAccess
  <2>6. ASSUME Profiles!Restart PROVE Told /\ Booted
    BY <2>6 DEF Profiles!Restart
  <2>7. ASSUME Profiles!CreateDemo \/ Profiles!FindDemo \/ Profiles!UpdateDemo PROVE Told /\ Booted
    BY <2>7 DEF Profiles!CreateDemo, Profiles!FindDemo, Profiles!UpdateDemo, Profiles!SetDemo
  <2>8. ASSUME Profiles!DemoFails \/ Profiles!BootAccess PROVE Told /\ Booted
    BY <2>8 DEF Profiles!DemoFails, Profiles!BootAccess
  <2>9. ASSUME UNCHANGED accountVars PROVE Told /\ Booted
    BY <2>9 DEF accountVars
  <2>10. Told /\ Booted
    <3> HIDE DEF Told, Booted
    <3> QED BY <2>1, <2>2, <2>3, <2>4, <2>5, <2>6, <2>7, <2>8, <2>9 DEF Profiles!AccountsNext
  <2>11. MaxBoots \in Nat
    BY Bounds
  <2> QED BY <1>2, <2>1, <2>10, <2>11
<1>3. Inv => Profiles!AccountsTypeOK
  <2> SUFFICES ASSUME Inv PROVE Profiles!AccountsTypeOK
    OBVIOUS
  <2>1. PICK k \in 1..MaxAccounts : DOMAIN accounts = 1..k
    BY DEF ProfilesInv, RowsInv
  <2>2. DOMAIN accounts \in SUBSET (1..MaxAccounts)
    BY <2>1, AccountBounds
  <2>3. unvouched \subseteq 1..MaxAccounts
    BY <2>2 DEF ProfilesInv, RowsInv
  <2>4. \A r \in AccountRequests : accountReq[r].at \in {"idle", "register", "write"}
    <3>1. \A w \in Writes : w.at \in {"idle", "register", "write"}
      <4>1. Profiles!Idle.at = "idle" /\ \A w \in [at : {"register"}, name : AccountNames] : w.at = "register"
        BY DEF Profiles!Idle
      <4>2. /\ \A w \in [at : {"write"}, id : DOMAIN accounts, field : {"name"}, value : AccountNames] : w.at = "write"
            /\ \A w \in [at : {"write"}, id : DOMAIN accounts, field : {"password"}, value : Profiles!Passwords] : w.at = "write"
            /\ \A w \in [at : {"write"}, id : DOMAIN accounts, field : {"verified"}, value : {TRUE}] : w.at = "write"
        OBVIOUS
      <4> QED BY <4>1, <4>2 DEF Writes
    <3> QED BY <3>1 DEF ProfilesInv, WritesInv
  <2> QED BY <2>2, <2>3, <2>4 DEF ProfilesInv, RowsInv, DemoBootInv, AccountRows,
                                  Profiles!AccountsTypeOK
<1> QED BY <1>1, <1>2, <1>3, PTL DEF MCSpec

LEMMA TablesTyped == MCSpec => []Tables!SchemaTypeOK
<1>0. MaxRoleRows \in Nat /\ Tables!LastMigration = 6
  BY Bounds DEF Tables!LastMigration
<1>1. MCInit => Tables!SchemaTypeOK
  BY <1>0 DEF MCInit, Tables!SchemaInit, Tables!SchemaTypeOK
<1>2. ASSUME Tables!SchemaTypeOK, [MCNext]_vars PROVE Tables!SchemaTypeOK'
  <2>1. [Tables!SchemaNext]_schemaVars
    BY <1>2, Framed
  <2>2. executed \in 0..6 /\ DOMAIN roleTable \subseteq 1..MaxRoleRows /\ userRoles \subseteq 1..MaxRoleRows
    BY <1>0, <1>2 DEF Tables!SchemaTypeOK
  <2>3. ASSUME NEW release \in 1..6, Tables!RunMigrations(release) PROVE Tables!SchemaTypeOK'
    <3>1. DOMAIN Tables!Deduplicated(roleTable) \subseteq DOMAIN roleTable
      BY DEF Tables!Deduplicated
    <3>2. executed' = release /\ userRoles' = userRoles
      BY <2>3 DEF Tables!RunMigrations
    <3>3. roleTable' = roleTable \/ roleTable' = Tables!Deduplicated(roleTable)
      BY <2>3 DEF Tables!RunMigrations
    <3> QED BY <1>0, <2>2, <3>1, <3>2, <3>3 DEF Tables!SchemaTypeOK
  <2>4. CASE Tables!RevertLast
    <3>1. executed' = executed - 1 /\ executed > 0
      BY <2>4 DEF Tables!RevertLast
    <3>2. DOMAIN roleTable' \subseteq DOMAIN roleTable
      BY <2>4 DEF Tables!RevertLast
    <3>3. userRoles' \subseteq userRoles
      BY <2>4 DEF Tables!RevertLast
    <3> QED BY <1>0, <2>2, <3>1, <3>2, <3>3 DEF Tables!SchemaTypeOK
  <2>5. ASSUME NEW id \in 1..MaxRoleRows, NEW name, Tables!StoreRole(id, name)
        PROVE  Tables!SchemaTypeOK'
    <3>1. DOMAIN roleTable' = DOMAIN roleTable \cup {id}
      BY <2>5 DEF Tables!StoreRole, Tables!Add
    <3>2. executed' = executed /\ userRoles' = userRoles
      BY <2>5 DEF Tables!StoreRole
    <3> QED BY <1>0, <2>2, <3>1, <3>2 DEF Tables!SchemaTypeOK
  <2>6. ASSUME NEW id \in 1..MaxRoleRows, Tables!GiveRole(id) PROVE Tables!SchemaTypeOK'
    BY <1>0, <2>2, <2>6 DEF Tables!GiveRole, Tables!SchemaTypeOK
  <2>7. CASE UNCHANGED schemaVars
    BY <1>2, <2>7 DEF schemaVars, Tables!SchemaTypeOK
  <2> QED BY <1>0, <2>1, <2>3, <2>4, <2>5, <2>6, <2>7 DEF Tables!SchemaNext
<1> QED BY <1>1, <1>2, PTL DEF MCSpec

\* Whatever the bounds and the sets that the services work on, all of their state is what the
\* code declares: no request, row, cache entry, event or counter takes a value outside its type.
THEOREM ServicesTypeCorrect == MCSpec => []ServicesTypeOK
<1> DEFINE Typed == /\ Auth!AuthTypeOK /\ Accounts!UsersTypeOK /\ Events!EventsTypeOK
                    /\ Prints!CompletionsTypeOK /\ Testing!TestsTypeOK /\ Patches!SettingsTypeOK
                    /\ Files!FilesTypeOK /\ Import!YamlTypeOK /\ Thumbs!ThumbnailsTypeOK
                    /\ Sending!UploadsTypeOK /\ Client!BundleTypeOK /\ Tables!SchemaTypeOK
                    /\ Machines!ApiTypeOK /\ Rights!RolesTypeOK /\ Watchers!IoTypeOK
                    /\ Updates!FirmwareTypeOK /\ Counts!StatisticsTypeOK
                    /\ Objects!KlipperTypeOK /\ Profiles!AccountsTypeOK
<1>1. MCSpec => []Typed
  BY AuthTyped, UsersTyped, EventsTyped, PrintsTyped, TestsTyped, SettingsTyped, FilesTyped,
     ImportTyped, ThumbnailsTyped, UploadsTyped, BundleTyped, TablesTyped, MachinesTyped,
     RightsTyped, WatchersTyped, UpdatesTyped, CountsTyped, ObjectsTyped, ProfilesTyped, PTL
<1>2. Typed => ServicesTypeOK
  BY Zenon DEF ServicesTypeOK
<1> HIDE DEF Typed
<1> QED BY <1>1, <1>2, PTL

=============================================================================
