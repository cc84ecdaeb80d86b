---------------------------- MODULE AuthSessions ----------------------------
(***************************************************************************)
(* AuthService and RefreshTokenService: login, renewal and logout of one   *)
(* user, by requests that interleave at every await.  Rows of the table    *)
(* refresh_token are keyed by the token, a fresh uuid.  Time is the        *)
(* expiry of a row (ExpireRow) and the age of a blacklisted id-token.      *)
(***************************************************************************)
EXTENDS Integers, Functions

CONSTANTS
  AuthRequests,        \* requests running side by side
  RefreshTokens,       \* bound: logins that reach the table
  RefreshTokenAttempts \* credentials.refreshTokenAttempts, -1: no limit

VARIABLES
  account,    \* the user's row: "ok", "unfit" to sign in, "gone"
  tokenRows,  \* table refresh_token
  handedOut,  \* tokens a login returned
  request,    \* where each request is, with what it read
  blacklist,  \* blacklistedJwtCache, of the one id-token logged out with
  granted,    \* history: renewals granted to a token
  overlapped  \* history: tokens two renewals worked on at once

authVars == <<account, tokenRows, handedOut, request, blacklist, granted, overlapped>>

Idle == [at |-> "idle"]
RenewSteps == {"user", "sign", "count", "check", "update"}
AuthTypeOK ==
  /\ account \in {"ok", "unfit", "gone"}
  /\ handedOut \in SUBSET RefreshTokens /\ DOMAIN tokenRows \in SUBSET handedOut
  /\ \A t \in DOMAIN tokenRows : tokenRows[t] \in [used : Nat, expired : BOOLEAN]
  /\ \A r \in AuthRequests :
        request[r] \in {Idle} \cup [at : {"signLogin", "purge", "create", "evict", "blacklist"}]
                       \cup [at : RenewSteps, token : RefreshTokens, used : Nat]
  /\ blacklist \in {"none", "fresh", "aged"}
  /\ granted \in [RefreshTokens -> Nat] /\ overlapped \in SUBSET RefreshTokens

AuthInit ==
  /\ account = "ok" /\ tokenRows = <<>> /\ handedOut = {}
  /\ request = [r \in AuthRequests |-> Idle]
  /\ blacklist = "none"
  /\ granted = [t \in RefreshTokens |-> 0] /\ overlapped = {}

Goto(r, s) == request' = [request EXCEPT ![r] = s]
Without(ts) == Restrict(tokenRows, DOMAIN tokenRows \ ts)

\* purgeOutdatedBlacklistedJwtCache
Purged(b) == IF b = "aged" THEN "none" ELSE b

-----------------------------------------------------------------------------
(* loginUser. *)

\* findRawByUsername, and the password matched.
StartLogin(r) ==
  /\ request[r] = Idle /\ account # "gone" /\ handedOut # RefreshTokens
  /\ Goto(r, [at |-> "signLogin"])
  /\ UNCHANGED <<account, tokenRows, handedOut, blacklist, granted, overlapped>>

\* signJwtToken throws for a user that is gone, unverified or needs a new password.
Signs(r, next) ==
  /\ Goto(r, IF account = "ok" THEN next ELSE Idle)
  /\ UNCHANGED <<account, tokenRows, handedOut, blacklist, granted, overlapped>>
SignLogin(r) == request[r].at = "signLogin" /\ Signs(r, [at |-> "purge"])

PurgeOutdated(r) ==
  /\ request[r].at = "purge"
  /\ tokenRows' = Without({t \in DOMAIN tokenRows : tokenRows[t].expired})
  /\ blacklist' = Purged(blacklist)
  /\ Goto(r, [at |-> "create"])
  /\ UNCHANGED <<account, handedOut, granted, overlapped>>

\* The foreign key refuses a row of a user that is gone.
CreateRefreshToken(r, t) ==
  /\ request[r].at = "create" /\ t \notin handedOut
  /\ IF account = "gone" THEN UNCHANGED <<tokenRows, handedOut>>
     ELSE /\ tokenRows' = [x \in DOMAIN tokenRows \cup {t} |->
                             IF x = t THEN [used |-> 0, expired |-> FALSE] ELSE tokenRows[x]]
          /\ handedOut' = handedOut \cup {t}
  /\ Goto(r, Idle)
  /\ UNCHANGED <<account, blacklist, granted, overlapped>>

-----------------------------------------------------------------------------
(* renewLoginByRefreshToken. *)

\* getValidRefreshToken: what a request goes on with when it finds a valid row; an
\* expired row has all rows of the user deleted, by the next await.
AfterValid(t, next) ==
  IF t \notin DOMAIN tokenRows THEN Idle
  ELSE IF tokenRows[t].expired THEN [at |-> "evict"] ELSE next

Renewing(r, t) == request[r].at \in RenewSteps /\ request[r].token = t

StartRenewal(r, t) ==
  /\ request[r] = Idle /\ t \in handedOut
  /\ LET s == AfterValid(t, [at |-> "user", token |-> t, used |-> 0])
     IN  /\ Goto(r, s)
         /\ overlapped' = IF s.at = "user" /\ \E o \in AuthRequests : Renewing(o, t)
                          THEN overlapped \cup {t} ELSE overlapped
  /\ UNCHANGED <<account, tokenRows, handedOut, blacklist, granted>>

\* getUser throws for a user that is gone; its rows went with it.
FindUser(r) ==
  /\ request[r].at = "user"
  /\ Goto(r, IF account = "gone" THEN Idle ELSE [request[r] EXCEPT !.at = "sign"])
  /\ UNCHANGED <<account, tokenRows, handedOut, blacklist, granted, overlapped>>

SignRenewal(r) == request[r].at = "sign" /\ Signs(r, [request[r] EXCEPT !.at = "count"])

Exceeded_OffByOne(used) == RefreshTokenAttempts # -1 /\ used > RefreshTokenAttempts
Exceeded(used) == RefreshTokenAttempts # -1 /\ used >= RefreshTokenAttempts

\* increaseRefreshTokenAttemptsUsed reads the row a second time,
CountAttempts(r) ==
  /\ request[r].at = "count"
  /\ LET t == request[r].token
     IN  Goto(r, AfterValid(t, IF Exceeded(tokenRows[t].used) THEN [at |-> "evict"]
                               ELSE [request[r] EXCEPT !.at = "check", !.used = tokenRows[t].used]))
  /\ UNCHANGED <<account, tokenRows, handedOut, blacklist, granted, overlapped>>

\* updateRefreshTokenAttempts a third time, whatever its expiry,
CheckRow(r) ==
  /\ request[r].at = "check"
  /\ Goto(r, IF request[r].token \in DOMAIN tokenRows THEN [request[r] EXCEPT !.at = "update"] ELSE Idle)
  /\ UNCHANGED <<account, tokenRows, handedOut, blacklist, granted, overlapped>>

\* and updates what row there is.  With a slip: saves it, whether there is one or not.
Updated_Upsert(t, used) ==
  [x \in DOMAIN tokenRows \cup {t} |->
     IF x # t THEN tokenRows[x] ELSE [used |-> used, expired |-> FALSE]]
Updated(t, used) ==
  [x \in DOMAIN tokenRows |-> IF x # t THEN tokenRows[x] ELSE [tokenRows[x] EXCEPT !.used = used]]

UpdateAttempts(r) ==
  /\ request[r].at = "update"
  /\ LET t == request[r].token
     IN  /\ tokenRows' = Updated(t, request[r].used + 1)
         /\ granted' = [granted EXCEPT ![t] = @ + 1]
  /\ Goto(r, Idle)
  /\ UNCHANGED <<account, handedOut, blacklist, overlapped>>

-----------------------------------------------------------------------------
(* logoutUserId, and the rest. *)

DeleteByUser(r, next) ==
  /\ tokenRows' = <<>> /\ Goto(r, next)
  /\ UNCHANGED <<account, handedOut, blacklist, granted, overlapped>>
Evict(r) == request[r].at = "evict" /\ DeleteByUser(r, Idle)
StartLogout(r) == request[r] = Idle /\ account = "ok" /\ DeleteByUser(r, [at |-> "blacklist"])

BlacklistJwt(r) ==
  /\ request[r].at = "blacklist"
  /\ blacklist' = "fresh" /\ Goto(r, Idle)
  /\ UNCHANGED <<account, tokenRows, handedOut, granted, overlapped>>

ExpireRow(t) ==
  /\ t \in DOMAIN tokenRows /\ ~tokenRows[t].expired
  /\ tokenRows' = [tokenRows EXCEPT ![t].expired = TRUE]
  /\ UNCHANGED <<account, handedOut, request, blacklist, granted, overlapped>>

\* The entry is older than jwtExpiresIn, which purge reads as milliseconds.
AgeBlacklist ==
  /\ blacklist = "fresh" /\ blacklist' = "aged"
  /\ UNCHANGED <<account, tokenRows, handedOut, request, granted, overlapped>>

\* Other requests: the user is deleted, its rows with it, or becomes unfit.
ChangeAccount(a) ==
  /\ account = "ok" /\ account' = a
  /\ tokenRows' = IF a = "gone" THEN <<>> ELSE tokenRows
  /\ UNCHANGED <<handedOut, request, blacklist, granted, overlapped>>

AuthNext ==
  \/ \E r \in AuthRequests :
       \/ StartLogin(r) \/ SignLogin(r) \/ PurgeOutdated(r) \/ FindUser(r) \/ SignRenewal(r)
       \/ CountAttempts(r) \/ CheckRow(r) \/ UpdateAttempts(r)
       \/ Evict(r) \/ StartLogout(r) \/ BlacklistJwt(r)
       \/ \E t \in RefreshTokens : CreateRefreshToken(r, t) \/ StartRenewal(r, t)
  \/ \E t \in RefreshTokens : ExpireRow(t)
  \/ AgeBlacklist
  \/ \E a \in {"unfit", "gone"} : ChangeAccount(a)

AuthSpec == AuthInit /\ [][AuthNext]_authVars

-----------------------------------------------------------------------------
(* Properties. *)

\* A refresh token is renewed at most refreshTokenAttempts times, unless two renewals
\* of it overlapped: both then read the same count.
AttemptsBounded ==
  RefreshTokenAttempts # -1 =>
    \A t \in RefreshTokens \ overlapped : granted[t] <= RefreshTokenAttempts

\* A refresh token that a logout, an expiry, an eviction or the user's deletion removed
\* never comes back, whatever renewals of it were in flight.
NoTokenReturns == [][\A t \in handedOut : t \notin DOMAIN tokenRows => t \notin DOMAIN tokenRows']_authVars

\* A token runs out: it is renewed so often at most, and what ended stays ended.
TokensRunOut == [][AttemptsBounded']_authVars /\ NoTokenReturns

=============================================================================
