------------------------------ MODULE Gateway -------------------------------
(***************************************************************************)
(* api-gateway before auth-service and wallet-service: the routes, the     *)
(* middleware, and the checks of the gateway beside those of auth-service. *)
(* An HTTP request makes at most one RPC, so requests and calls are the    *)
(* same set; what auth-service does with its calls is AuthSession.  What   *)
(* wallet-service does is left to the other modules: it answers or not.    *)
(* The gateway has no state of its own: when it exits, the requests in     *)
(* progress are lost, and one that is started again goes on.               *)
(***************************************************************************)
EXTENDS AuthSession

CONSTANTS
    AccessTTL,    \* how long an access token is valid
    MaxTime       \* bound: the clock

ASSUME GatewayAssumption == AccessTTL \in Nat /\ MaxTime \in Nat

VARIABLES
    clock,
    http,       \* where each HTTP request is, or how it was answered
    born,       \* when the tokens of its call were made
    tokens,     \* access tokens that clients got: user id and issue time
    sent        \* the RPC to wallet-service: in whose name, by which token

gvars == <<clock, http, born, tokens, sent>>
allvars == <<svars, gvars>>

InProgress == {"register", "doomed", "login", "wallet"}

(* "refused" after an RPC, "badRequest" by the gateway itself *)
Outcomes == {"answered", "refused", "badRequest", "lost"}

AccessTokens == [user : Calls, at : 0..MaxTime]

GTypeOK ==
    /\ STypeOK
    /\ clock \in 0..MaxTime
    /\ http \in [Calls -> {"none"} \cup InProgress \cup Outcomes]
    /\ born \in [Calls -> 0..MaxTime]
    /\ tokens \subseteq AccessTokens
    /\ sent \in [Calls -> {Unset} \cup [user : Calls, by : AccessTokens, at : 0..MaxTime]]

GInit ==
    /\ SInit
    /\ clock = 0
    /\ http = [r \in Calls |-> "none"]
    /\ born = [r \in Calls |-> 0]
    /\ tokens = {}
    /\ sent = [r \in Calls |-> Unset]

Becomes(r, from, to) ==
    /\ http[r] = from
    /\ http' = [http EXCEPT ![r] = to]

(* The gateway answers without an RPC. *)
Answers(r, outcome) ==
    /\ Becomes(r, "none", outcome)
    /\ UNCHANGED <<svars, clock, born, tokens, sent>>

-----------------------------------------------------------------------------
(* /user                                                                   *)

(* Mutant: stricter than auth-service. *)
AcceptableLong(u, p) == u # "" /\ p.length >= 10

(* The gateway's own opinion of credentials *)
Acceptable(u, p) == u # "" /\ p.length >= 6

(* RegisterUser of UserService makes the RPC first and checks afterwards. *)
HandleUserRegister(r, u, p) ==
    /\ Becomes(r, "none", IF Acceptable(u, p) THEN "register" ELSE "doomed")
    /\ RegisterUser(r, u, p)
    /\ born' = [born EXCEPT ![r] = clock]
    /\ UNCHANGED <<clock, tokens, sent>>

HandleUserLogin(r, u, p) ==
    \/ ~Acceptable(u, p) /\ Answers(r, "badRequest")
    \/ /\ Acceptable(u, p)
       /\ Becomes(r, "none", "login")
       /\ LoginUser(r, u, p)
       /\ UNCHANGED <<clock, born, tokens, sent>>

(* RefreshToken has no implementation: every request is refused.  So is a
   body that cannot be parsed, on any route. *)
HandleRefreshToken(r) == Answers(r, "badRequest")

(* The statements of auth-service; tokens are made before InsertToken. *)
AuthStep(r) ==
    /\ InsertUser(r) \/ InsertToken(r) \/ StoreToken(r) \/ CallFails(r)
    /\ UNCHANGED gvars

GenerateSessionTokens(r) ==
    /\ GetTokenByUserId(r)
    /\ born' = [born EXCEPT ![r] = clock]
    /\ UNCHANGED <<clock, http, tokens, sent>>

Issues(id, r) == tokens' = tokens \cup {[user |-> id, at |-> born[r]]}

RegisterReturns(r) ==
    /\ \/ /\ apc[r] = "registered" /\ Becomes(r, "register", "answered")
          /\ Issues(r, r)
       \/ /\ apc[r] = "refused" /\ Becomes(r, "register", "refused")
          /\ UNCHANGED tokens
       \/ /\ apc[r] \in {"registered", "refused"}
          /\ Becomes(r, "doomed", "badRequest")
          /\ UNCHANGED tokens
    /\ UNCHANGED <<svars, clock, born, sent>>

LoginReturns(r) ==
    /\ \/ /\ apc[r] = "granted" /\ Becomes(r, "login", "answered")
          /\ Issues(users[name[r]].id, r)
       \/ /\ apc[r] = "refused" /\ Becomes(r, "login", "refused")
          /\ UNCHANGED tokens
    /\ UNCHANGED <<svars, clock, born, sent>>

-----------------------------------------------------------------------------
(* /account and /wallet, behind AuthorizeUser                              *)

ValidateAccessToken(t) == t \in tokens /\ clock < t.at + AccessTTL

AuthorizeUser(t, id) == ValidateAccessToken(t) /\ t.user = id

(* The RPC of a request in the name of a user *)
Sends(r, t, id) ==
    /\ Becomes(r, "none", "wallet")
    /\ sent' = [sent EXCEPT ![r] = [user |-> id, by |-> t, at |-> clock]]
    /\ UNCHANGED <<svars, clock, born, tokens>>

(* Currency and owner are required. *)
HandleAccountCreate(r, t, id) == Answers(r, "badRequest") \/ Sends(r, t, id)

(* UpdateAccount does nothing. *)
HandleAccountUpdate(r) == Answers(r, "badRequest") \/ Answers(r, "answered")

HandleDeposit(r, t, id) == Answers(r, "badRequest") \/ Sends(r, t, id)
HandleWithdraw(r, t, id) == Answers(r, "badRequest") \/ Sends(r, t, id)
HandleTransferFunds(r, t, id) == Answers(r, "badRequest") \/ Sends(r, t, id)
HandleGetBalance(r, t, id) == Answers(r, "badRequest") \/ Sends(r, t, id)

(* log.Fatalf *)
GatewayExits(r) ==
    /\ http[r] = "none"
    /\ http' = [q \in Calls |-> IF q = r \/ http[q] \in InProgress THEN "lost"
                                ELSE http[q]]
    /\ UNCHANGED <<svars, clock, born, tokens, sent>>

(* The RPC names no user; a page that is no number, or absent, comes before
   the check for an absent one. *)
HandleListTransactions(r) ==
    \/ GatewayExits(r)
    \/ Answers(r, "badRequest")
    \/ Becomes(r, "none", "wallet") /\ UNCHANGED <<svars, clock, born, tokens, sent>>

WalletReturns(r) ==
    /\ \E outcome \in {"answered", "refused"} : Becomes(r, "wallet", outcome)
    /\ UNCHANGED <<svars, clock, born, tokens, sent>>

Protected(r) ==
    \/ Answers(r, "badRequest")
    \/ \E t \in tokens, id \in Calls :
          /\ AuthorizeUser(t, id)
          /\ \/ HandleAccountCreate(r, t, id) \/ HandleAccountUpdate(r)
             \/ HandleDeposit(r, t, id) \/ HandleWithdraw(r, t, id)
             \/ HandleTransferFunds(r, t, id) \/ HandleGetBalance(r, t, id)
             \/ HandleListTransactions(r)

(* HandleHealthLiveness and HandleHealthReadiness *)
HandleHealth(r) == Answers(r, "answered")

-----------------------------------------------------------------------------

GTick ==
    /\ clock < MaxTime
    /\ clock' = clock + 1
    /\ UNCHANGED <<svars, http, born, tokens, sent>>

CachedTokenExpires(u) == TokenExpires(u) /\ UNCHANGED gvars

AllAnswered ==
    /\ \A r \in Calls : http[r] \in Outcomes
    /\ UNCHANGED allvars

GNext ==
    \/ \E r \in Calls :
          \/ \E u \in Usernames, p \in Passwords :
                HandleUserRegister(r, u, p) \/ HandleUserLogin(r, u, p)
          \/ HandleRefreshToken(r) \/ HandleHealth(r) \/ Protected(r)
          \/ AuthStep(r) \/ GenerateSessionTokens(r)
          \/ RegisterReturns(r) \/ LoginReturns(r) \/ WalletReturns(r)
    \/ \E u \in Usernames : CachedTokenExpires(u)
    \/ GTick
    \/ AllAnswered

GSpec == GInit /\ [][GNext]_allvars

-----------------------------------------------------------------------------
(* Properties                                                              *)

Ids == {users[u].id : u \in DOMAIN users}

(* A registration the gateway refuses by its own checks has left no user
   behind, although its RPC is made before them: auth-service is stricter. *)
RefusedLeavesNoUser ==
    \A r \in Calls : http[r] \in {"doomed", "badRequest"} => r \notin Ids

(* Whoever auth-service has registered, however the username was typed and
   whatever became of the answer, gets past the gateway's checks at login. *)
StoredCanLogIn == \A u \in DOMAIN users : Acceptable(u, users[u].password)

(* An RPC in the name of a user comes by a token that was made for this user
   less than its lifetime ago, and the user is stored: a token is made before
   the INSERT that may fail, and gets out only after it. *)
CallsAreOwned ==
    \A r \in Calls : sent[r] # Unset =>
        /\ sent[r].user \in Ids
        /\ sent[r].by.user = sent[r].user
        /\ sent[r].at - sent[r].by.at < AccessTTL

(* Who counts as logged in was answered with a token, or is about to be. *)
LoginsAreAnswered ==
    \A u \in loggedIn : \E r \in Calls :
        /\ name[r] = u
        /\ apc[r] \in {"store", "granted"}
        /\ http[r] \in {"login", "answered"}

=============================================================================
