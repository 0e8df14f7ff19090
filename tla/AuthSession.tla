---------------------------- MODULE AuthSession -----------------------------
(***************************************************************************)
(* auth-service: RegisterUser and LoginUser of AuthService over            *)
(* AuthRepository.  Each call is a sequence of statements; calls for the   *)
(* same user overlap.  A session is two things: the row of user_auth with  *)
(* is_currently_logged_in, and the token in Redis with the TTL of the      *)
(* access token.  DeleteToken, DeleteTokenByUserId, AuthorizeUser and      *)
(* RefreshToken are never called or not implemented and are no actions.    *)
(***************************************************************************)
EXTENDS Naturals, FiniteSets

CONSTANTS
    Calls,        \* each makes up at most one user id: the call stands for it
    Usernames,    \* as they are typed
    TrimSpace,    \* what is left of each without white space around it
    Wellformed,   \* those that match usernameRegex
    Passwords,    \* [length, strong]: strong if it has all four classes
    Unset

ASSUME AuthAssumption ==
    /\ TrimSpace \in [Usernames -> Usernames]
    /\ Wellformed \subseteq Usernames \ {""}
    /\ "" \in Usernames => TrimSpace[""] = ""
    /\ Passwords \subseteq [length : Nat, strong : BOOLEAN]
    /\ Unset \notin Usernames

VARIABLES
    users,      \* the table users: id and password of each username
    loggedIn,   \* usernames with is_currently_logged_in in user_auth
    token,      \* usernames with a token in Redis
    apc,        \* the next statement of each call, or how it ended
    name,       \* the username it is for
    password    \* the password it brings

svars == <<users, loggedIn, token, apc, name, password>>

CallSteps == {"new", "insertUser", "storeFirst", "getToken", "insertToken",
              "store", "registered", "granted", "refused"}

STypeOK ==
    /\ DOMAIN users \subseteq Usernames
    /\ users \in [DOMAIN users -> [id : Calls, password : Passwords]]
    /\ loggedIn \subseteq DOMAIN users
    /\ token \subseteq DOMAIN users
    /\ apc \in [Calls -> CallSteps]
    /\ name \in [Calls -> Usernames \cup {Unset}]
    /\ password \in [Calls -> Passwords \cup {Unset}]

SInit ==
    /\ users = << >>
    /\ loggedIn = {}
    /\ token = {}
    /\ apc = [c \in Calls |-> "new"]
    /\ name = [c \in Calls |-> Unset]
    /\ password = [c \in Calls |-> Unset]

Goto(c, s) == apc' = [apc EXCEPT ![c] = s]

(* The call goes on for username u with password p, or is refused. *)
BeginsIf(ok, c, s, u, p) ==
    /\ apc[c] = "new"
    /\ Goto(c, IF ok THEN s ELSE "refused")
    /\ name' = [name EXCEPT ![c] = IF ok THEN u ELSE Unset]
    /\ password' = [password EXCEPT ![c] = IF ok THEN p ELSE Unset]
    /\ UNCHANGED <<users, loggedIn, token>>

GoesOnIf(ok, c, s) ==
    /\ Goto(c, IF ok THEN s ELSE "refused")
    /\ name' = IF ok THEN name ELSE [name EXCEPT ![c] = Unset]
    /\ password' = [password EXCEPT ![c] = Unset]

-----------------------------------------------------------------------------
(* RegisterUser                                                            *)

(* Mutant: a shorter password will do. *)
ValidateShort(p) == p.length >= 4 /\ p.strong

ValidatePassword(p) == p.length >= 8 /\ p.strong

(* The username is trimmed before it is looked at.  Name and email are left
   out: they may refuse any call. *)
ValidateUser(u, p) == TrimSpace[u] \in Wellformed /\ ValidatePassword(p)

(* bcrypt takes at most 72 bytes. *)
HashPassword(p) == p.length \in 1..72

(* The user is looked up by an id made up a moment before, so only the
   INSERT can find that the username is taken. *)
RegisterUser(c, u, p) ==
    \E ok \in {ValidateUser(u, p) /\ HashPassword(p), FALSE} :
        BeginsIf(ok, c, "insertUser", TrimSpace[u], p)

Row(c) == [n \in DOMAIN users \cup {name[c]} |->
             IF n \in DOMAIN users THEN users[n]
             ELSE [id |-> c, password |-> password[c]]]

(* Mutant: ON CONFLICT DO NOTHING, and its result is not looked at. *)
InsertIgnoringConflict(c) ==
    /\ apc[c] = "insertUser"
    /\ users' = Row(c)
    /\ GoesOnIf(TRUE, c, "storeFirst")
    /\ UNCHANGED <<loggedIn, token>>

InsertUser(c) ==
    /\ apc[c] = "insertUser"
    /\ users' = Row(c)
    /\ GoesOnIf(name[c] \notin DOMAIN users, c, "storeFirst")
    /\ UNCHANGED <<loggedIn, token>>

-----------------------------------------------------------------------------
(* LoginUser                                                               *)

ComparePassword(u, p) == users[u].password = p

(* FindByUsername, with the username as it was typed *)
LoginUser(c, u, p) ==
    BeginsIf(u \in DOMAIN users /\ ComparePassword(u, p), c, "getToken", u, p)

GetTokenByUserId(c) ==
    /\ apc[c] = "getToken"
    /\ GoesOnIf(name[c] \notin loggedIn, c, "insertToken")
    /\ UNCHANGED <<users, loggedIn, token>>

(* Mutant: ON CONFLICT DO UPDATE without its WHERE. *)
UpsertToken(c) ==
    /\ apc[c] = "insertToken"
    /\ loggedIn' = loggedIn \cup {name[c]}
    /\ GoesOnIf(TRUE, c, "store")
    /\ UNCHANGED <<users, token>>

(* INSERT ... ON CONFLICT DO UPDATE ... WHERE is_currently_logged_in = false *)
InsertToken(c) ==
    /\ apc[c] = "insertToken"
    /\ loggedIn' = loggedIn \cup {name[c]}
    /\ GoesOnIf(name[c] \notin loggedIn, c, "store")
    /\ UNCHANGED <<users, token>>

-----------------------------------------------------------------------------

(* StoreToken, whose failure is at most logged, and the answer. *)
StoreToken(c) ==
    /\ apc[c] \in {"storeFirst", "store"}
    /\ token' \in {token \cup {name[c]}, token}
    /\ GoesOnIf(TRUE, c, IF apc[c] = "store" THEN "granted" ELSE "registered")
    /\ UNCHANGED <<users, loggedIn>>

(* A statement fails, or the process dies: the call ends without answer. *)
CallFails(c) ==
    /\ apc[c] \notin {"new", "registered", "granted", "refused"}
    /\ GoesOnIf(FALSE, c, "refused")
    /\ UNCHANGED <<users, loggedIn, token>>

TokenExpires(u) ==
    /\ u \in token
    /\ token' = token \ {u}
    /\ UNCHANGED <<users, loggedIn, apc, name, password>>

-----------------------------------------------------------------------------
(* Properties                                                              *)

(* However calls for a username race, one of them registers it and one of
   them logs in: between the check for a session and the INSERT that opens
   one another login may come, and still no two calls both pass. *)
OneOfEach ==
    \A u \in Usernames : \A steps \in {{"storeFirst", "registered"},
                                       {"store", "granted"}} :
        Cardinality({c \in Calls : name[c] = u /\ apc[c] \in steps}) <= 1

(* Who counts as logged in has a session that has not expired, or a call
   that is about to store it. *)
LoggedInHasSession ==
    \A u \in loggedIn :
        u \in token \/ \E c \in Calls : name[c] = u /\ apc[c] = "store"

=============================================================================
