---------------------------- MODULE GatewayProofs ---------------------------
(***************************************************************************)
(* Proofs about AuthSession and Gateway, for any requests, usernames,      *)
(* passwords and token lifetimes.                                          *)
(***************************************************************************)
EXTENDS Gateway, FiniteSetTheorems, TLAPS

-----------------------------------------------------------------------------
(* The inductive invariant                                                 *)

(* What a call of auth-service knows at its next statement: a registration
   brings acceptable credentials and is not yet stored before its INSERT, and
   is the user it stored afterwards; a login is for a stored user, who counts
   as logged in once InsertToken has passed. *)
CallKnows(c) ==
    /\ apc[c] \in {"new", "insertUser"} => c \notin Ids
    /\ apc[c] = "insertUser" =>
          /\ name[c] \in Wellformed
          /\ password[c] \in Passwords /\ ValidatePassword(password[c])
    /\ apc[c] \in {"storeFirst", "registered"} =>
          name[c] \in DOMAIN users /\ users[name[c]].id = c
    /\ apc[c] \in {"getToken", "insertToken", "store", "granted"} =>
          name[c] \in DOMAIN users
    /\ apc[c] \in {"store", "granted"} => name[c] \in loggedIn

(* No two calls have logged in the same user. *)
OneLogin ==
    \A c, d \in Calls :
        /\ apc[c] \in {"store", "granted"} /\ apc[d] \in {"store", "granted"}
        /\ name[c] = name[d]
        => c = d

(* Only what auth-service accepts is stored. *)
StoredIsValid ==
    \A u \in DOMAIN users : u \in Wellformed /\ ValidatePassword(users[u].password)

AuthInv ==
    /\ STypeOK
    /\ \A c \in Calls : CallKnows(c)
    /\ OneLogin
    /\ StoredIsValid

(* A request that has made no RPC is unknown to auth-service; one the gateway
   refuses by itself has stored nothing and never will. *)
RequestKnows(r) ==
    /\ http[r] = "none" => apc[r] = "new"
    /\ http[r] \in {"doomed", "badRequest"} =>
          apc[r] \in {"new", "refused"} /\ r \notin Ids

(* Only stored users have tokens. *)
TokensAreOwned == \A t \in tokens : t.user \in Ids

GatewayInv ==
    /\ GTypeOK
    /\ AuthInv
    /\ \A r \in Calls : RequestKnows(r)
    /\ TokensAreOwned
    /\ CallsAreOwned

-----------------------------------------------------------------------------
(* auth-service                                                            *)

(* Ids are those of the stored users. *)
LEMMA IdsOf == \A i : i \in Ids <=> \E u \in DOMAIN users : users[u].id = i
BY DEF Ids

(* A step of one call that stores no user: what it has to establish about this
   call; the others know what they knew. *)
LEMMA CallMoves ==
    ASSUME AuthInv, NEW c \in Calls,
           UNCHANGED users,
           apc' \in [Calls -> CallSteps],
           name' \in [Calls -> Usernames \cup {Unset}],
           password' \in [Calls -> Passwords \cup {Unset}],
           \A d \in Calls : d # c =>
               apc'[d] = apc[d] /\ name'[d] = name[d] /\ password'[d] = password[d],
           loggedIn \subseteq loggedIn', loggedIn' \subseteq DOMAIN users,
           token' \subseteq DOMAIN users,
           CallKnows(c)',
           apc'[c] \in {"store", "granted"} =>
               \/ apc[c] = "store" /\ name'[c] = name[c]
               \/ name'[c] \notin loggedIn
    PROVE  AuthInv'
<1>1. STypeOK'
  BY DEF AuthInv, STypeOK
<1>2. \A i : i \in Ids' <=> i \in Ids
  BY DEF Ids
<1>3. ASSUME NEW d \in Calls PROVE CallKnows(d)'
  <2>1. CASE d = c
    BY <2>1
  <2>2. CASE d # c
    BY <2>2, <1>2 DEF AuthInv, CallKnows
  <2> QED
    BY <2>1, <2>2
<1>4. OneLogin'
  BY DEF AuthInv, OneLogin, CallKnows
<1>5. StoredIsValid'
  BY DEF AuthInv, StoredIsValid
<1> QED
  BY <1>1, <1>3, <1>4, <1>5 DEF AuthInv

(* A call begins, with credentials its first statements accept, or is
   refused. *)
LEMMA BeginKeeps ==
    ASSUME AuthInv, NEW c \in Calls, NEW u \in Usernames, NEW p \in Passwords,
           RegisterUser(c, u, p) \/ LoginUser(c, u, p)
    PROVE  /\ AuthInv'
           /\ apc[c] = "new" /\ apc'[c] # "new"
           /\ \A d \in Calls : d # c => apc'[d] = apc[d]
           /\ users' = users
           /\ RegisterUser(c, u, p) /\ ~Acceptable(u, p) => apc'[c] = "refused"
<1> USE DEF BeginsIf, Goto
<1>1. CASE RegisterUser(c, u, p)
  <2> DEFINE n == TrimSpace[u]
  <2>1. PICK ok \in {ValidateUser(u, p) /\ HashPassword(p), FALSE} :
            BeginsIf(ok, c, "insertUser", n, p)
    BY <1>1 DEF RegisterUser
  <2>2. ok \in BOOLEAN /\ (ok => n \in Wellformed /\ ValidatePassword(p))
    BY <2>1 DEF ValidateUser
  <2>3. ok => Acceptable(u, p)
    <3>1. ok => u # ""
      BY <2>2, AuthAssumption
    <3>2. ok => p.length >= 6
      <4>1. p.length \in Nat
        BY AuthAssumption
      <4> QED
        BY <2>2, <4>1 DEF ValidatePassword
    <3> QED
      BY <3>1, <3>2 DEF Acceptable
  <2>4. /\ apc[c] = "new" /\ users' = users /\ loggedIn' = loggedIn /\ token' = token
        /\ apc' = [apc EXCEPT ![c] = IF ok THEN "insertUser" ELSE "refused"]
        /\ name' = [name EXCEPT ![c] = IF ok THEN n ELSE Unset]
        /\ password' = [password EXCEPT ![c] = IF ok THEN p ELSE Unset]
    BY <2>1
  <2>5. n \in Usernames
    BY AuthAssumption
  <2> HIDE DEF n
  <2>6. /\ apc' \in [Calls -> CallSteps]
        /\ name' \in [Calls -> Usernames \cup {Unset}]
        /\ password' \in [Calls -> Passwords \cup {Unset}]
        /\ apc'[c] = IF ok THEN "insertUser" ELSE "refused"
        /\ ok => name'[c] = n /\ password'[c] = p
        /\ \A d \in Calls : d # c =>
              apc'[d] = apc[d] /\ name'[d] = name[d] /\ password'[d] = password[d]
    BY <2>4, <2>5 DEF AuthInv, STypeOK, CallSteps
  <2>7. c \notin Ids'
    BY <2>4 DEF AuthInv, CallKnows, Ids
  <2>8. CallKnows(c)'
    BY <2>2, <2>6, <2>7 DEF CallKnows
  <2>9. AuthInv'
    BY <2>4, <2>6, <2>8, CallMoves DEF AuthInv, STypeOK
  <2> QED
    BY <2>3, <2>4, <2>6, <2>9
<1>2. CASE LoginUser(c, u, p)
  <2> DEFINE ok == u \in DOMAIN users /\ ComparePassword(u, p)
  <2>1. /\ apc[c] = "new" /\ users' = users /\ loggedIn' = loggedIn /\ token' = token
        /\ apc' = [apc EXCEPT ![c] = IF ok THEN "getToken" ELSE "refused"]
        /\ name' = [name EXCEPT ![c] = IF ok THEN u ELSE Unset]
        /\ password' = [password EXCEPT ![c] = IF ok THEN p ELSE Unset]
    BY <1>2 DEF LoginUser
  <2>2. ok => u \in DOMAIN users
    OBVIOUS
  <2> HIDE DEF ok
  <2>3. /\ apc' \in [Calls -> CallSteps]
        /\ name' \in [Calls -> Usernames \cup {Unset}]
        /\ password' \in [Calls -> Passwords \cup {Unset}]
        /\ apc'[c] = IF ok THEN "getToken" ELSE "refused"
        /\ ok => name'[c] = u
        /\ \A d \in Calls : d # c =>
              apc'[d] = apc[d] /\ name'[d] = name[d] /\ password'[d] = password[d]
    BY <2>1 DEF AuthInv, STypeOK, CallSteps
  <2>4. CallKnows(c)'
    BY <2>1, <2>2, <2>3 DEF CallKnows
  <2>5. AuthInv'
    BY <2>1, <2>3, <2>4, CallMoves DEF AuthInv, STypeOK
  <2>6. ~RegisterUser(c, u, p) \/ apc'[c] = "refused"
    BY <2>1, <2>3 DEF RegisterUser
  <2> QED
    BY <2>1, <2>3, <2>5, <2>6
<1> QED
  BY <1>1, <1>2

(* The statement that makes the username unique stores a user with valid
   credentials, or refuses the call and leaves the table as it is. *)
LEMMA InsertUserKeeps ==
    ASSUME AuthInv, NEW c \in Calls, InsertUser(c)
    PROVE  /\ AuthInv'
           /\ apc'[c] # "new"
           /\ \A d \in Calls : d # c => apc'[d] = apc[d]
           /\ Ids \subseteq Ids' /\ Ids' \subseteq Ids \cup {c}
<1> DEFINE ok == name[c] \notin DOMAIN users
<1>1. /\ apc[c] = "insertUser" /\ loggedIn' = loggedIn /\ token' = token
      /\ users' = Row(c)
      /\ apc' = [apc EXCEPT ![c] = IF ok THEN "storeFirst" ELSE "refused"]
      /\ name' = IF ok THEN name ELSE [name EXCEPT ![c] = Unset]
      /\ password' = [password EXCEPT ![c] = Unset]
  BY DEF InsertUser, GoesOnIf, Goto
<1>2. /\ name[c] \in Wellformed /\ name[c] \in Usernames
      /\ password[c] \in Passwords /\ ValidatePassword(password[c])
      /\ c \notin Ids
  BY <1>1, AuthAssumption DEF AuthInv, CallKnows
<1>3. /\ apc' \in [Calls -> CallSteps]
      /\ name' \in [Calls -> Usernames \cup {Unset}]
      /\ password' \in [Calls -> Passwords \cup {Unset}]
      /\ apc'[c] = IF ok THEN "storeFirst" ELSE "refused"
      /\ ok => name'[c] = name[c]
      /\ \A d \in Calls : d # c =>
            apc'[d] = apc[d] /\ name'[d] = name[d] /\ password'[d] = password[d]
  BY <1>1 DEF AuthInv, STypeOK, CallSteps
<1>4. /\ DOMAIN users' = DOMAIN users \cup {name[c]}
      /\ \A u \in DOMAIN users : users'[u] = users[u]
      /\ ok => users'[name[c]] = [id |-> c, password |-> password[c]]
      /\ users' \in [DOMAIN users' -> [id : Calls, password : Passwords]]
  BY <1>1, <1>2 DEF Row, AuthInv, STypeOK
<1>5. Ids \subseteq Ids' /\ Ids' \subseteq Ids \cup {c}
  BY <1>4 DEF Ids
<1>6. STypeOK'
  BY <1>1, <1>2, <1>3, <1>4 DEF AuthInv, STypeOK
<1>7. ASSUME NEW d \in Calls PROVE CallKnows(d)'
  <2>1. CASE d = c
    BY <2>1, <1>3, <1>4 DEF CallKnows
  <2>2. CASE d # c
    <3>1. d \in Ids' => d \in Ids
      BY <2>2, <1>5
    <3> QED
      BY <2>2, <3>1, <1>1, <1>3, <1>4 DEF AuthInv, CallKnows
  <2> QED
    BY <2>1, <2>2
<1>8. OneLogin'
  BY <1>3 DEF AuthInv, OneLogin
<1>9. StoredIsValid'
  BY <1>2, <1>4 DEF AuthInv, StoredIsValid
<1> QED
  BY <1>3, <1>5, <1>6, <1>7, <1>8, <1>9 DEF AuthInv

(* The other statements store no user.  InsertToken passes only who does not
   count as logged in yet. *)
LEMMA StatementKeeps ==
    ASSUME AuthInv, NEW c \in Calls,
           GetTokenByUserId(c) \/ InsertToken(c) \/ StoreToken(c) \/ CallFails(c)
    PROVE  /\ AuthInv'
           /\ apc'[c] # "new"
           /\ \A d \in Calls : d # c => apc'[d] = apc[d]
           /\ users' = users
<1>1. CASE GetTokenByUserId(c)
  <2>1. /\ apc[c] = "getToken"
        /\ users' = users /\ loggedIn' = loggedIn /\ token' = token
    BY <1>1 DEF GetTokenByUserId
  <2>2. /\ apc'[c] \in {"insertToken", "refused"}
        /\ apc'[c] = "insertToken" => name'[c] = name[c]
        /\ apc' \in [Calls -> CallSteps]
        /\ name' \in [Calls -> Usernames \cup {Unset}]
        /\ password' \in [Calls -> Passwords \cup {Unset}]
        /\ \A d \in Calls : d # c =>
              apc'[d] = apc[d] /\ name'[d] = name[d] /\ password'[d] = password[d]
    BY <1>1 DEF GetTokenByUserId, GoesOnIf, Goto, AuthInv, STypeOK, CallSteps
  <2>3. CallKnows(c)'
    BY <2>1, <2>2 DEF AuthInv, CallKnows
  <2> QED
    BY <2>1, <2>2, <2>3, CallMoves DEF AuthInv, STypeOK
<1>2. CASE InsertToken(c)
  <2>1. /\ apc[c] = "insertToken" /\ name[c] \in DOMAIN users
        /\ users' = users /\ loggedIn' = loggedIn \cup {name[c]} /\ token' = token
    BY <1>2 DEF InsertToken, AuthInv, CallKnows
  <2>2. /\ apc'[c] \in {"store", "refused"}
        /\ apc'[c] = "store" => name'[c] = name[c] /\ name[c] \notin loggedIn
        /\ apc' \in [Calls -> CallSteps]
        /\ name' \in [Calls -> Usernames \cup {Unset}]
        /\ password' \in [Calls -> Passwords \cup {Unset}]
        /\ \A d \in Calls : d # c =>
              apc'[d] = apc[d] /\ name'[d] = name[d] /\ password'[d] = password[d]
    BY <1>2 DEF InsertToken, GoesOnIf, Goto, AuthInv, STypeOK, CallSteps
  <2>3. CallKnows(c)'
    BY <2>1, <2>2 DEF CallKnows
  <2> QED
    BY <2>1, <2>2, <2>3, CallMoves DEF AuthInv, STypeOK
<1>3. CASE StoreToken(c)
  <2>1. /\ apc[c] \in {"storeFirst", "store"} /\ name[c] \in DOMAIN users
        /\ users' = users /\ loggedIn' = loggedIn
        /\ token' \subseteq DOMAIN users
    BY <1>3 DEF StoreToken, AuthInv, CallKnows, STypeOK
  <2>2. /\ apc'[c] = IF apc[c] = "store" THEN "granted" ELSE "registered"
        /\ name' = name
        /\ apc' \in [Calls -> CallSteps]
        /\ password' \in [Calls -> Passwords \cup {Unset}]
        /\ \A d \in Calls : d # c =>
              apc'[d] = apc[d] /\ password'[d] = password[d]
    BY <1>3 DEF StoreToken, GoesOnIf, Goto, AuthInv, STypeOK, CallSteps
  <2>3. CallKnows(c)'
    BY <2>1, <2>2 DEF AuthInv, CallKnows
  <2> QED
    BY <2>1, <2>2, <2>3, CallMoves DEF AuthInv, STypeOK
<1>4. CASE CallFails(c)
  <2>1. users' = users /\ loggedIn' = loggedIn /\ token' = token
    BY <1>4 DEF CallFails
  <2>2. /\ apc'[c] = "refused"
        /\ apc' \in [Calls -> CallSteps]
        /\ name' \in [Calls -> Usernames \cup {Unset}]
        /\ password' \in [Calls -> Passwords \cup {Unset}]
        /\ \A d \in Calls : d # c =>
              apc'[d] = apc[d] /\ name'[d] = name[d] /\ password'[d] = password[d]
    BY <1>4 DEF CallFails, GoesOnIf, Goto, AuthInv, STypeOK, CallSteps
  <2>3. CallKnows(c)'
    BY <2>2 DEF CallKnows
  <2> QED
    BY <2>1, <2>2, <2>3, CallMoves DEF AuthInv, STypeOK
<1> QED
  BY <1>1, <1>2, <1>3, <1>4

(* Nothing rests on the token in Redis. *)
LEMMA ExpiryKeeps ==
    ASSUME AuthInv, NEW u, TokenExpires(u)
    PROVE  AuthInv' /\ UNCHANGED <<users, loggedIn, apc, name, password>>
<1>1. UNCHANGED <<users, loggedIn, apc, name, password>> /\ token' \subseteq token
  BY DEF TokenExpires
<1>2. STypeOK'
  BY <1>1 DEF AuthInv, STypeOK
<1>3. \A c \in Calls : CallKnows(c)'
  BY <1>1 DEF AuthInv, CallKnows, Ids
<1>4. OneLogin' /\ StoredIsValid'
  BY <1>1 DEF AuthInv, OneLogin, StoredIsValid
<1> QED
  BY <1>1, <1>2, <1>3, <1>4 DEF AuthInv

-----------------------------------------------------------------------------
(* The gateway                                                             *)

(* A step of the gateway leaves auth-service alone. *)
LEMMA GatewayStutters ==
    ASSUME AuthInv, UNCHANGED svars
    PROVE  AuthInv' /\ Ids' = Ids
<1>1. STypeOK' /\ OneLogin' /\ StoredIsValid' /\ Ids' = Ids
  BY DEF AuthInv, STypeOK, OneLogin, StoredIsValid, Ids, svars
<1>2. \A c \in Calls : CallKnows(c)'
  BY <1>1 DEF AuthInv, CallKnows, svars
<1> QED
  BY <1>1, <1>2 DEF AuthInv

(* Ids only grow, so what was owned stays so. *)
LEMMA OwnersStay ==
    ASSUME TokensAreOwned, CallsAreOwned, Ids \subseteq Ids',
           UNCHANGED <<tokens, sent>>
    PROVE  TokensAreOwned' /\ CallsAreOwned'
BY DEF TokensAreOwned, CallsAreOwned

(* A request is answered, lost or sent on, and auth-service takes no step. *)
LEMMA RequestMoves ==
    ASSUME GatewayInv, NEW r \in Calls, NEW to \in InProgress \cup Outcomes,
           UNCHANGED <<svars, clock, born>>,
           http' = [http EXCEPT ![r] = to],
           to = "badRequest" => http[r] \in {"none", "doomed"},
           to # "doomed",
           tokens' \subseteq AccessTokens, TokensAreOwned',
           sent' \in [Calls -> {Unset} \cup
                        [user : Calls, by : AccessTokens, at : 0..MaxTime]],
           CallsAreOwned'
    PROVE  GatewayInv'
<1>1. AuthInv' /\ Ids' = Ids
  BY GatewayStutters DEF GatewayInv
<1>2. GTypeOK'
  BY <1>1 DEF GatewayInv, GTypeOK, AuthInv
<1>3. apc' = apc
  BY DEF svars
<1>4. ASSUME NEW q \in Calls PROVE RequestKnows(q)'
  <2>1. http'[q] = IF q = r THEN to ELSE http[q]
    BY DEF GatewayInv, GTypeOK
  <2>2. RequestKnows(q)
    BY DEF GatewayInv
  <2>3. to # "none"
    BY DEF InProgress, Outcomes
  <2>4. http[r] = "none" => apc[r] \in {"new", "refused"} /\ r \notin Ids
    BY DEF GatewayInv, AuthInv, RequestKnows, CallKnows
  <2>5. CASE q = r
    BY <2>1, <2>2, <2>3, <2>4, <2>5, <1>1, <1>3 DEF RequestKnows
  <2>6. CASE q # r
    BY <2>1, <2>2, <2>6, <1>1, <1>3 DEF RequestKnows
  <2> QED
    BY <2>5, <2>6
<1> QED
  BY <1>1, <1>2, <1>4 DEF GatewayInv

(* The gateway answers without an RPC. *)
LEMMA AnswersKeeps ==
    ASSUME GatewayInv, NEW r \in Calls, NEW outcome \in {"answered", "badRequest"},
           Answers(r, outcome)
    PROVE  GatewayInv'
<1>1. /\ UNCHANGED <<svars, clock, born, tokens, sent>>
      /\ http[r] = "none" /\ http' = [http EXCEPT ![r] = outcome]
  BY DEF Answers, Becomes
<1>2. TokensAreOwned' /\ CallsAreOwned'
  BY <1>1, GatewayStutters, OwnersStay DEF GatewayInv
<1> QED
  BY <1>1, <1>2, RequestMoves DEF GatewayInv, GTypeOK, InProgress, Outcomes

(* A request that may act for a user is sent in the name of this user. *)
LEMMA SendsKeeps ==
    ASSUME GatewayInv, NEW r \in Calls, NEW t \in tokens, NEW id \in Calls,
           AuthorizeUser(t, id), Sends(r, t, id)
    PROVE  GatewayInv'
<1> DEFINE rpc == [user |-> id, by |-> t, at |-> clock]
<1>1. /\ UNCHANGED <<svars, clock, born, tokens>>
      /\ http[r] = "none" /\ http' = [http EXCEPT ![r] = "wallet"]
      /\ sent' = [sent EXCEPT ![r] = rpc]
  BY DEF Sends, Becomes
<1>2. /\ t \in AccessTokens /\ clock \in 0..MaxTime /\ t.at \in 0..MaxTime
      /\ t.user = id /\ clock < t.at + AccessTTL
  BY DEF GatewayInv, GTypeOK, AuthorizeUser, ValidateAccessToken, AccessTokens
<1>3. rpc \in [user : Calls, by : AccessTokens, at : 0..MaxTime]
  BY <1>2
<1>4. Ids' = Ids
  BY <1>1, GatewayStutters DEF GatewayInv
<1>5. TokensAreOwned'
  BY <1>1, <1>4 DEF GatewayInv, TokensAreOwned
<1>6. /\ rpc.user \in Ids
      /\ rpc.by.user = rpc.user
      /\ rpc.at - rpc.by.at < AccessTTL
  BY <1>2, GatewayAssumption DEF GatewayInv, TokensAreOwned
<1> HIDE DEF rpc
<1>7. CallsAreOwned'
  <2>1. \A q \in Calls : sent'[q] = IF q = r THEN rpc ELSE sent[q]
    BY <1>1 DEF GatewayInv, GTypeOK
  <2> QED
    BY <2>1, <1>4, <1>6 DEF GatewayInv, CallsAreOwned
<1>8. sent' \in [Calls -> {Unset} \cup [user : Calls, by : AccessTokens, at : 0..MaxTime]]
  BY <1>1, <1>3 DEF GatewayInv, GTypeOK
<1> QED
  BY <1>1, <1>5, <1>7, <1>8, RequestMoves DEF GatewayInv, GTypeOK, InProgress, Outcomes

(* log.Fatalf ends every request in progress. *)
LEMMA ExitKeeps ==
    ASSUME GatewayInv, NEW r \in Calls, GatewayExits(r)
    PROVE  GatewayInv'
<1>1. /\ UNCHANGED <<svars, clock, born, tokens, sent>>
      /\ http' = [q \in Calls |-> IF q = r \/ http[q] \in InProgress THEN "lost"
                                  ELSE http[q]]
  BY DEF GatewayExits
<1>2. AuthInv' /\ Ids' = Ids /\ apc' = apc
  BY <1>1, GatewayStutters DEF GatewayInv, svars
<1>3. TokensAreOwned' /\ CallsAreOwned'
  BY <1>1, <1>2, OwnersStay DEF GatewayInv
<1>4. GTypeOK'
  BY <1>1, <1>2 DEF GatewayInv, GTypeOK, AuthInv, Outcomes
<1>5. \A q \in Calls : RequestKnows(q)'
  BY <1>1, <1>2 DEF GatewayInv, RequestKnows
<1> QED
  BY <1>2, <1>3, <1>4, <1>5 DEF GatewayInv

(* The answer of an RPC to auth-service: a token gets out only for a user
   that is stored. *)
LEMMA ReturnKeeps ==
    ASSUME GatewayInv, NEW r \in Calls, RegisterReturns(r) \/ LoginReturns(r)
    PROVE  GatewayInv'
<1>1. UNCHANGED <<svars, clock, born, sent>>
  BY DEF RegisterReturns, LoginReturns
<1>2. Ids' = Ids
  BY <1>1, GatewayStutters DEF GatewayInv
<1>3. CallsAreOwned'
  BY <1>1, <1>2 DEF GatewayInv, CallsAreOwned
<1>4. ASSUME NEW id \in Ids, Issues(id, r)
      PROVE  tokens' \subseteq AccessTokens /\ TokensAreOwned'
  <2>1. id \in Calls
    BY <1>4 DEF Ids, GatewayInv, AuthInv, STypeOK
  <2>2. [user |-> id, at |-> born[r]] \in AccessTokens
    BY <2>1 DEF GatewayInv, GTypeOK, AccessTokens
  <2>3. tokens' = tokens \cup {[user |-> id, at |-> born[r]]}
    BY <1>4 DEF Issues
  <2> QED
    BY <2>2, <2>3, <1>2, <1>4 DEF GatewayInv, GTypeOK, TokensAreOwned
<1>5. UNCHANGED tokens => tokens' \subseteq AccessTokens /\ TokensAreOwned'
  BY <1>2 DEF GatewayInv, GTypeOK, TokensAreOwned
<1>6. tokens' \subseteq AccessTokens /\ TokensAreOwned'
  <2>1. CASE apc[r] = "registered" /\ Issues(r, r)
    <3>1. r \in Ids
      BY <2>1 DEF GatewayInv, AuthInv, CallKnows, Ids
    <3> QED
      BY <3>1, <2>1, <1>4
  <2>2. CASE apc[r] = "granted" /\ Issues(users[name[r]].id, r)
    <3>1. users[name[r]].id \in Ids
      BY <2>2 DEF GatewayInv, AuthInv, CallKnows, Ids
    <3> QED
      BY <3>1, <2>2, <1>4
  <2> QED
    BY <2>1, <2>2, <1>5 DEF RegisterReturns, LoginReturns
<1>7. PICK to \in {"answered", "refused", "badRequest"} :
         /\ http' = [http EXCEPT ![r] = to]
         /\ to = "badRequest" => http[r] = "doomed"
  BY DEF RegisterReturns, LoginReturns, Becomes
<1> QED
  BY <1>1, <1>3, <1>6, <1>7, RequestMoves
     DEF GatewayInv, GTypeOK, InProgress, Outcomes

(* A step of a call of auth-service beside a gateway that may move the request
   the call belongs to. *)
LEMMA CallKeeps ==
    ASSUME GatewayInv, NEW r \in Calls, AuthInv',
           Ids \subseteq Ids', Ids' \subseteq Ids \cup {r},
           apc'[r] # "new",
           \A d \in Calls : d # r => apc'[d] = apc[d],
           UNCHANGED <<clock, tokens, sent>>,
           born' \in [Calls -> 0..MaxTime],
           NEW to \in {"none"} \cup InProgress \cup Outcomes,
           http' = [http EXCEPT ![r] = to],
           to # "none" /\ (to \in {"doomed", "badRequest"} =>
                             apc'[r] = "refused" /\ r \notin Ids')
    PROVE  GatewayInv'
<1>1. TokensAreOwned' /\ CallsAreOwned'
  BY OwnersStay DEF GatewayInv
<1>2. GTypeOK'
  BY DEF GatewayInv, GTypeOK, AuthInv
<1>3. ASSUME NEW q \in Calls PROVE RequestKnows(q)'
  <2>1. http'[q] = IF q = r THEN to ELSE http[q]
    BY DEF GatewayInv, GTypeOK
  <2>2. CASE q = r
    BY <2>1, <2>2 DEF RequestKnows
  <2>3. CASE q # r
    <3>1. q \in Ids' => q \in Ids
      BY <2>3
    <3> QED
      BY <2>1, <2>3, <3>1 DEF GatewayInv, RequestKnows
  <2> QED
    BY <2>2, <2>3
<1> QED
  BY <1>1, <1>2, <1>3 DEF GatewayInv

(* A handler of /user makes its RPC.  A registration the gateway will refuse
   is one that auth-service refuses at once. *)
LEMMA UserHandlersKeep ==
    ASSUME GatewayInv, NEW r \in Calls, NEW u \in Usernames, NEW p \in Passwords,
           HandleUserRegister(r, u, p) \/ HandleUserLogin(r, u, p)
    PROVE  GatewayInv'
<1>1. CASE HandleUserRegister(r, u, p)
  <2> DEFINE to == IF Acceptable(u, p) THEN "register" ELSE "doomed"
  <2>1. /\ RegisterUser(r, u, p)
        /\ http' = [http EXCEPT ![r] = to]
        /\ born' = [born EXCEPT ![r] = clock] /\ UNCHANGED <<clock, tokens, sent>>
    BY <1>1 DEF HandleUserRegister, Becomes
  <2>2. /\ AuthInv' /\ users' = users /\ apc[r] = "new" /\ apc'[r] # "new"
        /\ \A d \in Calls : d # r => apc'[d] = apc[d]
        /\ ~Acceptable(u, p) => apc'[r] = "refused"
    BY <2>1, BeginKeeps DEF GatewayInv
  <2>3. Ids' = Ids /\ r \notin Ids
    BY <2>2 DEF Ids, GatewayInv, AuthInv, CallKnows
  <2>4. born' \in [Calls -> 0..MaxTime]
    BY <2>1 DEF GatewayInv, GTypeOK
  <2>5. /\ to \in {"none"} \cup InProgress \cup Outcomes
        /\ to # "none"
        /\ to \in {"doomed", "badRequest"} => apc'[r] = "refused" /\ r \notin Ids'
    BY <2>2, <2>3 DEF InProgress
  <2> HIDE DEF to
  <2> QED
    BY <2>1, <2>2, <2>3, <2>4, <2>5, CallKeeps
<1>2. CASE HandleUserLogin(r, u, p)
  <2>1. CASE Answers(r, "badRequest")
    BY <2>1, AnswersKeeps
  <2>2. CASE Becomes(r, "none", "login") /\ LoginUser(r, u, p)
             /\ UNCHANGED <<clock, born, tokens, sent>>
    <3>1. /\ AuthInv' /\ users' = users /\ apc'[r] # "new"
          /\ \A d \in Calls : d # r => apc'[d] = apc[d]
      BY <2>2, BeginKeeps DEF GatewayInv
    <3>2. Ids' = Ids
      BY <3>1 DEF Ids
    <3> QED
      BY <2>2, <3>1, <3>2, CallKeeps
         DEF Becomes, GatewayInv, GTypeOK, InProgress, Outcomes
  <2> QED
    BY <1>2, <2>1, <2>2 DEF HandleUserLogin
<1> QED
  BY <1>1, <1>2

(* A statement of auth-service for a request the gateway waits for, or has
   lost. *)
LEMMA AuthStepsKeep ==
    ASSUME GatewayInv, NEW r \in Calls, AuthStep(r) \/ GenerateSessionTokens(r)
    PROVE  GatewayInv'
<1>1. apc[r] \notin {"new", "refused"}
  BY DEF AuthStep, GenerateSessionTokens, InsertUser, InsertToken, StoreToken,
         CallFails, GetTokenByUserId
<1>2. /\ AuthInv' /\ apc'[r] # "new"
      /\ \A d \in Calls : d # r => apc'[d] = apc[d]
      /\ Ids \subseteq Ids' /\ Ids' \subseteq Ids \cup {r}
  <2>1. CASE InsertUser(r)
    BY <2>1, InsertUserKeeps DEF GatewayInv
  <2>2. CASE GetTokenByUserId(r) \/ InsertToken(r) \/ StoreToken(r) \/ CallFails(r)
    <3>1. /\ AuthInv' /\ apc'[r] # "new" /\ users' = users
          /\ \A d \in Calls : d # r => apc'[d] = apc[d]
      BY <2>2, StatementKeeps DEF GatewayInv
    <3>2. Ids' = Ids
      BY <3>1 DEF Ids
    <3> QED
      BY <3>1, <3>2
  <2> QED
    BY <2>1, <2>2 DEF AuthStep, GenerateSessionTokens
<1>3. /\ UNCHANGED <<clock, http, tokens, sent>>
      /\ born' \in [Calls -> 0..MaxTime]
  BY DEF AuthStep, GenerateSessionTokens, gvars, GatewayInv, GTypeOK
<1>4. PICK to : to = http[r]
  OBVIOUS
<1>5. /\ to \in {"none"} \cup InProgress \cup Outcomes
      /\ to \notin {"none", "doomed", "badRequest"}
      /\ http' = [http EXCEPT ![r] = to]
  BY <1>1, <1>3, <1>4 DEF GatewayInv, GTypeOK, RequestKnows
<1> QED
  BY <1>2, <1>3, <1>5, CallKeeps

(* What the middleware lets through, and what it does not. *)
LEMMA ProtectedKeeps ==
    ASSUME GatewayInv, NEW r \in Calls, Protected(r)
    PROVE  GatewayInv'
<1>1. \/ Answers(r, "badRequest") \/ Answers(r, "answered") \/ GatewayExits(r)
      \/ \E t \in tokens, id \in Calls : AuthorizeUser(t, id) /\ Sends(r, t, id)
      \/ Becomes(r, "none", "wallet") /\ UNCHANGED <<svars, clock, born, tokens, sent>>
  BY DEF Protected, HandleAccountCreate, HandleAccountUpdate, HandleDeposit,
         HandleWithdraw, HandleTransferFunds, HandleGetBalance,
         HandleListTransactions
<1>2. ASSUME Becomes(r, "none", "wallet"),
             UNCHANGED <<svars, clock, born, tokens, sent>>
      PROVE  GatewayInv'
  <2>1. TokensAreOwned' /\ CallsAreOwned'
    BY <1>2, GatewayStutters, OwnersStay DEF GatewayInv
  <2> QED
    BY <1>2, <2>1, RequestMoves
       DEF Becomes, GatewayInv, GTypeOK, InProgress, Outcomes
<1> QED
  BY <1>1, <1>2, AnswersKeeps, ExitKeeps, SendsKeeps

(* The answer of wallet-service. *)
LEMMA WalletKeeps ==
    ASSUME GatewayInv, NEW r \in Calls, WalletReturns(r)
    PROVE  GatewayInv'
<1>1. PICK to \in {"answered", "refused"} : http' = [http EXCEPT ![r] = to]
  BY DEF WalletReturns, Becomes
<1>2. UNCHANGED <<svars, clock, born, tokens, sent>>
  BY DEF WalletReturns
<1>3. TokensAreOwned' /\ CallsAreOwned'
  BY <1>2, GatewayStutters, OwnersStay DEF GatewayInv
<1> QED
  BY <1>1, <1>2, <1>3, RequestMoves DEF GatewayInv, GTypeOK, InProgress, Outcomes

(* Time passes, a cached token expires, or nothing happens. *)
LEMMA BackgroundKeeps ==
    ASSUME GatewayInv,
           GTick \/ (\E u \in Usernames : CachedTokenExpires(u)) \/ UNCHANGED allvars
    PROVE  GatewayInv'
<1>1. AuthInv' /\ users' = users /\ apc' = apc
  BY GatewayStutters, ExpiryKeeps
     DEF GTick, CachedTokenExpires, allvars, svars, GatewayInv
<1>2. Ids' = Ids
  BY <1>1 DEF Ids
<1>3. clock' \in 0..MaxTime /\ UNCHANGED <<http, born, tokens, sent>>
  <2>1. clock \in 0..MaxTime /\ MaxTime \in Nat
    BY GatewayAssumption DEF GatewayInv, GTypeOK
  <2>2. CASE GTick
    BY <2>1, <2>2 DEF GTick
  <2>3. CASE UNCHANGED gvars
    BY <2>1, <2>3 DEF gvars
  <2> QED
    BY <2>2, <2>3 DEF CachedTokenExpires, allvars
<1>4. GTypeOK'
  BY <1>1, <1>3 DEF GatewayInv, GTypeOK, AuthInv
<1>5. \A r \in Calls : RequestKnows(r)'
  BY <1>1, <1>2, <1>3 DEF GatewayInv, RequestKnows
<1>6. TokensAreOwned' /\ CallsAreOwned'
  BY <1>2, <1>3, OwnersStay DEF GatewayInv
<1> QED
  BY <1>1, <1>4, <1>5, <1>6 DEF GatewayInv

-----------------------------------------------------------------------------
(* The theorems                                                            *)

(* No user, no token, no request. *)
LEMMA GatewayStarts == GInit => GatewayInv
<1> SUFFICES ASSUME GInit PROVE GatewayInv
  OBVIOUS
<1>1. DOMAIN users = {}
  BY DEF GInit, SInit
<1>2. Ids = {}
  BY <1>1 DEF Ids
<1>3. STypeOK
  BY <1>1 DEF GInit, SInit, STypeOK, CallSteps
<1>4. GTypeOK
  BY <1>3, GatewayAssumption DEF GInit, GTypeOK
<1>5. /\ \A c \in Calls : CallKnows(c)
      /\ OneLogin /\ StoredIsValid
  BY <1>1, <1>2 DEF GInit, SInit, CallKnows, OneLogin, StoredIsValid
<1>6. \A r \in Calls : RequestKnows(r)
  BY DEF GInit, SInit, RequestKnows
<1>7. TokensAreOwned /\ CallsAreOwned
  BY DEF GInit, TokensAreOwned, CallsAreOwned
<1> QED
  BY <1>3, <1>4, <1>5, <1>6, <1>7 DEF GatewayInv, AuthInv

(* Every step of the gateway and of auth-service keeps the invariant. *)
LEMMA GatewayKeeps == GatewayInv /\ [GNext]_allvars => GatewayInv'
<1> SUFFICES ASSUME GatewayInv, [GNext]_allvars PROVE GatewayInv'
  OBVIOUS
<1>1. ASSUME NEW r \in Calls, NEW u \in Usernames, NEW p \in Passwords,
             HandleUserRegister(r, u, p) \/ HandleUserLogin(r, u, p)
      PROVE  GatewayInv'
  BY <1>1, UserHandlersKeep
<1>2. ASSUME NEW r \in Calls, HandleRefreshToken(r) \/ HandleHealth(r)
      PROVE  GatewayInv'
  BY <1>2, AnswersKeeps DEF HandleRefreshToken, HandleHealth
<1>3. ASSUME NEW r \in Calls, Protected(r) PROVE GatewayInv'
  BY <1>3, ProtectedKeeps
<1>4. ASSUME NEW r \in Calls, AuthStep(r) \/ GenerateSessionTokens(r)
      PROVE  GatewayInv'
  BY <1>4, AuthStepsKeep
<1>5. ASSUME NEW r \in Calls, RegisterReturns(r) \/ LoginReturns(r)
      PROVE  GatewayInv'
  BY <1>5, ReturnKeeps
<1>6. ASSUME NEW r \in Calls, WalletReturns(r) PROVE GatewayInv'
  BY <1>6, WalletKeeps
<1>7. CASE GTick \/ (\E u \in Usernames : CachedTokenExpires(u))
           \/ UNCHANGED allvars
  BY <1>7, BackgroundKeeps
<1> QED
  BY <1>1, <1>2, <1>3, <1>4, <1>5, <1>6, <1>7 DEF GNext, AllAnswered

(* The invariant holds throughout. *)
LEMMA GatewayInvariant == GSpec => []GatewayInv
BY GatewayStarts, GatewayKeeps, PTL DEF GSpec

(* A set of which any two elements are equal has at most one. *)
LEMMA AtMostOne ==
    ASSUME NEW S, \A x, y \in S : x = y
    PROVE  Cardinality(S) <= 1
<1>1. CASE S = {}
  BY <1>1, FS_EmptySet
<1>2. CASE S # {}
  <2>1. PICK x : S = {x}
    BY <1>2
  <2> QED
    BY <2>1, FS_Singleton
<1> QED
  BY <1>1, <1>2

(* Users, sessions, HTTP requests, tokens and the RPCs sent keep their types:
   what goes to wallet-service names a user and a token that was made. *)
THEOREM GatewayTyped == GSpec => []GTypeOK
<1>1. GatewayInv => GTypeOK
  BY DEF GatewayInv
<1> QED
  BY <1>1, GatewayInvariant, PTL

(* For any number of overlapping calls, one of those for a username registers
   it and one logs in. *)
THEOREM OneCallOfEach == GSpec => []OneOfEach
<1>1. ASSUME GatewayInv, NEW u \in Usernames PROVE
        /\ Cardinality({c \in Calls : name[c] = u
                          /\ apc[c] \in {"storeFirst", "registered"}}) <= 1
        /\ Cardinality({c \in Calls : name[c] = u
                          /\ apc[c] \in {"store", "granted"}}) <= 1
  <2>1. \A c, d \in Calls :
           /\ name[c] = u /\ apc[c] \in {"storeFirst", "registered"}
           /\ name[d] = u /\ apc[d] \in {"storeFirst", "registered"}
           => c = d
    BY <1>1 DEF GatewayInv, AuthInv, CallKnows
  <2>2. \A c, d \in Calls :
           /\ name[c] = u /\ apc[c] \in {"store", "granted"}
           /\ name[d] = u /\ apc[d] \in {"store", "granted"}
           => c = d
    BY <1>1 DEF GatewayInv, AuthInv, OneLogin
  <2> QED
    BY <2>1, <2>2, AtMostOne
<1>2. GatewayInv => OneOfEach
  BY <1>1 DEF OneOfEach
<1> QED
  BY <1>2, GatewayInvariant, PTL

(* What the gateway refuses by its own checks was never stored, although the
   RPC comes first. *)
THEOREM RefusalLeavesNoUser == GSpec => []RefusedLeavesNoUser
<1>1. GatewayInv => RefusedLeavesNoUser
  BY DEF GatewayInv, RequestKnows, RefusedLeavesNoUser
<1> QED
  BY <1>1, GatewayInvariant, PTL

(* Every stored user gets past the gateway's checks at login. *)
THEOREM StoredUsersCanLogIn == GSpec => []StoredCanLogIn
<1>1. ASSUME GatewayInv PROVE StoredCanLogIn
  <2>1. ASSUME NEW u \in DOMAIN users PROVE Acceptable(u, users[u].password)
    <3>1. u # "" /\ ValidatePassword(users[u].password)
      BY <1>1, AuthAssumption DEF GatewayInv, AuthInv, StoredIsValid
    <3>2. users[u].password \in Passwords
      <4>1. users[u] \in [id : Calls, password : Passwords]
        BY <1>1 DEF GatewayInv, AuthInv, STypeOK
      <4> QED
        BY <4>1
    <3>3. \A p \in Passwords : ValidatePassword(p) => p.length >= 6
      <4> SUFFICES ASSUME NEW p \in Passwords, ValidatePassword(p)
                   PROVE  p.length >= 6
        OBVIOUS
      <4>1. p.length \in Nat
        BY AuthAssumption
      <4> QED
        BY <4>1 DEF ValidatePassword
    <3> QED
      BY <3>1, <3>2, <3>3 DEF Acceptable
  <2> QED
    BY <2>1 DEF StoredCanLogIn
<1> QED
  BY <1>1, GatewayInvariant, PTL

(* An RPC to wallet-service in the name of a user comes by a live token of
   this user, who is stored. *)
THEOREM RPCsAreOwned == GSpec => []CallsAreOwned
<1>1. GatewayInv => CallsAreOwned
  BY DEF GatewayInv
<1> QED
  BY <1>1, GatewayInvariant, PTL

=============================================================================
