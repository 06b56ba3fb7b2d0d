------------------------------- MODULE Sessions -------------------------------
(***************************************************************************)
(* Who may use the gateway: accounts (users service), tokens (auth         *)
(* service), the routes /auth and /users of the gateway and its guards.    *)
(*                                                                         *)
(* A call of a browser visits the two services in turn; one action is what *)
(* a service does with it between two awaits.  The queues of both services *)
(* take every message off at delivery and disappear with their service: a  *)
(* call that is there, or sent there, while the service stops is never     *)
(* answered, and the gateway waits for ever.  A stop of a process and its  *)
(* next start are one step.                                                *)
(*                                                                         *)
(* Time is counted in units of which a refresh token lives Lifetime, and   *)
(* the document of a token TTL.  Calls refused for want of a header or a   *)
(* cookie change nothing and are left out; /auth/me and GET /users go the  *)
(* same way and are both "read"; what an administrator wants of users is   *)
(* chosen when the users service gets to it.                               *)
(***************************************************************************)
EXTENDS Naturals

CONSTANTS User,             \* ids of accounts: a new account takes a new id
          Password, Browser,
          Refresh,          \* refresh tokens, by their jti; reused when out of use
          Call,             \* calls open at once
          Lifetime,         \* REFRESH_TOKEN_LIFETIME
          TTL,              \* expireAfterSeconds of the token documents
          None, Unborn, Removed

ASSUME LifetimeAssumption == Lifetime \in Nat \ {0} /\ TTL \in Nat /\ Lifetime <= TTL
ASSUME NoneAssumption ==
    None \notin User \cup Password \cup Browser \cup Refresh \cup {"login", "token", "read", "admin"}

Account == [role : {"admin", "guest"}, password : Password]
ASSUME AccountAssumption == {Unborn, Removed} \cap Account = {} /\ Unborn # Removed

\* none: no document, as yet or for good; saving: it is on its way to the database.
Token == [owner : User \cup {None}, age : 0..Lifetime,
          doc : {"none", "saving", "stored", "dropped"}, docAge : 0..TTL]

\* user: the account that logs in, or whose access token the call brings.
\* browser: None once the gateway that sent the call is gone.
\* entitled: history, see GrantsEntitled.
CallRecord == [kind : {None, "login", "token", "read", "admin"},
               step : {"idle", "find", "tokens", "save", "verify", "lookup", "role",
                       "operate", "answer", "lost"},
               browser : Browser \cup {None}, user : User \cup {None},
               password : Password \cup {None}, token : Refresh \cup {None},
               entitled : BOOLEAN]

Idle == [kind |-> None, step |-> "idle", browser |-> None, user |-> None,
         password |-> None, token |-> None, entitled |-> FALSE]

VARIABLES account,          \* the collection of users
          token,            \* refresh tokens and their documents
          cookie,           \* the cookie refreshToken of each browser
          bearer,           \* whose unexpired access token each browser has
          call

vars == <<account, token, cookie, bearer, call>>

Init == /\ account \in [User -> Account \cup {Unborn}]
        /\ token = [r \in Refresh |-> [owner |-> None, age |-> Lifetime, doc |-> "none", docAge |-> TTL]]
        /\ cookie = [b \in Browser |-> None]
        /\ bearer = [b \in Browser |-> None]
        /\ call = [c \in Call |-> Idle]

-----------------------------------------------------------------------------
(* Calls.                                                                  *)

\* What a call needs of the account a: its password, or the role of an administrator.
Entitles(k, a) == /\ a \in Account
                  /\ \/ k.kind = "login" /\ a.password = k.password
                     \/ k.kind = "admin" /\ a.role = "admin"

Begin(c, k) == /\ call[c] = Idle
               /\ call' = [call EXCEPT ![c] = k]
               /\ UNCHANGED <<account, cookie, bearer>>

Go(c, s) == call' = [call EXCEPT ![c].step = s]

\* The answer is an error, or changes nothing.
End(c) == call' = [call EXCEPT ![c] = Idle]

\* Nobody has it, and if anybody had it would be refused.
FreeTokens == {r \in Refresh : /\ token[r].age = Lifetime /\ token[r].doc # "saving"
                               /\ \A b \in Browser : cookie[b] # r
                               /\ \A c \in Call : call[c].token # r}

\* POST /auth/login.  p = None: a password that is nobody's.  The id of the refresh
\* token is taken here, so that ids in short supply make nobody wait later.
Login(c, b, u, p) == \E r \in FreeTokens :
    LET k == [Idle EXCEPT !.kind = "login", !.step = "find", !.browser = b, !.user = u,
                          !.password = p, !.token = r]
    IN  /\ Begin(c, [k EXCEPT !.entitled = Entitles(k, account[u])])
        /\ token' = [token EXCEPT ![r] = [owner |-> u, age |-> Lifetime, doc |-> "none", docAge |-> TTL]]

\* POST /auth/token.
RefreshAccess(c, b) ==
    /\ cookie[b] # None
    /\ Begin(c, [Idle EXCEPT !.kind = "token", !.step = "verify", !.browser = b, !.token = cookie[b]])
    /\ UNCHANGED token

\* POST /auth/me and GET /users ("read"); POST, PUT and DELETE /users ("admin").
Guarded(c, b, kind) ==
    LET k == [Idle EXCEPT !.kind = kind, !.step = "verify", !.browser = b, !.user = bearer[b]]
    IN  /\ bearer[b] # None
        /\ Begin(c, [k EXCEPT !.entitled = Entitles(k, account[bearer[b]])])
        /\ UNCHANGED token

\* POST /auth/logout: the gateway asks nobody.
Logout(b) == /\ cookie' = [cookie EXCEPT ![b] = None]
             /\ UNCHANGED <<account, token, bearer, call>>

-----------------------------------------------------------------------------
(* The auth service.                                                       *)

\* generateTokens: both tokens are signed.
Sign(c) ==
    /\ call[c].step = "tokens"
    /\ token' = [token EXCEPT ![call[c].token].age = 0]
    /\ Go(c, "save")
    /\ UNCHANGED <<account, cookie, bearer>>

\* saveToken dates the document and leaves it to the database: the answer is on
\* its way whatever becomes of the document.
SaveToken(c) ==
    /\ call[c].step = "save"
    /\ token' = [token EXCEPT ![call[c].token].doc = "saving", ![call[c].token].docAge = 0]
    /\ IF call[c].browser = None THEN End(c) ELSE Go(c, "answer")
    /\ UNCHANGED <<account, cookie, bearer>>

Stored(r) ==
    /\ token[r].doc = "saving"
    /\ token' = [token EXCEPT ![r].doc = "stored"]
    /\ UNCHANGED <<account, cookie, bearer, call>>

\* Mutant: documents may go before their time is up.
DropDocument_Early(r) ==
    /\ token[r].doc = "stored"
    /\ token' = [token EXCEPT ![r].doc = "dropped"]
    /\ UNCHANGED <<account, cookie, bearer, call>>

\* The database removes a document some time after its TTL.
DropDocument(r) ==
    /\ token[r].doc = "stored" /\ token[r].docAge = TTL
    /\ token' = [token EXCEPT ![r].doc = "dropped"]
    /\ UNCHANGED <<account, cookie, bearer, call>>

\* verifyRefreshToken, verifyAccessToken.  The access token may have expired at
\* any time.
Verify(c) ==
    /\ call[c].step = "verify"
    /\ \/ /\ call[c].kind = "token"
          /\ IF token[call[c].token].age < Lifetime THEN Go(c, "lookup") ELSE End(c)
       \/ call[c].kind # "token" /\ End(c)
       \/ call[c].kind = "read" /\ Go(c, "operate")
       \/ call[c].kind = "admin" /\ Go(c, "role")
    /\ UNCHANGED <<account, token, cookie, bearer>>

\* Mutant: a refresh renews the refresh token and its document as well.
Lookup_Renews(c) ==
    /\ call[c].step = "lookup"
    /\ IF token[call[c].token].doc = "stored"
       THEN /\ Go(c, "answer")
            /\ token' = [token EXCEPT ![call[c].token].age = 0, ![call[c].token].docAge = 0]
       ELSE End(c) /\ UNCHANGED token
    /\ UNCHANGED <<account, cookie, bearer>>

\* verifyTokens: only a token whose document is found is good for an access token.
Lookup(c) ==
    /\ call[c].step = "lookup"
    /\ IF token[call[c].token].doc = "stored" THEN Go(c, "answer") ELSE End(c)
    /\ UNCHANGED <<account, token, cookie, bearer>>

-----------------------------------------------------------------------------
(* The users service.                                                      *)

\* Mutant: the role of the account found is not looked at.
Role_Any(c) ==
    /\ call[c].step = "role"
    /\ IF account[call[c].user] \in Account THEN Go(c, "operate") ELSE End(c)
    /\ UNCHANGED <<account, token, cookie, bearer>>

\* userData for AdminGuard, which refuses a user that is not there as well.
Role(c) ==
    /\ call[c].step = "role"
    /\ IF Entitles(call[c], account[call[c].user]) THEN Go(c, "operate") ELSE End(c)
    /\ UNCHANGED <<account, token, cookie, bearer>>

\* UsersService.login: the password is compared with that of the account found
\* here, and nothing is read again.
Find(c) ==
    /\ call[c].step = "find"
    /\ IF Entitles(call[c], account[call[c].user]) THEN Go(c, "tokens") ELSE End(c)
    /\ UNCHANGED <<account, token, cookie, bearer>>

\* Mutant: nobody answers for a user that is not there.
Read_KnownOnly(c) ==
    /\ call[c].step = "operate" /\ call[c].kind = "read"
    /\ account[call[c].user] \in Account
    /\ End(c)
    /\ UNCHANGED <<account, token, cookie, bearer>>

\* getUserData, getUsers.
Read(c) ==
    /\ call[c].step = "operate" /\ call[c].kind = "read"
    /\ End(c)
    /\ UNCHANGED <<account, token, cookie, bearer>>

\* The operation of c makes a of the account u.
Put(c, u, a) ==
    /\ call[c].step = "operate" /\ call[c].kind = "admin"
    /\ account' = [account EXCEPT ![u] = a]
    /\ call' = [d \in Call |->
                  IF d = c THEN Idle
                  ELSE IF call[d].user = u /\ Entitles(call[d], a)
                       THEN [call[d] EXCEPT !.entitled = TRUE] ELSE call[d]]
    /\ UNCHANGED <<token, cookie, bearer>>

\* create.
CreateUser(c, u, a) == account[u] = Unborn /\ Put(c, u, a)

\* Mutant: the document is overwritten with what the DTO has, and its role is gone.
UpdateUser_Replaces(c, u, a) == account[u] \in Account /\ Put(c, u, [password |-> a.password])

\* updateById: the name, the password or, among the properties the DTO does not
\* list, the role.
UpdateUser(c, u, a) == account[u] \in Account /\ Put(c, u, a)

\* removeById.
RemoveUser(c, u) == account[u] \in Account /\ Put(c, u, Removed)

\* A login that is taken (409), or an id that is not there (null).
NothingDone(c) ==
    /\ call[c].step = "operate" /\ call[c].kind = "admin"
    /\ End(c)
    /\ UNCHANGED <<account, token, cookie, bearer>>

-----------------------------------------------------------------------------
(* Answers and time.                                                       *)

\* The answer of a login sets the cookie; that of a refresh does not.
Answer(c) ==
    /\ call[c].step = "answer"
    /\ LET b == call[c].browser IN
          /\ bearer' = [bearer EXCEPT ![b] = token[call[c].token].owner]
          /\ cookie' = IF call[c].kind = "login" THEN [cookie EXCEPT ![b] = call[c].token] ELSE cookie
    /\ End(c)
    /\ UNCHANGED <<account, token>>

\* The browser does not wait for a lost answer any longer.
GiveUp(c) == /\ call[c].step = "lost"
             /\ End(c)
             /\ UNCHANGED <<account, token, cookie, bearer>>

Older(age, limit) == IF age = limit THEN limit ELSE age + 1

Tick == /\ token' = [r \in Refresh |-> [token[r] EXCEPT !.age = Older(@, Lifetime), !.docAge = Older(@, TTL)]]
        /\ UNCHANGED <<account, cookie, bearer, call>>

ExpireAccess(b) == /\ bearer[b] # None
                   /\ bearer' = [bearer EXCEPT ![b] = None]
                   /\ UNCHANGED <<account, token, cookie, call>>

\* Its Max-Age counts from the answer: the token is expired by then.
ExpireCookie(b) == /\ cookie[b] # None /\ token[cookie[b]].age = Lifetime
                   /\ cookie' = [cookie EXCEPT ![b] = None]
                   /\ UNCHANGED <<account, token, bearer, call>>

-----------------------------------------------------------------------------
(* Failures.                                                               *)

Lose(steps) == call' = [c \in Call |-> IF call[c].step \notin steps THEN call[c]
                                       ELSE IF call[c].browser = None THEN Idle
                                       ELSE [Idle EXCEPT !.step = "lost", !.browser = call[c].browser]]

\* The auth service stops, or a document is refused and the rejection that
\* nobody handles stops it.
AuthStops ==
    /\ Lose({"tokens", "save", "verify", "lookup"})
    /\ token' = [r \in Refresh |-> IF token[r].doc = "saving" THEN [token[r] EXCEPT !.doc = "none", !.docAge = TTL]
                                   ELSE token[r]]
    /\ UNCHANGED <<account, cookie, bearer>>

UsersStop == Lose({"find", "role", "operate"}) /\ UNCHANGED <<account, token, cookie, bearer>>

\* What a service has got it goes on with; sent are those of the others that the
\* gateway has sent on.
Desert(sent, failed) ==
    call' = [c \in Call |->
               IF c # failed /\ \/ call[c].browser = None \/ call[c].step = "save"
                                \/ call[c].step \in {"tokens", "operate"} /\ c \in sent
               THEN [call[c] EXCEPT !.browser = None] ELSE Idle]

GatewayStops ==
    /\ \E sent \in SUBSET Call : Desert(sent, None)
    /\ UNCHANGED <<account, token, cookie, bearer>>

\* The database refuses a step.  AdminGuard turns that into a refusal.  Of the
\* others the answer has no code: AllExceptionsFilter sends the status 'error',
\* which is no HTTP status, and the exception that this throws stops the gateway.
DatabaseFails(c) ==
    /\ \/ /\ \/ call[c].step = "role"
             \/ call[c].step = "operate" /\ call[c].browser = None
          /\ End(c)
       \/ /\ call[c].step \in {"find", "lookup", "operate"} /\ call[c].browser # None
          /\ \E sent \in SUBSET Call : Desert(sent, c)
    /\ UNCHANGED <<account, token, cookie, bearer>>

-----------------------------------------------------------------------------
Browse(c) == \E b \in Browser :
    \/ \E u \in User, p \in Password \cup {None} : Login(c, b, u, p)
    \/ RefreshAccess(c, b)
    \/ \E kind \in {"read", "admin"} : Guarded(c, b, kind)

Operate(c) ==
    \/ Read(c) \/ NothingDone(c)
    \/ \E u \in User : RemoveUser(c, u) \/ \E a \in Account : CreateUser(c, u, a) \/ UpdateUser(c, u, a)

\* What the services and the gateway do with a call.
Serve(c) == Find(c) \/ Sign(c) \/ SaveToken(c) \/ Verify(c) \/ Lookup(c) \/ Role(c) \/ Operate(c) \/ Answer(c)

Pass == Tick \/ \E b \in Browser : ExpireAccess(b) \/ ExpireCookie(b)

Next == \/ \E c \in Call : Browse(c) \/ Serve(c) \/ GiveUp(c) \/ DatabaseFails(c)
        \/ \E b \in Browser : Logout(b)
        \/ \E r \in Refresh : Stored(r) \/ DropDocument(r)
        \/ Pass \/ AuthStops \/ UsersStop \/ GatewayStops

Spec == Init /\ [][Next]_vars

\* The services and the gateway go on with every call, writes end, time passes.
\* No document need ever be dropped, and nothing is said of browsers and failures.
Fairness == /\ \A c \in Call : WF_vars(Serve(c))
            /\ \A r \in Refresh : WF_vars(Stored(r))
            /\ WF_vars(Tick)
            /\ \A b \in Browser : WF_vars(ExpireAccess(b)) /\ WF_vars(ExpireCookie(b))

FairSpec == Spec /\ Fairness

-----------------------------------------------------------------------------
(* Properties.                                                             *)

\* Types of the variables.
TypeOK == /\ account \in [User -> Account \cup {Unborn, Removed}]
          /\ token \in [Refresh -> Token]
          /\ cookie \in [Browser -> Refresh \cup {None}]
          /\ bearer \in [Browser -> User \cup {None}]
          /\ call \in [Call -> CallRecord]

\* Nothing is granted to the account of another moment: when a login has been let
\* through, the account had that password at some moment since the call came in;
\* when an administrator's operation has, the account behind the access token was
\* an administrator's at some moment since.  (The role is read before the
\* operation is sent and may be taken away in between.)
GrantsEntitled ==
    \A c \in Call :
        \/ call[c].kind = "login" /\ call[c].step \in {"tokens", "save", "answer"}
        \/ call[c].kind = "admin" /\ call[c].step = "operate"
        => call[c].entitled

\* A session lasts as long as its token: the document that a refresh asks for is
\* there while the token of the cookie is unexpired, unless it is still on its
\* way to the database or was cut off by a stop of the auth service, which
\* answers a login before the document is stored.
SessionsStored ==
    \A b \in Browser : cookie[b] # None /\ token[cookie[b]].age < Lifetime =>
        token[cookie[b]].doc # "dropped"

\* A call is answered, unless a service or the gateway stops while it is open.
CallsEnd == \A c \in Call : []<>(call[c].step \in {"idle", "lost"})

\* A removed user, who stays removed, is signed out for good some day, even one
\* let in by a login that had found the account before it was removed.
RemovedSignedOut ==
    <>[](\A b \in Browser : bearer[b] # None => account[bearer[b]] # Removed)
=============================================================================
