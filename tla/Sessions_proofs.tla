--------------------------- MODULE Sessions_proofs ---------------------------
(***************************************************************************)
(* Proofs about Sessions, for any number of users, browsers, tokens and    *)
(* calls, and any lifetimes of which the document's is not the shorter.    *)
(***************************************************************************)
EXTENDS Sessions, TLAPS

-----------------------------------------------------------------------------
(* The inductive invariant.                                                *)

\* What a call of each kind brings along at each of its steps.
Fits(k) ==
    /\ k.step \in {"find", "tokens", "save"} => k.kind = "login"
    /\ k.step = "verify" => k.kind \in {"token", "read", "admin"}
    /\ k.step = "lookup" => k.kind = "token"
    /\ k.step = "role" => k.kind = "admin"
    /\ k.step = "operate" => k.kind \in {"read", "admin"}
    /\ k.step = "answer" => k.kind \in {"login", "token"}
    /\ k.step \in {"find", "verify", "lookup", "role", "answer"} => k.browser # None
    /\ k.kind \in {"login", "token"} => k.token # None
    /\ k.kind \in {"login", "read", "admin"} => k.user # None

StepsFit == \A c \in Call : Fits(call[c])

\* The history misses nothing: who is entitled now is on record as such.
EntitledSoFar ==
    \A c \in Call : call[c].user # None /\ Entitles(call[c], account[call[c].user]) => call[c].entitled

\* A login that has not saved its token has it to itself, without a document.
Unsaved(c) == call[c].step \in {"find", "tokens", "save"}

OwnToken ==
    /\ \A c \in Call : Unsaved(c) => token[call[c].token].doc = "none"
    /\ \A c, d \in Call : Unsaved(c) /\ Unsaved(d) /\ c # d => call[c].token # call[d].token

\* A document is no older than its token, and is not dropped before it.
DocumentsDated ==
    \A r \in Refresh : token[r].age < Lifetime =>
        /\ token[r].doc # "dropped"
        /\ token[r].doc \in {"saving", "stored"} => token[r].docAge <= token[r].age

IInv == TypeOK /\ StepsFit /\ EntitledSoFar /\ GrantsEntitled /\ OwnToken /\ DocumentsDated

-----------------------------------------------------------------------------
(* The ways in which calls change.                                         *)

LEMMA IdleFits == Idle \in CallRecord /\ Fits(Idle) /\ Idle.kind = None /\ Idle.step = "idle" /\ Idle.user = None
  BY NoneAssumption DEF Idle, CallRecord, Fits

LEMMA InitIInv == Init => IInv
<1> SUFFICES ASSUME Init PROVE IInv
  OBVIOUS
<1> USE LifetimeAssumption, NoneAssumption
<1>1. TypeOK
  BY IdleFits DEF Init, TypeOK, Token
<1>2. StepsFit /\ EntitledSoFar /\ GrantsEntitled
  BY IdleFits DEF Init, StepsFit, EntitledSoFar, GrantsEntitled
<1>3. OwnToken /\ DocumentsDated
  BY DEF Init, OwnToken, Unsaved, DocumentsDated, Idle
<1> QED BY <1>1, <1>2, <1>3 DEF IInv

\* Ages stay within their limits, and grow by one at most.
LEMMA OlderIsBounded ==
    ASSUME NEW limit \in Nat, NEW age \in 0..limit
    PROVE  Older(age, limit) \in 0..limit /\ Older(age, limit) <= age + 1
                                          /\ (age < limit => Older(age, limit) = age + 1)
  BY DEF Older

\* Types: the records of the calls.
LEMMA CallTypes ==
    ASSUME TypeOK, StepsFit, [Next]_vars
    PROVE  call' \in [Call -> CallRecord]
<1> USE NoneAssumption DEF TypeOK
<1>1. CASE UNCHANGED vars
  BY <1>1 DEF vars
<1>2. ASSUME NEW c \in Call, NEW s \in {"lookup", "operate", "role", "save", "answer", "tokens"}, Go(c, s)
      PROVE  call' \in [Call -> CallRecord]
  BY <1>2 DEF Go, CallRecord
<1>3. ASSUME NEW c \in Call, End(c)
      PROVE  call' \in [Call -> CallRecord]
  BY <1>3, IdleFits DEF End
<1>4. ASSUME NEW c \in Call, Browse(c)
      PROVE  call' \in [Call -> CallRecord]
  <2>1. ASSUME NEW k \in CallRecord, Begin(c, k)
        PROVE  call' \in [Call -> CallRecord]
    BY <2>1 DEF Begin
  <2>2. ASSUME NEW b \in Browser, NEW u \in User, NEW p \in Password \cup {None}, Login(c, b, u, p)
        PROVE  call' \in [Call -> CallRecord]
    BY <2>1, <2>2 DEF Login, Idle, CallRecord, Entitles, FreeTokens
  <2>3. ASSUME NEW b \in Browser, RefreshAccess(c, b)
        PROVE  call' \in [Call -> CallRecord]
    BY <2>1, <2>3 DEF RefreshAccess, Idle, CallRecord
  <2>4. ASSUME NEW b \in Browser, NEW kind \in {"read", "admin"}, Guarded(c, b, kind)
        PROVE  call' \in [Call -> CallRecord]
    BY <2>1, <2>4 DEF Guarded, Idle, CallRecord, Entitles
  <2> QED BY <1>4, <2>2, <2>3, <2>4 DEF Browse
<1>5. ASSUME NEW c \in Call, Serve(c)
      PROVE  call' \in [Call -> CallRecord]
  <2>1. ASSUME NEW u \in User, NEW a, Put(c, u, a)
        PROVE  call' \in [Call -> CallRecord]
    <3>1. \A d \in Call : [call[d] EXCEPT !.entitled = TRUE] \in CallRecord
      BY DEF CallRecord
    <3> QED BY <2>1, <3>1, IdleFits DEF Put
  <2>2. CASE Operate(c)
    BY <2>1, <2>2, <1>3 DEF Operate, Read, NothingDone, RemoveUser, CreateUser, UpdateUser
  <2>3. CASE Find(c) \/ Sign(c) \/ SaveToken(c) \/ Verify(c) \/ Lookup(c) \/ Role(c) \/ Answer(c)
    BY <2>3, <1>2, <1>3 DEF Find, Sign, SaveToken, Verify, Lookup, Role, Answer
  <2> QED BY <1>5, <2>2, <2>3 DEF Serve
<1>6. ASSUME NEW steps, Lose(steps)
      PROVE  call' \in [Call -> CallRecord]
  <2>1. \A c \in Call : [Idle EXCEPT !.step = "lost", !.browser = call[c].browser] \in CallRecord
    BY DEF Idle, CallRecord
  <2> QED BY <1>6, <2>1, IdleFits DEF Lose
<1>7. ASSUME NEW sent, NEW f, Desert(sent, f)
      PROVE  call' \in [Call -> CallRecord]
  <2>1. \A c \in Call : [call[c] EXCEPT !.browser = None] \in CallRecord
    BY DEF CallRecord
  <2> QED BY <1>7, <2>1, IdleFits DEF Desert
<1>8. ASSUME NEW c \in Call, GiveUp(c) \/ DatabaseFails(c)
      PROVE  call' \in [Call -> CallRecord]
  BY <1>8, <1>3, <1>7 DEF GiveUp, DatabaseFails
<1>9. CASE AuthStops \/ UsersStop \/ GatewayStops
  BY <1>9, <1>6, <1>7 DEF AuthStops, UsersStop, GatewayStops
<1>10. CASE Pass \/ (\E b \in Browser : Logout(b)) \/ (\E r \in Refresh : Stored(r) \/ DropDocument(r))
  BY <1>10 DEF Pass, Tick, ExpireAccess, ExpireCookie, Logout, Stored, DropDocument
<1> QED BY <1>1, <1>4, <1>5, <1>8, <1>9, <1>10 DEF Next

\* Types: the other variables.
LEMMA TypesStay ==
    ASSUME TypeOK, StepsFit, [Next]_vars
    PROVE  TypeOK'
<1> USE NoneAssumption, LifetimeAssumption DEF TypeOK
<1>0. call' \in [Call -> CallRecord]
  BY CallTypes
<1>1. CASE UNCHANGED vars
  BY <1>1 DEF vars
<1>2. ASSUME NEW c \in Call, Browse(c)
      PROVE  TypeOK'
  <2>1. ASSUME NEW r \in Refresh, NEW u \in User
        PROVE  [token EXCEPT ![r] = [owner |-> u, age |-> Lifetime, doc |-> "none", docAge |-> TTL]]
                 \in [Refresh -> Token]
    BY DEF Token
  <2>2. ASSUME NEW b \in Browser, NEW u \in User, NEW p, Login(c, b, u, p)
        PROVE  TypeOK'
    BY <1>0, <2>1, <2>2 DEF Login, Begin, FreeTokens
  <2>3. ASSUME NEW b \in Browser, NEW kind, RefreshAccess(c, b) \/ Guarded(c, b, kind)
        PROVE  TypeOK'
    BY <1>0, <2>3 DEF RefreshAccess, Guarded, Begin
  <2> QED BY <1>2, <2>2, <2>3 DEF Browse
<1>3. ASSUME NEW c \in Call, Serve(c)
      PROVE  TypeOK'
  <2>1. ASSUME NEW u \in User, NEW a \in Account \cup {Removed}, Put(c, u, a)
        PROVE  TypeOK'
    BY <1>0, <2>1 DEF Put
  <2>2. CASE Operate(c)
    BY <1>0, <2>1, <2>2 DEF Operate, Read, NothingDone, RemoveUser, CreateUser, UpdateUser
  <2>3. CASE Find(c) \/ Verify(c) \/ Lookup(c) \/ Role(c)
    BY <1>0, <2>3 DEF Find, Verify, Lookup, Role
  <2>4. CASE Sign(c) \/ SaveToken(c)
    <3>1. token' \in [Refresh -> Token]
      BY <2>4 DEF Sign, SaveToken, Token
    <3> QED BY <1>0, <2>4, <3>1 DEF Sign, SaveToken
  <2>5. CASE Answer(c)
    <3>1. call[c] \in CallRecord /\ call[c].token # None /\ call[c].browser # None
      BY <2>5 DEF Answer, StepsFit, Fits
    <3>2. call[c].token \in Refresh /\ call[c].browser \in Browser
      BY <3>1 DEF CallRecord
    <3>3. token[call[c].token].owner \in User \cup {None}
      BY <3>2 DEF Token
    <3> QED BY <1>0, <2>5, <3>2, <3>3 DEF Answer
  <2> QED BY <1>3, <2>2, <2>3, <2>4, <2>5 DEF Serve
<1>4. ASSUME NEW c \in Call, GiveUp(c) \/ DatabaseFails(c)
      PROVE  TypeOK'
  BY <1>0, <1>4 DEF GiveUp, DatabaseFails
<1>5. ASSUME NEW r \in Refresh, Stored(r) \/ DropDocument(r)
      PROVE  TypeOK'
  BY <1>0, <1>5 DEF Stored, DropDocument, Token
<1>6. CASE Tick
  <2>1. ASSUME NEW r \in Refresh
        PROVE  [token[r] EXCEPT !.age = Older(@, Lifetime), !.docAge = Older(@, TTL)] \in Token
    BY OlderIsBounded DEF Token
  <2> QED BY <1>0, <1>6, <2>1 DEF Tick
<1>7. CASE AuthStops
  <2>1. ASSUME NEW r \in Refresh
        PROVE  token[r] \in Token /\ [token[r] EXCEPT !.doc = "none", !.docAge = TTL] \in Token
    <3>1. token[r] \in Token /\ TTL \in 0..TTL
      OBVIOUS
    <3> QED BY <3>1 DEF Token
  <2> QED BY <1>0, <1>7, <2>1 DEF AuthStops
<1>8. CASE UsersStop \/ GatewayStops
  BY <1>0, <1>8 DEF UsersStop, GatewayStops
<1>9. ASSUME NEW b \in Browser, ExpireAccess(b) \/ ExpireCookie(b) \/ Logout(b)
      PROVE  TypeOK'
  BY <1>0, <1>9 DEF ExpireAccess, ExpireCookie, Logout
<1> QED BY <1>1, <1>2, <1>3, <1>4, <1>5, <1>6, <1>7, <1>8, <1>9 DEF Next, Pass

\* A call goes on as one of its kind.
LEMMA StepsFitStay ==
    ASSUME TypeOK, StepsFit, [Next]_vars
    PROVE  StepsFit'
<1> USE NoneAssumption DEF TypeOK, StepsFit
<1>1. CASE UNCHANGED vars
  BY <1>1 DEF vars
<1>2. ASSUME NEW c \in Call, NEW k, Fits(k), Begin(c, k)
      PROVE  StepsFit'
  BY <1>2 DEF Begin
<1>3. ASSUME NEW c \in Call, NEW s, Go(c, s), Fits([call[c] EXCEPT !.step = s])
      PROVE  StepsFit'
  BY <1>3 DEF Go
<1>4. ASSUME NEW c \in Call, End(c)
      PROVE  StepsFit'
  BY <1>4, IdleFits DEF End
<1>5. ASSUME NEW c \in Call, Browse(c)
      PROVE  StepsFit'
  <2>1. ASSUME NEW b \in Browser, NEW u \in User, NEW p, Login(c, b, u, p)
        PROVE  StepsFit'
    BY <1>2, <2>1 DEF Login, Idle, Fits, FreeTokens
  <2>2. ASSUME NEW b \in Browser, RefreshAccess(c, b)
        PROVE  StepsFit'
    BY <1>2, <2>2 DEF RefreshAccess, Idle, Fits
  <2>3. ASSUME NEW b \in Browser, NEW kind \in {"read", "admin"}, Guarded(c, b, kind)
        PROVE  StepsFit'
    BY <1>2, <2>3 DEF Guarded, Idle, Fits
  <2> QED BY <1>5, <2>1, <2>2, <2>3 DEF Browse
<1>6. ASSUME NEW c \in Call, Serve(c)
      PROVE  StepsFit'
  <2>0. call[c] \in CallRecord /\ Fits(call[c])
    OBVIOUS
  <2>1. ASSUME NEW u, NEW a, Put(c, u, a)
        PROVE  StepsFit'
    <3>1. \A d \in Call : Fits([call[d] EXCEPT !.entitled = TRUE])
      BY DEF Fits, CallRecord
    <3> QED BY <2>1, <3>1, IdleFits DEF Put
  <2>2. CASE Operate(c)
    BY <2>1, <2>2, <1>4 DEF Operate, Read, NothingDone, RemoveUser, CreateUser, UpdateUser
  <2>3. CASE Find(c) \/ Sign(c) \/ Verify(c) \/ Lookup(c) \/ Role(c)
    <3>1. ASSUME NEW s \in {"lookup", "operate", "role", "save", "answer", "tokens"}, Go(c, s),
                 Fits([call[c] EXCEPT !.step = s])
          PROVE  StepsFit'
      BY <3>1, <1>3
    <3>2. CASE Find(c)
      BY <2>0, <3>1, <3>2, <1>4 DEF Find, Fits, CallRecord
    <3>3. CASE Sign(c)
      BY <2>0, <3>1, <3>3, <1>4 DEF Sign, Fits, CallRecord
    <3>4. CASE Verify(c)
      BY <2>0, <3>1, <3>4, <1>4 DEF Verify, Fits, CallRecord
    <3>5. CASE Role(c)
      BY <2>0, <3>1, <3>5, <1>4 DEF Role, Fits, CallRecord
    <3>6. CASE Lookup(c)
      BY <2>0, <3>1, <3>6, <1>4 DEF Lookup, Fits, CallRecord
    <3> QED BY <2>3, <3>2, <3>3, <3>4, <3>5, <3>6
  <2>4. CASE SaveToken(c)
    BY <2>0, <2>4, <1>3, <1>4 DEF SaveToken, Fits, CallRecord
  <2>5. CASE Answer(c)
    BY <2>5, <1>4 DEF Answer
  <2> QED BY <1>6, <2>2, <2>3, <2>4, <2>5 DEF Serve
<1>7. ASSUME NEW steps, Lose(steps)
      PROVE  StepsFit'
  <2>1. \A c \in Call : Fits([Idle EXCEPT !.step = "lost", !.browser = call[c].browser])
    BY DEF Idle, Fits
  <2> QED BY <1>7, <2>1, IdleFits DEF Lose
<1>8. ASSUME NEW sent, NEW f, Desert(sent, f)
      PROVE  StepsFit'
  <2>1. ASSUME NEW c \in Call, call[c].step \in {"tokens", "operate", "save"} \/ call[c].browser = None
        PROVE  Fits([call[c] EXCEPT !.browser = None])
    BY <2>1 DEF Fits, CallRecord
  <2> QED BY <1>8, <2>1, IdleFits DEF Desert
<1>9. ASSUME NEW c \in Call, GiveUp(c) \/ DatabaseFails(c)
      PROVE  StepsFit'
  BY <1>9, <1>4, <1>8 DEF GiveUp, DatabaseFails
<1>10. CASE AuthStops \/ UsersStop \/ GatewayStops
  BY <1>10, <1>7, <1>8 DEF AuthStops, UsersStop, GatewayStops
<1>11. CASE Pass \/ (\E b \in Browser : Logout(b)) \/ (\E r \in Refresh : Stored(r) \/ DropDocument(r))
  BY <1>11 DEF Pass, Tick, ExpireAccess, ExpireCookie, Logout, Stored, DropDocument
<1> QED BY <1>1, <1>5, <1>6, <1>9, <1>10, <1>11 DEF Next

\* The history: a call is entitled from the moment its account is.
LEMMA EntitledStay ==
    ASSUME TypeOK, StepsFit, EntitledSoFar, GrantsEntitled, [Next]_vars
    PROVE  EntitledSoFar' /\ GrantsEntitled'
<1> DEFINE Granted(k) == \/ k.kind = "login" /\ k.step \in {"tokens", "save", "answer"}
                         \/ k.kind = "admin" /\ k.step = "operate"
           Sound(k, acc) == /\ (k.user # None /\ Entitles(k, acc[k.user])) => k.entitled
                            /\ Granted(k) => k.entitled
<1> USE NoneAssumption DEF TypeOK
<1>0. /\ \A c \in Call : Sound(call[c], account)
      /\ (\A c \in Call : Sound(call'[c], account')) => EntitledSoFar' /\ GrantsEntitled'
      /\ \A acc : Sound(Idle, acc)
  <2>1. \A c \in Call : Sound(call[c], account)
    BY DEF EntitledSoFar, GrantsEntitled
  <2>2. (\A c \in Call : Sound(call'[c], account')) => EntitledSoFar'
    BY DEF EntitledSoFar, Entitles
  <2>3. (\A c \in Call : Sound(call'[c], account')) => GrantsEntitled'
    BY DEF GrantsEntitled
  <2>4. \A acc : Sound(Idle, acc)
    BY IdleFits
  <2> QED BY <2>1, <2>2, <2>3, <2>4
<1> SUFFICES \A c \in Call : Sound(call'[c], account')
  BY <1>0
<1>1. CASE UNCHANGED vars
  BY <1>0, <1>1 DEF vars
<1>2. ASSUME NEW c \in Call, NEW k, Sound(k, account), Begin(c, k)
      PROVE  \A d \in Call : Sound(call'[d], account')
  BY <1>0, <1>2 DEF Begin
<1>3. ASSUME NEW c \in Call, NEW s, Go(c, s), UNCHANGED account, Sound([call[c] EXCEPT !.step = s], account)
      PROVE  \A d \in Call : Sound(call'[d], account')
  BY <1>0, <1>3 DEF Go
<1>4. ASSUME NEW c \in Call, End(c), UNCHANGED account
      PROVE  \A d \in Call : Sound(call'[d], account')
  BY <1>0, <1>4 DEF End
<1>5. ASSUME NEW c \in Call, Browse(c)
      PROVE  \A d \in Call : Sound(call'[d], account')
  <2>1. ASSUME NEW b \in Browser, NEW u \in User, NEW p, Login(c, b, u, p)
        PROVE  \A d \in Call : Sound(call'[d], account')
    BY <1>2, <2>1 DEF Login, Idle, Entitles
  <2>2. ASSUME NEW b \in Browser, RefreshAccess(c, b)
        PROVE  \A d \in Call : Sound(call'[d], account')
    BY <1>2, <2>2 DEF RefreshAccess, Idle
  <2>3. ASSUME NEW b \in Browser, NEW kind \in {"read", "admin"}, Guarded(c, b, kind)
        PROVE  \A d \in Call : Sound(call'[d], account')
    BY <1>2, <2>3 DEF Guarded, Idle, Entitles
  <2> QED BY <1>5, <2>1, <2>2, <2>3 DEF Browse
<1>6. ASSUME NEW c \in Call, Serve(c)
      PROVE  \A d \in Call : Sound(call'[d], account')
  <2>0. call[c] \in CallRecord /\ Fits(call[c]) /\ Sound(call[c], account)
    BY <1>0 DEF StepsFit
  <2>1. ASSUME NEW u \in User, NEW a, Put(c, u, a)
        PROVE  \A d \in Call : Sound(call'[d], account')
    <3> SUFFICES ASSUME NEW d \in Call PROVE Sound(call'[d], account')
      OBVIOUS
    <3>1. call[d] \in CallRecord /\ Sound(call[d], account)
      BY <1>0
    <3>2. CASE d = c
      BY <1>0, <2>1, <3>2 DEF Put
    <3>3. CASE d # c /\ call[d].user = u /\ Entitles(call[d], a)
      <4>1. call'[d] = [call[d] EXCEPT !.entitled = TRUE]
        BY <2>1, <3>3 DEF Put
      <4> QED BY <3>1, <4>1 DEF CallRecord
    <3>4. CASE d # c /\ ~(call[d].user = u /\ Entitles(call[d], a))
      <4>1. call'[d] = call[d]
        BY <2>1, <3>4 DEF Put
      <4>2. call[d].user # None => account'[call[d].user] = IF call[d].user = u THEN a ELSE account[call[d].user]
        BY <2>1, <3>1 DEF Put, CallRecord
      <4>3. CASE call[d].user = u
        BY <3>1, <3>4, <4>1, <4>2, <4>3
      <4>4. CASE call[d].user # u
        BY <3>1, <4>1, <4>2, <4>4
      <4> QED BY <4>3, <4>4
    <3> QED BY <3>2, <3>3, <3>4
  <2>2. CASE Operate(c)
    BY <2>1, <2>2, <1>4 DEF Operate, Read, NothingDone, RemoveUser, CreateUser, UpdateUser
  <2>3. ASSUME NEW s, Go(c, s), UNCHANGED account, call[c].entitled \/ s \notin {"tokens", "save", "answer", "operate"}
        PROVE  \A d \in Call : Sound(call'[d], account')
    BY <2>0, <2>3, <1>3 DEF Entitles, CallRecord
  <2>4. CASE Find(c)
    <3>1. CASE Entitles(call[c], account[call[c].user])
      <4>1. call[c].entitled
        BY <2>0, <2>4, <3>1 DEF Find, Fits
      <4> QED BY <2>3, <2>4, <3>1, <4>1 DEF Find
    <3> QED BY <2>4, <3>1, <1>4 DEF Find
  <2>5. CASE Sign(c) \/ SaveToken(c)
    <3>1. call[c].entitled
      BY <2>0, <2>5 DEF Sign, SaveToken, Fits
    <3> QED BY <2>3, <2>5, <3>1, <1>4 DEF Sign, SaveToken
  <2>6. CASE Verify(c)
    <3>1. CASE call[c].kind = "read" /\ Go(c, "operate") /\ UNCHANGED account
      BY <2>0, <3>1, <1>3 DEF Entitles, CallRecord
    <3> QED BY <2>3, <2>6, <3>1, <1>4 DEF Verify
  <2>7. CASE Lookup(c)
    <3>1. CASE call[c].kind = "token" /\ Go(c, "answer") /\ UNCHANGED account
      BY <2>0, <3>1, <1>3 DEF Entitles, CallRecord
    <3> QED BY <2>0, <2>7, <3>1, <1>4 DEF Lookup, Fits
  <2>8. CASE Role(c)
    <3>1. CASE Entitles(call[c], account[call[c].user])
      <4>1. call[c].entitled
        BY <2>0, <2>8, <3>1 DEF Role, Fits
      <4> QED BY <2>3, <2>8, <3>1, <4>1 DEF Role
    <3> QED BY <2>8, <3>1, <1>4 DEF Role
  <2>9. CASE Answer(c)
    BY <2>9, <1>4 DEF Answer
  <2> QED BY <1>6, <2>2, <2>4, <2>5, <2>6, <2>7, <2>8, <2>9 DEF Serve
<1>7. ASSUME NEW steps, Lose(steps), UNCHANGED account
      PROVE  \A d \in Call : Sound(call'[d], account')
  <2>1. \A c \in Call : Sound([Idle EXCEPT !.step = "lost", !.browser = call[c].browser], account)
    BY DEF Idle
  <2> QED BY <1>0, <1>7, <2>1 DEF Lose
<1>8. ASSUME NEW sent, NEW f, Desert(sent, f), UNCHANGED account
      PROVE  \A d \in Call : Sound(call'[d], account')
  <2>1. \A c \in Call : Sound([call[c] EXCEPT !.browser = None], account)
    BY <1>0 DEF CallRecord, Entitles
  <2> QED BY <1>0, <1>8, <2>1 DEF Desert
<1>9. ASSUME NEW c \in Call, GiveUp(c) \/ DatabaseFails(c)
      PROVE  \A d \in Call : Sound(call'[d], account')
  BY <1>9, <1>4, <1>8 DEF GiveUp, DatabaseFails
<1>10. CASE AuthStops \/ UsersStop \/ GatewayStops
  BY <1>10, <1>7, <1>8 DEF AuthStops, UsersStop, GatewayStops
<1>11. CASE Pass \/ (\E b \in Browser : Logout(b)) \/ (\E r \in Refresh : Stored(r) \/ DropDocument(r))
  BY <1>0, <1>11 DEF Pass, Tick, ExpireAccess, ExpireCookie, Logout, Stored, DropDocument
<1> QED BY <1>1, <1>5, <1>6, <1>9, <1>10, <1>11 DEF Next

\* Which calls have an unsaved token, and whose tokens these are.
LEMMA OwnTokenStay ==
    ASSUME TypeOK, StepsFit, OwnToken, [Next]_vars
    PROVE  OwnToken'
<1> USE NoneAssumption DEF TypeOK
<1>0. \A c \in Call : Unsaved(c) => call[c].token \in Refresh
  BY DEF Unsaved, StepsFit, Fits, CallRecord
<1>1. CASE UNCHANGED vars
  BY <1>1 DEF vars, OwnToken, Unsaved
\* Calls may leave these steps at any time, if the documents stay as they are.
<1>2. ASSUME \A c \in Call : Unsaved(c)' => Unsaved(c) /\ call'[c].token = call[c].token,
             \A c \in Call : Unsaved(c)' => token'[call[c].token].doc = token[call[c].token].doc
      PROVE  OwnToken'
  BY <1>2 DEF OwnToken
<1>3. ASSUME NEW c \in Call, Browse(c)
      PROVE  OwnToken'
  <2>1. ASSUME NEW b \in Browser, NEW u \in User, NEW p, Login(c, b, u, p)
        PROVE  OwnToken'
    <3>0. PICK r \in FreeTokens : \E k :
             /\ k.token = r /\ Begin(c, k)
             /\ token' = [token EXCEPT ![r] = [owner |-> u, age |-> Lifetime, doc |-> "none", docAge |-> TTL]]
      BY <2>1 DEF Login, Idle
    <3>1. /\ call'[c].token = r /\ \A d \in Call \ {c} : call'[d] = call[d] /\ call[d].token # r
          /\ token' = [token EXCEPT ![r] = [owner |-> u, age |-> Lifetime, doc |-> "none", docAge |-> TTL]]
      BY <3>0 DEF Begin, FreeTokens
    <3>2. r \in Refresh /\ \A d \in Call \ {c} : token'[call[d].token].doc = token[call[d].token].doc \/ ~Unsaved(d)
      BY <1>0, <3>1 DEF FreeTokens
    <3> QED BY <3>1, <3>2 DEF OwnToken, Unsaved
  <2>2. ASSUME NEW b \in Browser, NEW kind, RefreshAccess(c, b) \/ Guarded(c, b, kind)
        PROVE  OwnToken'
    <3>1. call'[c].step = "verify" /\ \A d \in Call \ {c} : call'[d] = call[d]
      <4>1. \E k : k.step = "verify" /\ Begin(c, k)
        BY <2>2 DEF RefreshAccess, Guarded, Idle
      <4> QED BY <4>1 DEF Begin
    <3>2. UNCHANGED token
      BY <2>2 DEF RefreshAccess, Guarded, Begin
    <3> QED BY <1>2, <3>1, <3>2 DEF Unsaved
  <2> QED BY <1>3, <2>1, <2>2 DEF Browse
<1>4. ASSUME NEW c \in Call, Find(c) \/ Verify(c) \/ Lookup(c) \/ Role(c) \/ Operate(c) \/ Answer(c)
      PROVE  OwnToken'
  <2>1. UNCHANGED token
    BY <1>4 DEF Find, Verify, Lookup, Role, Operate, Read, NothingDone, RemoveUser, CreateUser, UpdateUser, Put, Answer
  <2> DEFINE Leave == \A d \in Call : Unsaved(d)' => Unsaved(d) /\ call'[d].token = call[d].token
  <2>2. Leave
    <3>1. CASE \/ Go(c, "lookup") \/ Go(c, "operate") \/ Go(c, "role") \/ Go(c, "answer")
               \/ Unsaved(c) /\ Go(c, "tokens")
      BY <3>1 DEF Go, Unsaved, CallRecord
    <3>2. CASE End(c)
      BY <3>2, IdleFits DEF End, Unsaved
    <3>3. ASSUME NEW u, NEW a, Put(c, u, a)
          PROVE  Leave
      BY <3>3, IdleFits DEF Put, Unsaved, CallRecord
    <3> HIDE DEF Leave
    <3>4. CASE Operate(c)
      BY <3>2, <3>3, <3>4 DEF Operate, Read, NothingDone, RemoveUser, CreateUser, UpdateUser
    <3>5. CASE Find(c)
      BY <3>1, <3>2, <3>5 DEF Find, Unsaved
    <3>6. CASE Verify(c)
      <4>1. Go(c, "lookup") \/ End(c) \/ Go(c, "operate") \/ Go(c, "role")
        BY <3>6 DEF Verify
      <4> QED BY <3>1, <3>2, <4>1
    <3>7. CASE Lookup(c) \/ Role(c) \/ Answer(c)
      <4>1. Go(c, "answer") \/ End(c) \/ Go(c, "operate")
        BY <3>7 DEF Lookup, Role, Answer
      <4> QED BY <3>1, <3>2, <4>1
    <3> QED BY <1>4, <3>4, <3>5, <3>6, <3>7
  <2> QED BY <1>2, <2>1, <2>2
<1>5. ASSUME NEW c \in Call, Sign(c)
      PROVE  OwnToken'
  <2>1. \A r \in Refresh : token'[r].doc = token[r].doc
    BY <1>5 DEF Sign, Token
  <2>2. \A d \in Call : Unsaved(d)' => Unsaved(d) /\ call'[d].token = call[d].token
    BY <1>5 DEF Sign, Go, Unsaved, CallRecord
  <2> QED BY <1>0, <1>2, <2>1, <2>2
<1>6. ASSUME NEW c \in Call, SaveToken(c)
      PROVE  OwnToken'
  <2>1. Unsaved(c) /\ \A r \in Refresh : r # call[c].token => token'[r] = token[r]
    BY <1>6 DEF SaveToken, Unsaved
  <2>2. \A d \in Call : Unsaved(d)' => d # c /\ Unsaved(d) /\ call'[d] = call[d]
    BY <1>6, IdleFits DEF SaveToken, End, Go, Unsaved, CallRecord
  <2>3. \A d \in Call : Unsaved(d)' => call[d].token # call[c].token
    BY <2>1, <2>2 DEF OwnToken
  <2> QED BY <1>0, <1>2, <2>1, <2>2, <2>3
<1>7. ASSUME NEW r \in Refresh, Stored(r) \/ DropDocument(r)
      PROVE  OwnToken'
  <2>1. UNCHANGED call /\ \A q \in Refresh : token[q].doc = "none" => token'[q].doc = "none"
    BY <1>7 DEF Stored, DropDocument, Token
  <2> QED BY <1>0, <2>1 DEF OwnToken, Unsaved
<1>8. CASE AuthStops
  <2>1. \A q \in Refresh : token[q].doc = "none" => token'[q].doc = "none"
    BY <1>8 DEF AuthStops, Token
  <2>2. \A d \in Call : Unsaved(d)' => Unsaved(d) /\ call'[d] = call[d]
    BY <1>8, IdleFits DEF AuthStops, Lose, Unsaved, Idle
  <2> QED BY <1>0, <2>1, <2>2 DEF OwnToken
<1>9. CASE UsersStop
  <2>1. \A d \in Call : Unsaved(d)' => Unsaved(d) /\ call'[d] = call[d]
    BY <1>9, IdleFits DEF UsersStop, Lose, Unsaved, Idle
  <2> QED BY <1>2, <1>9, <2>1 DEF UsersStop
<1>10. ASSUME NEW sent, NEW f, Desert(sent, f), UNCHANGED token
       PROVE  OwnToken'
  <2>1. \A d \in Call : Unsaved(d)' => Unsaved(d) /\ call'[d].token = call[d].token
    BY <1>10, IdleFits DEF Desert, Unsaved, CallRecord
  <2> QED BY <1>2, <1>10, <2>1
<1>11. ASSUME NEW c \in Call, End(c), UNCHANGED token
       PROVE  OwnToken'
  <2>1. \A d \in Call : Unsaved(d)' => Unsaved(d) /\ call'[d].token = call[d].token
    BY <1>11, IdleFits DEF End, Unsaved
  <2> QED BY <1>2, <1>11, <2>1
<1>12. ASSUME NEW c \in Call, GiveUp(c) \/ DatabaseFails(c)
       PROVE  OwnToken'
  BY <1>10, <1>11, <1>12 DEF GiveUp, DatabaseFails
<1>13. CASE Tick
  <2>1. UNCHANGED call /\ \A r \in Refresh : token'[r].doc = token[r].doc
    BY <1>13 DEF Tick, Token
  <2> QED BY <1>0, <2>1 DEF OwnToken, Unsaved
<1>14. ASSUME NEW b \in Browser, ExpireAccess(b) \/ ExpireCookie(b) \/ Logout(b)
       PROVE  OwnToken'
  BY <1>14 DEF ExpireAccess, ExpireCookie, Logout, OwnToken, Unsaved
<1>15. CASE GatewayStops
  BY <1>10, <1>15 DEF GatewayStops
<1> QED BY <1>1, <1>3, <1>4, <1>5, <1>6, <1>7, <1>8, <1>9, <1>12, <1>13, <1>14, <1>15 DEF Next, Serve, Pass

\* Documents: dated after their tokens, they outlive them.
LEMMA DocumentsStay ==
    ASSUME TypeOK, StepsFit, OwnToken, DocumentsDated, [Next]_vars
    PROVE  DocumentsDated'
<1> USE LifetimeAssumption, NoneAssumption DEF TypeOK
<1>1. CASE UNCHANGED token
  BY <1>1 DEF DocumentsDated
<1>2. ASSUME NEW c \in Call, NEW b, NEW u \in User, NEW p, Login(c, b, u, p)
      PROVE  DocumentsDated'
  BY <1>2 DEF Login, FreeTokens, DocumentsDated
<1>3. ASSUME NEW c \in Call, Sign(c) \/ SaveToken(c)
      PROVE  DocumentsDated'
  <2>1. call[c].token \in Refresh /\ token[call[c].token].doc = "none"
    BY <1>3 DEF Sign, SaveToken, StepsFit, Fits, CallRecord, OwnToken, Unsaved
  <2>2. token[call[c].token] \in Token
    BY <2>1
  <2>3. CASE Sign(c)
    BY <2>1, <2>2, <2>3 DEF Sign, Token, DocumentsDated
  <2>4. CASE SaveToken(c)
    BY <2>1, <2>2, <2>4 DEF SaveToken, Token, DocumentsDated
  <2> QED BY <1>3, <2>3, <2>4
<1>4. ASSUME NEW r \in Refresh, Stored(r)
      PROVE  DocumentsDated'
  BY <1>4 DEF Stored, DocumentsDated, Token
<1>5. ASSUME NEW r \in Refresh, DropDocument(r)
      PROVE  DocumentsDated'
  \* A document of age TTL is no older than its token: the token has expired.
  <2>1. token[r] \in Token
    OBVIOUS
  <2>2. token[r].age = Lifetime
    <3>1. token[r].age \in 0..Lifetime /\ token[r].docAge = TTL /\ token[r].doc = "stored"
      BY <1>5, <2>1 DEF DropDocument, Token
    <3>2. token[r].age < Lifetime => TTL <= token[r].age
      BY <3>1 DEF DocumentsDated
    <3> QED BY <3>1, <3>2
  <2>3. token'[r].age = Lifetime /\ \A q \in Refresh : q # r => token'[q] = token[q]
    BY <1>5, <2>1, <2>2 DEF DropDocument, Token
  <2> QED BY <2>3 DEF DocumentsDated
<1>6. CASE Tick
  <2> SUFFICES ASSUME NEW r \in Refresh, token'[r].age < Lifetime
               PROVE  /\ token'[r].doc # "dropped"
                      /\ token'[r].doc \in {"saving", "stored"} => token'[r].docAge <= token'[r].age
    BY DEF DocumentsDated
  <2>1. token[r] \in Token /\ token[r].age \in 0..Lifetime /\ token[r].docAge \in 0..TTL
    BY DEF Token
  <2>2. /\ token'[r].age = Older(token[r].age, Lifetime) /\ token'[r].docAge = Older(token[r].docAge, TTL)
        /\ token'[r].doc = token[r].doc
    BY <1>6, <2>1 DEF Tick, Token
  <2>3. token[r].age < Lifetime /\ token'[r].age = token[r].age + 1 /\ token'[r].docAge <= token[r].docAge + 1
    BY <2>1, <2>2 DEF Older
  <2>4. token[r].doc # "dropped" /\ (token[r].doc \in {"saving", "stored"} => token[r].docAge <= token[r].age)
    BY <2>3 DEF DocumentsDated
  <2>5. token'[r].docAge \in 0..TTL
    BY <2>1, <2>2, OlderIsBounded, TTL \in Nat
  <2> QED BY <2>1, <2>2, <2>3, <2>4, <2>5
<1>7. CASE AuthStops
  <2>1. \A r \in Refresh : token[r] \in Token
    OBVIOUS
  <2>2. \A r \in Refresh : \/ token'[r] = token[r]
                           \/ token'[r].age = token[r].age /\ token'[r].doc = "none"
    <3> TAKE r \in Refresh
    <3>1. token'[r] = IF token[r].doc = "saving" THEN [token[r] EXCEPT !.doc = "none", !.docAge = TTL] ELSE token[r]
      BY <1>7 DEF AuthStops
    <3>2. CASE token[r].doc = "saving"
      BY <2>1, <3>1, <3>2 DEF Token
    <3>3. CASE token[r].doc # "saving"
      BY <3>1, <3>3
    <3> QED BY <3>2, <3>3
  <2> QED BY <2>2 DEF DocumentsDated
<1>8. ASSUME NEW c \in Call, Browse(c)
      PROVE  DocumentsDated'
  BY <1>8, <1>1, <1>2 DEF Browse, RefreshAccess, Guarded
<1>9. ASSUME NEW c \in Call, Serve(c)
      PROVE  DocumentsDated'
  BY <1>9, <1>1, <1>3 DEF Serve, Find, Verify, Lookup, Role, Operate, Read, NothingDone,
                          RemoveUser, CreateUser, UpdateUser, Put, Answer
<1>10. ASSUME NEW c \in Call, GiveUp(c) \/ DatabaseFails(c)
       PROVE  DocumentsDated'
  BY <1>10, <1>1 DEF GiveUp, DatabaseFails
<1>11. CASE UsersStop \/ GatewayStops \/ (\E b \in Browser : ExpireAccess(b) \/ ExpireCookie(b) \/ Logout(b))
  BY <1>11, <1>1 DEF UsersStop, GatewayStops, ExpireAccess, ExpireCookie, Logout
<1> QED BY <1>1, <1>4, <1>5, <1>6, <1>7, <1>8, <1>9, <1>10, <1>11 DEF Next, Pass, vars

-----------------------------------------------------------------------------
(* Theorems.                                                               *)

LEMMA Invariance == Spec => []IInv
<1>1. Init => IInv
  BY InitIInv
<1>2. IInv /\ [Next]_vars => IInv'
  BY TypesStay, StepsFitStay, EntitledStay, OwnTokenStay, DocumentsStay DEF IInv
<1> QED BY <1>1, <1>2, PTL DEF Spec

\* The variables have their types.
THEOREM TypeCorrect == Spec => []TypeOK
<1>1. IInv => TypeOK
  BY DEF IInv
<1> QED BY <1>1, Invariance, PTL

\* A login that was let through rests on the password the account had while the
\* call was open, an administrator's operation on the role it had.
THEOREM GrantsRestOnAccounts == Spec => []GrantsEntitled
<1>1. IInv => GrantsEntitled
  BY DEF IInv
<1> QED BY <1>1, Invariance, PTL

\* The document of an unexpired token is not removed: a session is not ended by
\* the TTL of the collection, as long as that is no shorter than the token lives.
THEOREM SessionsKept == Spec => []SessionsStored
<1>1. IInv => SessionsStored
  BY DEF IInv, TypeOK, DocumentsDated, SessionsStored
<1> QED BY <1>1, Invariance, PTL
=============================================================================
