---------------------------- MODULE GatewayProofs ----------------------------
(***************************************************************************)
(* What holds of accounts, tokens and the requests sent with them for any  *)
(* number of registrations and logins, any addresses and passwords, any    *)
(* lifetime of tokens and any settings of the retry demo.                  *)
(***************************************************************************)
EXTENDS Gateway, TLAPS

\* Whoever has written, or is about to write, a user under an address.
Claims(r) == r \in users \/ at[r] = "put"

\* A registration writes its user with its last call only; two that claim the
\* same address could not see each other.
ClaimsAreBlurred ==
    /\ \A r \in users : at[r] \in {"201", "502"}
    /\ \A r, u \in Registrations :
        Claims(r) /\ Claims(u) /\ r # u /\ Normal(r) = Normal(u) => {r, u} \in blurred

\* A login that was answered has a user's token, dated by the time of its issue.
TokenIsDated ==
    \A l \in Logins : at[l] = "200" =>
        /\ token[l].user \in users
        /\ token[l].expires = Seconds(issued[l]) + TTL

\* The inductive invariant of the accounts.
AccountsInv ==
    /\ TypeOK
    /\ ClaimsAreBlurred
    /\ TokenIsOwn
    /\ TokenIsDated

-----------------------------------------------------------------------------
(* Accounts                                                                 *)

\* Seconds are monotonic, and at most a half-second is lost.
LEMMA SecondsBounds ==
    ASSUME NEW h \in Nat, NEW k \in Nat, h <= k
    PROVE  /\ Seconds(h) \in Nat /\ Seconds(h) <= Seconds(k)
           /\ 2 * Seconds(h) <= h /\ h <= 2 * Seconds(h) + 1
BY DEF Seconds

LEMMA AccountsTypeInit == Init => TypeOK
<1> SUFFICES ASSUME Init PROVE TypeOK
  OBVIOUS
<1>. QED BY TimeAssumption DEF Init, TypeOK, NoToken

LEMMA AccountsTypeStep == TypeOK /\ [Next]_vars => TypeOK'
<1> SUFFICES ASSUME TypeOK, [Next]_vars PROVE TypeOK'
  OBVIOUS
<1> USE TimeAssumption DEF TypeOK, Goto, tokens
<1>1. ASSUME NEW r \in Requests, Arrive(r) PROVE TypeOK'
  BY <1>1 DEF Arrive
<1>2. ASSUME NEW r \in Requests, QueryFails(r) PROVE TypeOK'
  BY <1>2 DEF QueryFails
<1>3. ASSUME NEW r \in Registrations, CheckAddress(r) PROVE TypeOK'
  <2>1. blurred' \subseteq SUBSET Registrations
    BY <1>3 DEF CheckAddress, Unseen
  <2>2. at' \in [Requests -> {"new", "query", "put", "201", "200", "401", "409", "502"}]
    BY <1>3 DEF CheckAddress, Requests
  <2>. QED BY <1>3, <2>1, <2>2 DEF CheckAddress
<1>4. ASSUME NEW r \in Registrations, UserPut(r) PROVE TypeOK'
  BY <1>4 DEF UserPut, Requests
<1>5. ASSUME NEW r \in Registrations, PutFails(r) PROVE TypeOK'
  BY <1>5 DEF PutFails, Requests
<1>6. ASSUME NEW r \in Registrations, Settle(r) PROVE TypeOK'
  BY <1>6 DEF Settle
<1>7. ASSUME NEW l \in Logins, LoggedIn(l) PROVE TypeOK'
  <2>1. Expiry \in 0 .. MaxTime \div 2 + TTL
    <3>1. clock \in Nat /\ clock <= MaxTime
      OBVIOUS
    <3>2. Seconds(clock) \in Nat /\ Seconds(clock) <= Seconds(MaxTime)
      BY <3>1, SecondsBounds
    <3>. QED BY <3>2 DEF Expiry, Seconds
  <2>2. PICK u \in users : token' = [token EXCEPT ![l] = [user |-> u, expires |-> Expiry]]
    BY <1>7 DEF LoggedIn, Answers, Under
  <2>3. token' \in [Logins -> {NoToken} \cup [user : users, expires : 0 .. MaxTime \div 2 + TTL]]
    BY <2>1, <2>2
  <2>4. at' \in [Requests -> {"new", "query", "put", "201", "200", "401", "409", "502"}]
    BY <1>7 DEF LoggedIn, Requests
  <2>. QED BY <1>7, <2>3, <2>4 DEF LoggedIn
<1>8. ASSUME NEW l \in Logins, Rejected(l) PROVE TypeOK'
  BY <1>8 DEF Rejected, Requests
<1>9. ASSUME NEW l \in Logins, ProfileRead(l) \/ ProfileRefused(l) \/ ProfileFails(l)
      PROVE TypeOK'
  BY <1>9 DEF ProfileRead, ProfileRefused, ProfileFails, Answer
<1>10. CASE Tick
  BY <1>10 DEF Tick
<1>11. CASE UNCHANGED vars
  BY <1>11 DEF vars
<1>. QED
  BY <1>1, <1>2, <1>3, <1>4, <1>5, <1>6, <1>7, <1>8, <1>9, <1>10, <1>11
  DEF Next, Registering, LoggingIn

\* An address that a registration finds free is claimed only by registrations
\* that it cannot see.
LEMMA FreeMeansUnseen ==
    ASSUME TypeOK, ClaimsAreBlurred,
           NEW r \in Registrations, CheckAddress(r), at'[r] = "put",
           NEW u \in Registrations, u # r, Claims(u), Normal(u) = Normal(r)
    PROVE  {r, u} \in blurred'
<1>1. PICK S \in Answers(Key(r)) : Goto(r, IF Taken(S) THEN "409" ELSE "put")
  BY DEF CheckAddress
<1>2. S = {}
  BY <1>1 DEF Goto, Taken, TypeOK, Requests
<1>3. u \notin settled
  BY <1>1, <1>2 DEF Answers, Under, Key, TypeOK
<1>4. u \in Unseen(r)
  BY <1>3 DEF Claims, Unseen
<1>. QED BY <1>4 DEF CheckAddress

LEMMA ClaimsStep == TypeOK /\ ClaimsAreBlurred /\ [Next]_vars => ClaimsAreBlurred'
<1> SUFFICES ASSUME TypeOK, ClaimsAreBlurred, [Next]_vars PROVE ClaimsAreBlurred'
  OBVIOUS
<1>types. at \in [Requests -> {"new", "query", "put", "201", "200", "401", "409", "502"}]
          /\ users \subseteq Registrations /\ blurred \subseteq SUBSET Registrations
  BY DEF TypeOK
<1>request. Registrations \subseteq Requests /\ Logins \subseteq Requests
  BY DEF Requests
\* A step that neither adds a claim nor forgets what was blurred keeps it.
<1>keep. ASSUME blurred \subseteq blurred',
                \A r \in Registrations : Claims(r)' => Claims(r),
                \A r \in users' : at'[r] \in {"201", "502"}
         PROVE  ClaimsAreBlurred'
  BY <1>keep DEF ClaimsAreBlurred, Normal
<1>1. ASSUME NEW r \in Requests, Arrive(r) \/ QueryFails(r) PROVE ClaimsAreBlurred'
  <2>1. users' = users /\ blurred' = blurred /\ at[r] \in {"new", "query"}
        /\ at' = [at EXCEPT ![r] = at'[r]] /\ at'[r] \in {"query", "502"}
    BY <1>1, <1>types DEF Arrive, QueryFails, Goto
  <2>. QED BY <2>1, <1>types, <1>request, <1>keep DEF ClaimsAreBlurred, Claims
<1>2. ASSUME NEW r \in Registrations, CheckAddress(r) PROVE ClaimsAreBlurred'
  <2>1. /\ users' = users /\ blurred \subseteq blurred' /\ at[r] = "query"
        /\ at' = [at EXCEPT ![r] = at'[r]] /\ at'[r] \in {"409", "put"}
    BY <1>2, <1>types, <1>request DEF CheckAddress, Goto
  <2>2. \A q \in users' : at'[q] \in {"201", "502"}
    BY <2>1, <1>types, <1>request DEF ClaimsAreBlurred
  <2>3. CASE at'[r] = "409"
    BY <2>1, <2>2, <2>3, <1>types, <1>request, <1>keep DEF Claims
  <2>4. CASE at'[r] = "put"
    <3>1. ASSUME NEW q \in Registrations, NEW u \in Registrations,
                 Claims(q)', Claims(u)', q # u, Normal(q) = Normal(u)
          PROVE  {q, u} \in blurred'
      <4>1. \A w \in Registrations \ {r} : Claims(w)' => Claims(w)
        BY <2>1, <1>types, <1>request DEF Claims
      <4>2. CASE q = r
        BY <4>1, <4>2, <3>1, <2>4, <1>2, FreeMeansUnseen
      <4>3. CASE u = r
        <5>1. {u, q} \in blurred'
          BY <4>1, <4>3, <3>1, <2>4, <1>2, FreeMeansUnseen
        <5>. QED BY <5>1
      <4>4. CASE q # r /\ u # r
        BY <4>1, <4>4, <3>1, <2>1 DEF ClaimsAreBlurred
      <4>. QED BY <4>2, <4>3, <4>4
    <3>. QED BY <2>2, <3>1 DEF ClaimsAreBlurred, Normal
  <2>. QED BY <2>1, <2>3, <2>4
<1>3. ASSUME NEW r \in Registrations, UserPut(r) \/ PutFails(r) PROVE ClaimsAreBlurred'
  <2>1. /\ users' \subseteq users \cup {r} /\ users \subseteq users' /\ blurred' = blurred
        /\ at[r] = "put" /\ at' = [at EXCEPT ![r] = at'[r]] /\ at'[r] \in {"201", "502"}
    BY <1>3, <1>types, <1>request DEF UserPut, PutFails, Goto
  <2>. QED BY <2>1, <1>types, <1>request, <1>keep DEF ClaimsAreBlurred, Claims
<1>4. ASSUME NEW l \in Logins, LoggedIn(l) \/ Rejected(l) PROVE ClaimsAreBlurred'
  <2>1. /\ users' = users /\ blurred' = blurred /\ at[l] = "query"
        /\ at' = [at EXCEPT ![l] = at'[l]] /\ at'[l] \in {"200", "401"}
    BY <1>4, <1>types, <1>request DEF LoggedIn, Rejected, Goto
  <2>. QED BY <2>1, <1>types, <1>request, <1>keep DEF ClaimsAreBlurred, Claims
<1>5. CASE UNCHANGED <<at, users, blurred>>
  BY <1>5 DEF ClaimsAreBlurred, Claims, Normal
<1>6. ASSUME \/ \E r \in Registrations : Settle(r)
             \/ \E l \in Logins : ProfileRead(l) \/ ProfileRefused(l) \/ ProfileFails(l)
             \/ Tick \/ UNCHANGED vars
      PROVE  UNCHANGED <<at, users, blurred>>
  BY <1>6 DEF Settle, ProfileRead, ProfileRefused, ProfileFails, Answer, Tick, vars
<1>. QED
  BY <1>1, <1>2, <1>3, <1>4, <1>5, <1>6 DEF Next, Registering, LoggingIn

-----------------------------------------------------------------------------
(* Tokens                                                                   *)

\* Only LoggedIn answers a login, or changes its token and the time of it.
LEMMA LoginKept ==
    ASSUME TypeOK, [Next]_vars, NEW l \in Logins, ~LoggedIn(l)
    PROVE  /\ at'[l] = "200" => at[l] = "200"
           /\ token'[l] = token[l] /\ issued'[l] = issued[l]
<1>types. /\ at \in [Requests -> {"new", "query", "put", "201", "200", "401", "409", "502"}]
          /\ Registrations \subseteq Requests /\ Logins \subseteq Requests
          /\ token \in [Logins -> {NoToken} \cup [user : users, expires : 0 .. MaxTime \div 2 + TTL]]
          /\ issued \in [Logins -> 0 .. MaxTime]
  BY DEF TypeOK, Requests
<1>1. ASSUME NEW r \in Requests, Arrive(r) \/ QueryFails(r)
      PROVE  at'[l] = "200" => at[l] = "200"
  BY <1>1, <1>types DEF Arrive, QueryFails, Goto
<1>2. ASSUME NEW r \in Requests, Arrive(r) \/ QueryFails(r) PROVE UNCHANGED <<token, issued>>
  BY <1>2 DEF Arrive, QueryFails, tokens
<1>3. ASSUME NEW r \in Registrations,
             CheckAddress(r) \/ UserPut(r) \/ PutFails(r) \/ Settle(r)
      PROVE  at'[l] = "200" => at[l] = "200"
  BY <1>3, <1>types DEF CheckAddress, UserPut, PutFails, Settle, Goto
<1>4. ASSUME NEW r \in Registrations,
             CheckAddress(r) \/ UserPut(r) \/ PutFails(r) \/ Settle(r)
      PROVE  UNCHANGED <<token, issued>>
  BY <1>4 DEF CheckAddress, UserPut, PutFails, Settle, tokens
<1>5. ASSUME NEW k \in Logins, LoggedIn(k) PROVE k # l /\ at'[l] = at[l] /\ token'[l] = token[l] /\ issued'[l] = issued[l]
  <2>1. k # l
    BY <1>5
  <2>. QED BY <1>5, <2>1, <1>types DEF LoggedIn, Goto
<1>6. ASSUME NEW k \in Logins, Rejected(k)
      PROVE  (at'[l] = "200" => at[l] = "200") /\ UNCHANGED <<token, issued>>
  BY <1>6, <1>types DEF Rejected, Goto, tokens
<1>7. ASSUME NEW k \in Logins, ProfileRead(k) \/ ProfileRefused(k) \/ ProfileFails(k)
      PROVE  UNCHANGED <<at, token, issued>>
  BY <1>7 DEF ProfileRead, ProfileRefused, ProfileFails, Answer
<1>8. ASSUME Tick \/ UNCHANGED vars PROVE UNCHANGED <<at, token, issued>>
  BY <1>8 DEF Tick, vars, tokens
<1>. QED
  BY <1>1, <1>2, <1>3, <1>4, <1>5, <1>6, <1>7, <1>8 DEF Next, Registering, LoggingIn

\* What LoggedIn makes of its login.
LEMMA LoggedInToken ==
    ASSUME TypeOK, NEW l \in Logins, LoggedIn(l)
    PROVE  /\ at'[l] = "200" /\ issued'[l] = clock
           /\ \E u \in users : /\ token'[l] = [user |-> u, expires |-> Expiry]
                               /\ Normal(u) = Normal(l) /\ Password[u] = Password[l]
<1>1. PICK u \in users : /\ Normal(u) = Normal(l) /\ Verified(l, u)
                         /\ token' = [token EXCEPT ![l] = [user |-> u, expires |-> Expiry]]
  BY DEF LoggedIn, Answers, Under, Key
<1>. QED BY <1>1 DEF LoggedIn, Goto, TypeOK, Requests, Verified

LEMMA UsersGrow == [Next]_vars => users \subseteq users'
BY DEF Next, vars, tokens, Arrive, QueryFails, Registering, CheckAddress, UserPut, PutFails, Settle,
       LoggingIn, LoggedIn, Rejected, ProfileRead, ProfileRefused, ProfileFails, Answer, Tick

LEMMA TokenStep ==
    TypeOK /\ TokenIsOwn /\ TokenIsDated /\ [Next]_vars => TokenIsOwn' /\ TokenIsDated'
<1> SUFFICES ASSUME TypeOK, TokenIsOwn, TokenIsDated, [Next]_vars, NEW l \in Logins, at'[l] = "200"
             PROVE  /\ Normal(token'[l].user) = Normal(l)
                    /\ Password[token'[l].user] = Password[l]
                    /\ token'[l].user \in users'
                    /\ token'[l].expires = Seconds(issued'[l]) + TTL
  BY DEF TokenIsOwn, TokenIsDated, Normal, Seconds
<1>1. CASE LoggedIn(l)
  <2>1. PICK u \in users : /\ token'[l] = [user |-> u, expires |-> Expiry]
                           /\ Normal(u) = Normal(l) /\ Password[u] = Password[l]
    BY <1>1, LoggedInToken
  <2>2. issued'[l] = clock
    BY <1>1, LoggedInToken
  <2>3. token'[l].user = u /\ token'[l].expires = Expiry
    BY <2>1
  <2>. QED BY <2>1, <2>2, <2>3, UsersGrow DEF Expiry
<1>2. CASE ~LoggedIn(l)
  BY <1>2, LoginKept, UsersGrow DEF TokenIsOwn, TokenIsDated
<1>. QED BY <1>1, <1>2

-----------------------------------------------------------------------------
(* The accounts' theorems                                                   *)

LEMMA AccountsInvInit == Init => AccountsInv
<1>1. Init => ClaimsAreBlurred /\ TokenIsOwn /\ TokenIsDated
  BY DEF Init, ClaimsAreBlurred, Claims, TokenIsOwn, TokenIsDated, Requests
<1>. QED BY <1>1, AccountsTypeInit DEF AccountsInv

LEMMA AccountsInvStep == AccountsInv /\ [Next]_vars => AccountsInv'
BY AccountsTypeStep, ClaimsStep, TokenStep DEF AccountsInv

\* The inductive invariant of AuthService and its routes holds in every state.
THEOREM AccountsInvariance == Spec => []AccountsInv
BY AccountsInvInit, AccountsInvStep, PTL DEF Spec

\* Every variable of the accounts keeps its type (auth_service.py:27-109).
THEOREM AccountsTypes == Spec => []TypeOK
<1>1. AccountsInv => TypeOK
  BY DEF AccountsInv
<1>. QED BY <1>1, AccountsInvariance, PTL

\* Two accounts under one address come only from registrations that could not
\* see each other, however many there are (auth_service.py:27-48).
THEOREM AddressUniqueness == Spec => []OneAccountPerAddress
<1>1. AccountsInv => OneAccountPerAddress
  BY DEF AccountsInv, ClaimsAreBlurred, Claims, TypeOK, OneAccountPerAddress
<1>. QED BY <1>1, AccountsInvariance, PTL

\* A token names an account of the login's address and password
\* (auth_service.py:50-67).
THEOREM TokenOwnership == Spec => []TokenIsOwn
<1>1. AccountsInv => TokenIsOwn
  BY DEF AccountsInv
<1>. QED BY <1>1, AccountsInvariance, PTL

\* A login with the right password is refused only while its account is not
\* seen everywhere, or has a second beside it (auth_service.py:50-60).
THEOREM LoginRefusals == Spec => RefusalsAreExcused
<1>1. ASSUME AccountsInv, [Next]_vars, NEW l \in Logins, at[l] = "query", at'[l] = "401",
             NEW u \in settled, Normal(u) = Normal(l), Password[u] = Password[l]
      PROVE  Under(Normal(u), users) # {u}
  <2>1. Rejected(l)
    BY <1>1 DEF Next, vars, tokens, Arrive, QueryFails, Registering, CheckAddress, UserPut, PutFails,
                Settle, LoggingIn, LoggedIn, Rejected, ProfileRead, ProfileRefused, ProfileFails,
                Answer, Tick, Goto, AccountsInv, TypeOK, Requests
  <2>2. PICK S \in Answers(Key(l)) : S = {} \/ \E v \in S : ~Verified(l, v)
    BY <2>1 DEF Rejected
  <2>3. u \in S
    BY <1>1, <2>2 DEF Answers, Under, Key, AccountsInv, TypeOK
  <2>4. PICK v \in S : ~Verified(l, v)
    BY <2>2, <2>3
  <2>. QED BY <1>1, <2>2, <2>4 DEF Answers, Under, Key, Verified
<1>2. AccountsInv /\ [Next]_vars =>
        \A l \in Logins : at[l] = "query" /\ at'[l] = "401" =>
            \A u \in settled : Normal(u) = Normal(l) /\ Password[u] = Password[l]
                => Under(Normal(u), users) # {u}
  BY <1>1
<1>. QED BY <1>2, AccountsInvariance, PTL DEF Spec, RefusalsAreExcused

\* A token is accepted for at most its expires_in, and refused at most one
\* second early if its user is seen (auth_service.py:90-109).
THEOREM TokenLifetimes == Spec => TokenLifetime
<1>1. ASSUME AccountsInv, [Next]_vars, NEW l \in Logins, profile'[l] # profile[l]
      PROVE  LET age == clock - issued[l]
             IN  /\ profile'[l] = "200" => age <= 2 * TTL
                 /\ profile'[l] = "401" /\ token[l].user \in settled => age > 2 * (TTL - 1)
  <2>1. /\ ProfileRead(l) \/ ProfileRefused(l) \/ ProfileFails(l)
        /\ profile' \in {[profile EXCEPT ![l] = code] : code \in {"200", "401", "502"}}
    <3>1. ASSUME NEW k \in Logins, ProfileRead(k) \/ ProfileRefused(k) \/ ProfileFails(k)
          PROVE  k = l /\ profile' \in {[profile EXCEPT ![l] = code] : code \in {"200", "401", "502"}}
      BY <1>1, <3>1 DEF ProfileRead, ProfileRefused, ProfileFails, Answer, AccountsInv, TypeOK
    <3>2. \E k \in Logins : ProfileRead(k) \/ ProfileRefused(k) \/ ProfileFails(k)
      BY <1>1 DEF Next, vars, tokens, Arrive, QueryFails, Registering, CheckAddress, UserPut,
                  PutFails, Settle, LoggingIn, LoggedIn, Rejected, Tick
    <3>. QED BY <3>1, <3>2
  <2>2. at[l] = "200"
    BY <2>1 DEF ProfileRead, ProfileRefused, ProfileFails
  <2>3. token[l].expires = Seconds(issued[l]) + TTL
    BY <1>1, <2>2 DEF AccountsInv, TokenIsDated
  <2>4. /\ issued[l] \in Nat /\ clock \in Nat /\ TTL \in Nat /\ Seconds(issued[l]) \in Nat
        /\ 2 * Seconds(issued[l]) <= issued[l] /\ issued[l] <= 2 * Seconds(issued[l]) + 1
    <3>1. issued[l] \in Nat /\ clock \in Nat
      BY <1>1 DEF AccountsInv, TypeOK
    <3>. QED BY <3>1, SecondsBounds, TimeAssumption
  <2>5. ASSUME profile'[l] = "200" PROVE ~(2 * token[l].expires < clock)
    BY <1>1, <2>1, <2>5 DEF ProfileRead, ProfileRefused, ProfileFails, Answer, Expired,
                            AccountsInv, TypeOK
  <2>6. ASSUME profile'[l] = "401", token[l].user \in settled PROVE 2 * token[l].expires < clock
    BY <1>1, <2>1, <2>6 DEF ProfileRead, ProfileRefused, ProfileFails, Answer, Expired,
                            AccountsInv, TypeOK
  <2>7. ASSUME profile'[l] = "200" PROVE clock - issued[l] <= 2 * TTL
    BY <2>3, <2>4, <2>5, <2>7
  <2>8. ASSUME profile'[l] = "401", token[l].user \in settled
        PROVE  clock - issued[l] > 2 * (TTL - 1)
    BY <2>3, <2>4, <2>6, <2>8
  <2>. QED BY <2>7, <2>8
<1>2. AccountsInv /\ [Next]_vars =>
        \A l \in Logins : profile'[l] # profile[l] =>
            LET age == clock - issued[l]
            IN  /\ profile'[l] = "200" => age <= 2 * TTL
                /\ profile'[l] = "401" /\ token[l].user \in settled => age > 2 * (TTL - 1)
  BY <1>1
<1>. QED BY <1>2, AccountsInvariance, PTL DEF Spec, TokenLifetime

-----------------------------------------------------------------------------
(* The composition                                                          *)

\* Whatever the layers around it do, a step of theirs is one of the accounts
\* or leaves them alone.
LEMMA GatewayStepIsAccounts == [GatewayNext]_all => [Next]_vars
<1>1. ASSUME NEW l \in Logins,
             Send(l) \/ Enforce(l) \/ Business(l) \/ Simulate(l) \/ Attempt(l) \/ NoAttempt(l) \/ Received(l)
      PROVE  UNCHANGED vars
  BY <1>1 DEF Send, Enforce, Business, Simulate, Attempt, NoAttempt, Received, Keep
<1>2. ASSUME NEW l \in Logins, Authenticate(l) PROVE Next
  BY <1>2 DEF Authenticate, Next
<1>3. ChangePolicy \/ ChangeSeen => UNCHANGED vars
  BY DEF ChangePolicy, ChangeSeen
<1>. QED BY <1>1, <1>2, <1>3 DEF GatewayNext, Next, all

\* The gateway's composition keeps every promise of the accounts: its
\* behaviours are behaviours of Accounts (middleware.py, deps.py).
THEOREM GatewayImplementsAccounts == GatewaySpec => Spec
<1>1. GatewayInit => Init
  BY DEF GatewayInit
<1>. QED BY <1>1, GatewayStepIsAccounts, PTL DEF GatewaySpec, Spec

\* Behind the gateway too, addresses are unique, refused logins excused and the
\* lifetimes of tokens kept (auth_service.py:27-109).
THEOREM GatewayKeepsAccounts ==
    GatewaySpec => /\ []OneAccountPerAddress
                   /\ RefusalsAreExcused
                   /\ TokenLifetime
BY GatewayImplementsAccounts, AddressUniqueness, LoginRefusals, TokenLifetimes

-----------------------------------------------------------------------------
(* The layers                                                               *)

\* What is known of a login's request at each of its stages.
Layered(l) ==
    LET q == req[l]
        u == token[l].user
    IN  /\ q.stage # "idle" => at[l] = "200"
        /\ q.stage = "idle" => q = NotSent
        /\ q.stage \in {"gateway", "auth", "route"} => q.tried = 0 /\ q.retries = 0
        /\ q.stage = "retry" => q.retries = q.tried
        /\ q.stage # "answered" => q.logged = 0
        /\ q.stage = "gateway" /\ q.barred => "active" \notin Told(u)
        /\ q.stage \in {"auth", "route", "retry"} =>
             ~Forbids(q.seen) /\ (q.barred => q.seen = "none")

\* What LoggedIsAnswered and RetriesAreCounted say of one request.
Counted(l) ==
    req[l].stage = "answered" =>
        /\ req[l].logged = IF Forbids(req[l].seen) THEN 0 ELSE req[l].answer
        /\ req[l].tried > 0 =>
             /\ req[l].retries = req[l].tried - 1
             /\ req[l].answer = 200 => req[l].tried > 2
             /\ req[l].tried <= 2 => req[l].tried = limit /\ req[l].answer = 429
             /\ req[l].answer # 200 => req[l].tried = limit

\* The inductive invariant of the composition.
GatewayInv ==
    /\ AccountsInv
    /\ GatewayTypeOK
    /\ \A l \in Logins : Layered(l) /\ Counted(l)

\* The values a request may have.
RequestValues ==
    [stage : {"idle", "gateway", "auth", "route", "retry", "answered"},
     seen : Policies \cup {"none"}, barred : BOOLEAN,
     tried : 0 .. limit, retries : 0 .. limit,
     answer : Statuses, logged : Statuses]

\* Every exception has a status of its own, and none of them is 200.
LEMMA StatusTypes ==
    ASSUME NEW e
    PROVE  Status(e) \in Statuses \ {0, 200}
BY DEF Status, Statuses

\* A step of the surroundings on a login's request: it stays as it was, and
\* barred if it was, or an operator lifts what barred it.
Untouched(l) ==
    \/ /\ req'[l] = req[l]
       /\ req[l].barred /\ at[l] = "200" /\ "active" \notin Told(token[l].user) =>
            "active" \notin {policy'[token[l].user]} \cup older'[token[l].user]
    \/ req'[l] = [req[l] EXCEPT !.barred = FALSE]

\* A step that leaves a login's request alone keeps what is known of it.
LEMMA UntouchedKeeps ==
    ASSUME GatewayInv, [Next]_vars, NEW l \in Logins,
           Untouched(l), limit' = limit
    PROVE  Layered(l)' /\ Counted(l)'
<1>0. /\ req[l] \in RequestValues /\ NotSent.barred = FALSE
      /\ Layered(l) /\ Counted(l)
  BY DEF GatewayInv, GatewayTypeOK, RequestValues, NotSent
<1>4. /\ req'[l].stage = req[l].stage /\ req'[l].seen = req[l].seen
      /\ req'[l].tried = req[l].tried /\ req'[l].retries = req[l].retries
      /\ req'[l].answer = req[l].answer /\ req'[l].logged = req[l].logged
      /\ req'[l].barred => req[l].barred /\ req'[l] = req[l]
  BY <1>0 DEF Untouched, RequestValues
<1>5. req[l] = NotSent => req'[l] = NotSent
  BY <1>0 DEF Untouched, NotSent
<1>1. Counted(l)'
  BY <1>0, <1>4 DEF Counted, Forbids
<1>2. ASSUME req[l].stage # "idle" PROVE at'[l] = "200" /\ token'[l] = token[l] /\ token[l].user \in users
  <2>1. at[l] = "200"
    BY <1>2 DEF GatewayInv, Layered
  <2>2. ~LoggedIn(l)
    BY <2>1 DEF LoggedIn
  <2>3. token'[l] = token[l]
    BY <2>2, LoginKept DEF GatewayInv, AccountsInv
  <2>4. at'[l] = "200"
    BY <2>1 DEF Next, vars, tokens, Arrive, QueryFails, Registering, CheckAddress, UserPut, PutFails,
                Settle, LoggingIn, LoggedIn, Rejected, ProfileRead, ProfileRefused, ProfileFails,
                Answer, Tick, Goto, GatewayInv, AccountsInv, TypeOK, Requests
  <2>. QED BY <2>1, <2>3, <2>4 DEF GatewayInv, AccountsInv, TokenIsDated
<1>6. ASSUME req'[l].stage = "gateway", req'[l].barred
      PROVE  "active" \notin Told(token[l].user)'
  <2>1. req'[l] = req[l] /\ req[l].stage = "gateway" /\ req[l].barred
    BY <1>4, <1>6
  <2>2. at[l] = "200" /\ "active" \notin Told(token[l].user)
    BY <1>0, <2>1 DEF Layered
  <2>3. "active" \notin {policy'[token[l].user]} \cup older'[token[l].user]
    BY <1>0, <2>1, <2>2 DEF Untouched, RequestValues
  <2>4. token'[l] = token[l]
    BY <1>2, <2>1
  <2>. QED BY <2>3, <2>4 DEF Told
<1>3. Layered(l)'
  BY <1>0, <1>2, <1>4, <1>5, <1>6 DEF Layered, Forbids
<1>. QED BY <1>1, <1>3

\* A step of login l's request that has the right effect on it.
Moves(l) ==
    /\ UNCHANGED <<limit, policy, older, at, users, token>>
    /\ req' = [req EXCEPT ![l] = req'[l]]
    /\ req'[l] \in RequestValues
    /\ Layered(l)' /\ Counted(l)'

LEMMA RequestTyped ==
    ASSUME GatewayInv, NEW l \in Logins
    PROVE  /\ req \in [Logins -> RequestValues] /\ limit \in Nat
           /\ Layered(l) /\ Counted(l)
           /\ policy \in [Registrations -> Policies]
           /\ at[l] = "200" => token[l].user \in Registrations
BY LimitsAssumption
   DEF GatewayInv, GatewayTypeOK, RequestValues, AccountsInv, TypeOK, TokenIsDated

\* One effect on a request: the layer that answers it, inside the logger.
LEMMA RespondMoves ==
    ASSUME GatewayInv, NEW l \in Logins, NEW status \in Statuses \ {0},
           req[l].stage \in {"auth", "route", "retry"}, req[l].tried = 0, Respond(l, status),
           UNCHANGED <<limit, policy, older, at, users, token>>
    PROVE  Moves(l)
<1>1. /\ req \in [Logins -> RequestValues] /\ Layered(l) /\ limit \in Nat
  BY RequestTyped
<1>2. req' = [req EXCEPT ![l] =
          [req[l] EXCEPT !.stage = "answered", !.answer = status, !.logged = status]]
  BY <1>1 DEF Respond, RequestValues
<1>3. req'[l] = [req[l] EXCEPT !.stage = "answered", !.answer = status, !.logged = status]
  BY <1>1, <1>2
<1>4. req'[l] \in RequestValues /\ req' = [req EXCEPT ![l] = req'[l]]
  BY <1>1, <1>2, <1>3 DEF RequestValues
<1>5. /\ req'[l].stage = "answered" /\ req'[l].answer = status /\ req'[l].logged = status
      /\ req'[l].seen = req[l].seen /\ req'[l].tried = req[l].tried
  BY <1>1, <1>3 DEF RequestValues
<1>6. at[l] = "200" /\ req[l].tried = 0 /\ ~Forbids(req[l].seen)
  BY <1>1 DEF Layered
<1>7. Layered(l)'
  BY <1>5, <1>6 DEF Layered
<1>8. Counted(l)'
  BY <1>5, <1>6 DEF Counted, Forbids
<1>. QED BY <1>4, <1>7, <1>8 DEF Moves

LEMMA RaiseMoves ==
    ASSUME GatewayInv, NEW l \in Logins, NEW e,
           req[l].stage \in {"auth", "route", "retry"}, req[l].tried = 0, Raise(l, e),
           UNCHANGED <<limit, policy, older, at, users, token>>
    PROVE  Moves(l)
<1>1. CASE Handled(e)
  BY <1>1, RespondMoves, StatusTypes DEF Raise
<1>2. CASE ~Handled(e)
  <2>1. Respond(l, 500)
    BY <1>2 DEF Raise, Handled, Respond, Status
  <2>. QED BY <2>1, RespondMoves DEF Statuses
<1>. QED BY <1>1, <1>2

LEMMA SendMoves == ASSUME GatewayInv, NEW l \in Logins, Send(l) PROVE Moves(l)
<1> DEFINE u == token[l].user
           bar == "active" \notin Told(u)
<1>1. req \in [Logins -> RequestValues] /\ Layered(l) /\ limit \in Nat /\ at[l] = "200"
      /\ req[l] = NotSent /\ policy[u] \in Policies
  BY RequestTyped DEF Send, Layered
<1>2. UNCHANGED <<limit, policy, older, at, users, token>>
  BY DEF Send, Keep, Fixed, vars, tokens
<1>3. req' = [req EXCEPT ![l] = [NotSent EXCEPT !.stage = "gateway", !.barred = bar]]
  BY <1>1 DEF Send
<1>4. req'[l] = [NotSent EXCEPT !.stage = "gateway", !.barred = bar]
  BY <1>1, <1>3
<1>5. /\ req'[l].stage = "gateway" /\ req'[l].barred = bar /\ req'[l].tried = 0
      /\ req'[l].retries = 0 /\ req'[l].logged = 0
  BY <1>4 DEF NotSent
<1>6. req'[l] \in RequestValues
  <2>1. bar \in BOOLEAN
    OBVIOUS
  <2> HIDE DEF bar
  <2>2. req'[l] = [stage |-> "gateway", seen |-> "none", barred |-> bar,
                   tried |-> 0, retries |-> 0, answer |-> 0, logged |-> 0]
    BY <1>4 DEF NotSent
  <2>. QED BY <1>1, <1>2, <2>1, <2>2 DEF RequestValues, Statuses
<1>7. Layered(l)'
  BY <1>1, <1>2, <1>5 DEF Layered, Told
<1>8. Counted(l)'
  BY <1>5 DEF Counted
<1>. QED BY <1>2, <1>3, <1>4, <1>6, <1>7, <1>8 DEF Moves

LEMMA EnforceMoves == ASSUME GatewayInv, NEW l \in Logins, Enforce(l) PROVE Moves(l)
<1>1. req \in [Logins -> RequestValues] /\ Layered(l) /\ limit \in Nat /\ req[l].stage = "gateway"
      /\ policy \in [Registrations -> Policies] /\ at[l] = "200" /\ token[l].user \in Registrations
  BY RequestTyped DEF Enforce, Layered
<1>2. UNCHANGED <<limit, policy, older, at, users, token>>
  BY DEF Enforce, Keep, Fixed, vars, tokens
<1>3. PICK seen \in Readable(l) :
        req' = [req EXCEPT ![l].seen = seen,
                           ![l].stage = IF Forbids(seen) THEN "answered" ELSE "auth",
                           ![l].answer = IF Forbids(seen) THEN 403 ELSE 0]
  BY DEF Enforce
<1>4. /\ seen \in Policies \cup {"none"}
      /\ seen = "none" \/ seen \in Told(token[l].user)
  <2>1. older \in [Registrations -> SUBSET Policies]
    BY DEF GatewayInv, GatewayTypeOK
  <2>. QED BY <1>1, <2>1 DEF Readable, Told
<1> DEFINE stage == IF Forbids(seen) THEN "answered" ELSE "auth"
           status == IF Forbids(seen) THEN 403 ELSE 0
<1>5. /\ req' = [req EXCEPT ![l] = req'[l]]
      /\ req'[l] = [req[l] EXCEPT !.seen = seen, !.stage = stage, !.answer = status]
  BY <1>1, <1>3
<1>6. req'[l] \in RequestValues
  <2>1. stage \in {"answered", "auth"} /\ status \in Statuses
    BY DEF Statuses
  <2> HIDE DEF stage, status
  <2>2. [req[l] EXCEPT !.seen = seen, !.stage = stage, !.answer = status] \in RequestValues
    BY <1>1, <1>4, <2>1 DEF RequestValues
  <2>. QED BY <1>5, <2>2
<1>7. /\ req'[l].seen = seen /\ req'[l].barred = req[l].barred
      /\ req'[l].stage = IF Forbids(seen) THEN "answered" ELSE "auth"
      /\ req'[l].tried = 0 /\ req'[l].retries = 0 /\ req'[l].logged = 0
  BY <1>1, <1>5 DEF RequestValues, Layered
<1>8. req[l].barred /\ ~Forbids(seen) => seen = "none"
  BY <1>1, <1>4 DEF Layered, Forbids, Policies
<1>9. Layered(l)'
  BY <1>1, <1>2, <1>7, <1>8 DEF Layered, Forbids
<1>10. Counted(l)'
  BY <1>7 DEF Counted, Forbids
<1>. QED BY <1>2, <1>5, <1>6, <1>9, <1>10 DEF Moves

LEMMA AuthenticateMoves == ASSUME GatewayInv, NEW l \in Logins, Authenticate(l) PROVE Moves(l)
<1>1. req \in [Logins -> RequestValues] /\ Layered(l) /\ limit \in Nat /\ req[l].stage = "auth"
      /\ req[l].tried = 0
  BY RequestTyped DEF Authenticate, Layered
<1>2. UNCHANGED <<limit, policy, older, at, users, token>>
  BY DEF Authenticate, Fixed, ProfileRead, ProfileRefused, ProfileFails, Answer
<1>3. ASSUME NEW there \in {"route", "retry"}, Now(l, there) PROVE Moves(l)
  <2>1. req' = [req EXCEPT ![l] = req'[l]] /\ req'[l] = [req[l] EXCEPT !.stage = there]
    BY <1>1, <1>3 DEF Now
  <2>2. /\ req'[l] \in RequestValues /\ req'[l].stage = there
        /\ req'[l].seen = req[l].seen /\ req'[l].barred = req[l].barred
        /\ req'[l].tried = req[l].tried /\ req'[l].retries = req[l].retries
        /\ req'[l].logged = req[l].logged
    BY <1>1, <1>2, <2>1 DEF RequestValues
  <2>3. Layered(l)'
    BY <1>1, <1>2, <2>2 DEF Layered, Forbids
  <2>4. Counted(l)'
    BY <2>2 DEF Counted
  <2>. QED BY <1>2, <2>1, <2>2, <2>3, <2>4 DEF Moves
<1>4. ASSUME NEW e, Raise(l, e) PROVE Moves(l)
  BY <1>1, <1>2, <1>4, RaiseMoves
<1>. QED BY <1>3, <1>4 DEF Authenticate

LEMMA RouteMoves == ASSUME GatewayInv, NEW l \in Logins, Business(l) \/ Simulate(l) PROVE Moves(l)
<1>1. /\ req[l].stage = "route" /\ UNCHANGED <<limit, policy, older, at, users, token>>
      /\ req[l].tried = 0
  BY RequestTyped DEF Business, Simulate, Keep, Fixed, vars, tokens, Layered
<1>2. Respond(l, 200) \/ \E e \in AwsErrors \cup {"HTTP 404", "unnamed", "SimulatedFailure", "SimulatedAWSError", "botocore"} : Raise(l, e)
  BY DEF Business, Simulate
<1>3. ASSUME Respond(l, 200) PROVE Moves(l)
  BY <1>1, <1>3, RespondMoves DEF Statuses
<1>4. ASSUME NEW e, Raise(l, e) PROVE Moves(l)
  BY <1>1, <1>4, RaiseMoves
<1>. QED BY <1>2, <1>3, <1>4

\* The two effects of an attempt on a request.
Answered(q, n, status) ==
    [q EXCEPT !.tried = n, !.stage = "answered", !.answer = status, !.logged = status]

Retried(q, n) == [q EXCEPT !.tried = n, !.retries = n]

LEMMA AnsweredValues ==
    ASSUME limit \in Nat, NEW q \in RequestValues, NEW n \in 0 .. limit, NEW status \in Statuses
    PROVE  LET p == Answered(q, n, status)
           IN  /\ p \in RequestValues
               /\ p.stage = "answered" /\ p.tried = n /\ p.retries = q.retries
               /\ p.answer = status /\ p.logged = status /\ p.seen = q.seen
<1> DEFINE p == Answered(q, n, status)
<1>1. p \in RequestValues
  BY DEF RequestValues, Answered
<1>2. /\ p.stage = "answered" /\ p.tried = n /\ p.retries = q.retries
      /\ p.answer = status /\ p.logged = status /\ p.seen = q.seen
  BY DEF RequestValues, Answered
<1>. QED BY <1>1, <1>2

LEMMA RetriedValues ==
    ASSUME limit \in Nat, NEW q \in RequestValues, NEW n \in 0 .. limit
    PROVE  LET p == Retried(q, n)
           IN  /\ p \in RequestValues
               /\ p.stage = q.stage /\ p.tried = n /\ p.retries = n
               /\ p.logged = q.logged /\ p.seen = q.seen /\ p.barred = q.barred
<1> DEFINE p == Retried(q, n)
<1>1. p \in RequestValues
  BY DEF RequestValues, Retried
<1>2. /\ p.stage = q.stage /\ p.tried = n /\ p.retries = n
      /\ p.logged = q.logged /\ p.seen = q.seen /\ p.barred = q.barred
  BY DEF RequestValues, Retried
<1>. QED BY <1>1, <1>2

LEMMA AttemptMoves == ASSUME GatewayInv, NEW l \in Logins, Attempt(l) PROVE Moves(l)
<1> DEFINE n == req[l].tried + 1
           q == req'[l]
<1>1. /\ req \in [Logins -> RequestValues] /\ req[l] \in RequestValues
      /\ Layered(l) /\ limit \in Nat /\ req[l].stage = "retry"
  BY RequestTyped DEF Attempt
<1>2. UNCHANGED <<limit, policy, older, at, users, token>>
  BY DEF Attempt, Keep, Fixed, vars, tokens
<1>3. /\ n \in 1 .. limit /\ n \in 0 .. limit
      /\ req[l].tried = n - 1 /\ req[l].retries = n - 1
  <2>1. n \in 1 .. limit
    BY DEF Attempt, Attempts
  <2>2. req[l].tried \in Nat
    BY <1>1 DEF RequestValues
  <2>. QED BY <1>1, <2>1, <2>2 DEF Layered
<1>4. /\ at[l] = "200" /\ ~Forbids(req[l].seen) /\ req[l].logged = 0
      /\ req[l].barred => req[l].seen = "none"
  BY <1>1 DEF Layered
<1> HIDE DEF n, q
<1>5. ASSUME q \in RequestValues, req' = [req EXCEPT ![l] = q],
             q.stage = "answered", q.tried = n, q.retries = n - 1,
             q.logged = q.answer, q.seen = req[l].seen,
             q.answer = 200 => n > 2,
             n <= 2 => n = limit /\ q.answer = 429,
             q.answer # 200 => n = limit
      PROVE  Moves(l)
  <2>1. Layered(l)'
    BY <1>2, <1>4, <1>5 DEF Layered, q
  <2>2. Counted(l)'
    BY <1>1, <1>2, <1>3, <1>4, <1>5 DEF Counted, Forbids, q
  <2>. QED BY <1>2, <1>5, <2>1, <2>2 DEF Moves, q
<1>6. ASSUME n > 2,
             req' = [req EXCEPT ![l].stage = "answered", ![l].tried = n,
                                ![l].answer = 200, ![l].logged = 200]
      PROVE  Moves(l)
  <2>1. req' = [req EXCEPT ![l] = Answered(req[l], n, 200)]
    <3>1. req' = [req EXCEPT ![l] = [req[l] EXCEPT !.stage = "answered", !.tried = n,
                                                   !.answer = 200, !.logged = 200]]
      BY <1>1, <1>6
    <3>2. [req[l] EXCEPT !.stage = "answered", !.tried = n, !.answer = 200, !.logged = 200]
            = Answered(req[l], n, 200)
      BY <1>1 DEF RequestValues, Answered
    <3>. QED BY <3>1, <3>2
  <2>2. q = Answered(req[l], n, 200)
    BY <1>1, <2>1 DEF q
  <2>4. /\ q \in RequestValues /\ q.stage = "answered" /\ q.tried = n
        /\ q.retries = n - 1 /\ q.answer = 200 /\ q.logged = 200 /\ q.seen = req[l].seen
    <3>1. 200 \in Statuses
      BY DEF Statuses
    <3>. QED BY <1>1, <1>3, <2>2, <3>1, AnsweredValues
  <2>3. ~(n <= 2)
    BY <1>1, <1>3, <1>6
  <2>. QED BY <1>5, <1>6, <2>1, <2>2, <2>3, <2>4
<1>7. ASSUME n < limit, req' = [req EXCEPT ![l].tried = n, ![l].retries = @ + 1]
      PROVE  Moves(l)
  <2>1. req' = [req EXCEPT ![l] = Retried(req[l], n)]
    BY <1>1, <1>3, <1>7 DEF RequestValues, Retried
  <2>5. q = Retried(req[l], n)
    BY <1>1, <2>1 DEF q
  <2>2. /\ q \in RequestValues /\ q.stage = "retry" /\ q.tried = n /\ q.retries = n
        /\ q.logged = 0 /\ q.seen = req[l].seen /\ q.barred = req[l].barred
    BY <1>1, <1>3, <1>4, <2>5, RetriedValues
  <2>3. Layered(l)'
    BY <1>2, <1>4, <2>2 DEF Layered, Forbids, q
  <2>4. Counted(l)'
    BY <2>2 DEF Counted, q
  <2>. QED BY <1>2, <2>1, <2>2, <2>3, <2>4, <2>5 DEF Moves, q
<1>8. ASSUME NEW e, n <= 2 => e = "throttled", n = limit,
             req' = [req EXCEPT ![l].tried = n, ![l].stage = "answered",
                                ![l].answer = Status(e), ![l].logged = Status(e)]
      PROVE  Moves(l)
  <2>1. Status(e) \in Statuses \ {0, 200}
    BY StatusTypes
  <2>2. n <= 2 => Status(e) = 429
    BY <1>8 DEF Status
  <2> DEFINE status == Status(e)
  <2> HIDE DEF status
  <2>3. req' = [req EXCEPT ![l] = Answered(req[l], n, status)]
    BY <1>1, <1>8 DEF RequestValues, Answered, status
  <2>6. q = Answered(req[l], n, status)
    BY <1>1, <2>3 DEF q
  <2>4. /\ q \in RequestValues /\ q.stage = "answered" /\ q.tried = n
        /\ q.retries = n - 1 /\ q.answer = status /\ q.logged = status /\ q.seen = req[l].seen
    <3>1. status \in Statuses
      BY <2>1 DEF status
    <3>. QED BY <1>1, <1>3, <2>6, <3>1, AnsweredValues
  <2>5. status # 200 /\ (n <= 2 => status = 429)
    BY <2>1, <2>2 DEF status
  <2>7. /\ q.logged = q.answer /\ (q.answer = 200 => n > 2)
        /\ n <= 2 => n = limit /\ q.answer = 429
        /\ q.answer # 200 => n = limit
    BY <1>8, <2>4, <2>5
  <2>8. req' = [req EXCEPT ![l] = q]
    BY <2>3, <2>6
  <2>. QED BY <1>5, <2>4, <2>7, <2>8
<1>9. ASSUME NEW e, n <= 2 => e = "throttled",
             LET counted == [req EXCEPT ![l].tried = n, ![l].retries = IF Last(n) THEN @ ELSE @ + 1]
             IN  req' = IF ~Last(n) /\ n + 1 \in Attempts THEN counted
                        ELSE [counted EXCEPT ![l].stage = "answered",
                                             ![l].answer = Status(e), ![l].logged = Status(e)]
      PROVE  Moves(l)
  <2>1. CASE n < limit
    <3>1. ~Last(n) /\ n + 1 \in Attempts
      BY <1>1, <1>3, <2>1 DEF Last, Attempts
    <3>2. req' = [req EXCEPT ![l].tried = n, ![l].retries = @ + 1]
      BY <1>9, <3>1
    <3>. QED BY <1>7, <2>1, <3>2
  <2>2. CASE n = limit
    <3>1. Last(n)
      BY <1>1, <1>3, <2>2 DEF Last
    <3> DEFINE status == Status(e)
               answered == [req[l] EXCEPT !.tried = n, !.stage = "answered",
                                          !.answer = status, !.logged = status]
    <3>2. req' = [[req EXCEPT ![l].tried = n, ![l].retries = req[l].retries]
                    EXCEPT ![l].stage = "answered", ![l].answer = status, ![l].logged = status]
      BY <1>9, <3>1
    <3> HIDE DEF status
    <3>3. req' = [req EXCEPT ![l].tried = n, ![l].stage = "answered",
                             ![l].answer = status, ![l].logged = status]
      BY <1>1, <3>2 DEF RequestValues
    <3>. QED BY <1>8, <1>9, <2>2, <3>3 DEF status
  <2>. QED BY <1>1, <1>3, <2>1, <2>2
<1>10. n > 2 \/ n <= 2
  BY <1>1, <1>3
<1>11. \/ /\ n > 2
          /\ req' = [req EXCEPT ![l].stage = "answered", ![l].tried = n,
                                ![l].answer = 200, ![l].logged = 200]
       \/ \E e : /\ n <= 2 => e = "throttled"
                /\ LET counted == [req EXCEPT ![l].tried = n,
                                              ![l].retries = IF Last(n) THEN @ ELSE @ + 1]
                   IN  req' = IF ~Last(n) /\ n + 1 \in Attempts THEN counted
                              ELSE [counted EXCEPT ![l].stage = "answered",
                                                   ![l].answer = Status(e), ![l].logged = Status(e)]
  BY <1>1, <1>3, <1>10, Zenon DEF Attempt, n
<1>. QED BY <1>6, <1>9, <1>11

LEMMA NoAttemptMoves == ASSUME GatewayInv, NEW l \in Logins, NoAttempt(l) PROVE Moves(l)
<1>1. req[l] \in RequestValues /\ limit \in Nat /\ req[l].stage = "retry"
  BY RequestTyped DEF NoAttempt
<1>2. limit = 0
  BY <1>1 DEF NoAttempt, Attempts
<1>3. req[l].tried = 0
  BY <1>1, <1>2 DEF RequestValues
<1>4. Raise(l, "unnamed") /\ UNCHANGED <<limit, policy, older, at, users, token>>
  BY DEF NoAttempt, Keep, Fixed, vars, tokens
<1>. QED BY <1>1, <1>3, <1>4, RaiseMoves

LEMMA ReceivedMoves == ASSUME GatewayInv, NEW l \in Logins, Received(l) PROVE Moves(l)
<1>1. req \in [Logins -> RequestValues] /\ limit \in Nat
  BY RequestTyped
<1>2. UNCHANGED <<limit, policy, older, at, users, token>>
  BY DEF Received, Keep, Fixed, vars, tokens
<1>3. req' = [req EXCEPT ![l] = NotSent] /\ req'[l] = NotSent
  BY <1>1 DEF Received
<1>4. NotSent \in RequestValues
  BY <1>1 DEF NotSent, RequestValues, Statuses
<1>5. Layered(l)' /\ Counted(l)'
  BY <1>3 DEF Layered, Counted, NotSent
<1>. QED BY <1>2, <1>3, <1>4, <1>5 DEF Moves

\* A step on one login's request keeps the invariant of all of them.
LEMMA MovesKeeps ==
    ASSUME GatewayInv, [Next]_vars, NEW l \in Logins, Moves(l)
    PROVE  GatewayInv'
<1>1. req \in [Logins -> RequestValues] /\ UNCHANGED <<limit, policy, older, users>>
  BY RequestTyped DEF Moves
<1>2. GatewayTypeOK'
  <2>1. req' \in [Logins -> RequestValues]
    BY <1>1 DEF Moves
  <2>. QED BY <1>1, <2>1 DEF GatewayInv, GatewayTypeOK, RequestValues
<1>3. ASSUME NEW k \in Logins PROVE Layered(k)' /\ Counted(k)'
  <2>1. CASE k = l
    BY <2>1 DEF Moves
  <2>2. CASE k # l
    <3>1. req'[k] = req[k]
      BY <1>1, <2>2 DEF Moves
    <3>2. Untouched(k)
      BY <1>1, <3>1 DEF Untouched, Told
    <3>. QED BY <1>1, <3>2, UntouchedKeeps
  <2>. QED BY <2>1, <2>2
<1>. QED BY <1>2, <1>3, AccountsInvStep DEF GatewayInv

\* A step of the surroundings keeps the invariant of all requests.
LEMMA SurroundingsKeep ==
    ASSUME GatewayInv, [Next]_vars, limit' = limit,
           req' \in [Logins -> RequestValues],
           policy' \in [Registrations -> Policies],
           older' \in [Registrations -> SUBSET Policies],
           \A l \in Logins : Untouched(l)
    PROVE  GatewayInv'
<1>1. ASSUME NEW l \in Logins PROVE Layered(l)' /\ Counted(l)'
  BY UntouchedKeeps
<1>2. GatewayTypeOK'
  BY DEF GatewayInv, GatewayTypeOK, RequestValues
<1>. QED BY <1>1, <1>2, AccountsInvStep DEF GatewayInv

LEMMA GatewayInvStep == GatewayInv /\ [GatewayNext]_all => GatewayInv'
<1> SUFFICES ASSUME GatewayInv, [GatewayNext]_all PROVE GatewayInv'
  OBVIOUS
<1>1. [Next]_vars
  BY GatewayStepIsAccounts
<1>2. /\ policy \in [Registrations -> Policies] /\ older \in [Registrations -> SUBSET Policies]
      /\ req \in [Logins -> RequestValues]
  BY DEF GatewayInv, GatewayTypeOK, RequestValues
<1>3. ASSUME NEW l \in Logins,
             \/ Send(l) \/ Enforce(l) \/ Authenticate(l) \/ Business(l) \/ Simulate(l)
             \/ Attempt(l) \/ NoAttempt(l) \/ Received(l)
      PROVE  GatewayInv'
  <2>1. Moves(l)
    BY <1>3, SendMoves, EnforceMoves, AuthenticateMoves, RouteMoves, AttemptMoves, NoAttemptMoves,
       ReceivedMoves
  <2>. QED BY <1>1, <2>1, MovesKeeps
<1>4. CASE UNCHANGED gateway
  <2>1. UNCHANGED <<limit, req, policy, older>>
    BY <1>4 DEF gateway
  <2>2. \A l \in Logins : Untouched(l)
    BY <2>1 DEF Untouched, Told
  <2>3. limit' = limit /\ req' \in [Logins -> RequestValues]
    BY <1>2, <2>1
  <2>. QED BY <1>1, <1>2, <2>1, <2>2, <2>3, SurroundingsKeep
<1>5. CASE ChangePolicy
  <2>1. PICK k \in Logins :
          at[k] = "200" /\ \E p \in Policies \ {policy[token[k].user]} :
            LET u == token[k].user
            IN  /\ policy' = [policy EXCEPT ![u] = p]
                /\ older' = [older EXCEPT ![u] = Told(u) \ {p}]
                /\ req' = [l \in Logins |->
                              [req[l] EXCEPT !.barred = @ /\ (p # "active" \/ token[l].user # u)]]
    BY <1>5, Zenon DEF ChangePolicy
  <2> DEFINE u == token[k].user
  <2>2. PICK p \in Policies \ {policy[u]} :
          /\ policy' = [policy EXCEPT ![u] = p]
          /\ older' = [older EXCEPT ![u] = Told(u) \ {p}]
          /\ req' = [l \in Logins |->
                        [req[l] EXCEPT !.barred = @ /\ (p # "active" \/ token[l].user # u)]]
    BY <2>1
  <2>3. limit' = limit /\ u \in Registrations
    BY <1>5, <2>1, RequestTyped DEF ChangePolicy
  <2> HIDE DEF u
  <2>4. policy' \in [Registrations -> Policies] /\ older' \in [Registrations -> SUBSET Policies]
    BY <1>2, <2>2, <2>3 DEF Told
  <2>5. ASSUME NEW l \in Logins PROVE Untouched(l) /\ req'[l] \in RequestValues
    <3>1. req[l] \in RequestValues /\ req[l].barred \in BOOLEAN
      BY <1>2 DEF RequestValues
    <3>2. CASE p = "active" /\ token[l].user = u
      <4>1. req'[l] = [req[l] EXCEPT !.barred = FALSE]
        BY <2>2, <3>2
      <4>2. req'[l] \in RequestValues
        BY <3>1, <4>1 DEF RequestValues
      <4>. QED BY <4>1, <4>2 DEF Untouched
    <3>3. CASE ~(p = "active" /\ token[l].user = u)
      <4>1. req'[l] = [req[l] EXCEPT !.barred = req[l].barred]
        BY <2>2, <3>1, <3>3
      <4>2. req'[l] = req[l]
        BY <3>1, <4>1 DEF RequestValues
      <4>3. ASSUME at[l] = "200", "active" \notin Told(token[l].user)
            PROVE  "active" \notin {policy'[token[l].user]} \cup older'[token[l].user]
        <5>1. token[l].user \in Registrations
          BY <4>3, RequestTyped
        <5>2. CASE token[l].user = u
          BY <1>2, <2>2, <2>3, <3>3, <4>3, <5>2 DEF Told
        <5>3. CASE token[l].user # u
          BY <1>2, <2>2, <4>3, <5>1, <5>3 DEF Told
        <5>. QED BY <5>2, <5>3
      <4>. QED BY <3>1, <4>2, <4>3 DEF Untouched
    <3>. QED BY <3>2, <3>3
  <2>6. req' \in [Logins -> RequestValues]
    BY <2>2, <2>5
  <2>. QED BY <1>1, <2>3, <2>4, <2>5, <2>6, SurroundingsKeep
<1>6. CASE ChangeSeen
  <2>1. UNCHANGED <<limit, req, policy>>
    BY <1>6 DEF ChangeSeen
  <2>2. PICK u \in Registrations : \E left \in SUBSET older[u] : older' = [older EXCEPT ![u] = left]
    BY <1>6 DEF ChangeSeen
  <2>3. older' \in [Registrations -> SUBSET Policies]
    BY <1>2, <2>2
  <2>4. \A v \in Registrations : older'[v] \subseteq older[v]
    BY <1>2, <2>2
  <2>5. ASSUME NEW l \in Logins PROVE Untouched(l)
    <3>1. at[l] = "200" => token[l].user \in Registrations
      BY RequestTyped
    <3>. QED BY <2>1, <2>4, <3>1 DEF Untouched, Told
  <2>6. limit' = limit /\ req' \in [Logins -> RequestValues] /\ policy' \in [Registrations -> Policies]
    BY <1>2, <2>1
  <2>. QED BY <1>1, <2>3, <2>5, <2>6, SurroundingsKeep
<1>7. CASE UNCHANGED all
  BY <1>4, <1>7 DEF all
<1>. QED BY <1>3, <1>4, <1>5, <1>6, <1>7 DEF GatewayNext

LEMMA GatewayInvInit == GatewayInit => GatewayInv
<1> SUFFICES ASSUME GatewayInit PROVE GatewayInv
  OBVIOUS
<1>1. AccountsInv
  BY AccountsInvInit DEF GatewayInit
<1>2. limit \in Nat
  BY LimitsAssumption DEF GatewayInit
<1>3. NotSent \in RequestValues
  BY <1>2 DEF NotSent, RequestValues, Statuses
<1>4. GatewayTypeOK
  BY <1>3 DEF GatewayInit, GatewayTypeOK, RequestValues, Policies
<1>5. \A l \in Logins : Layered(l) /\ Counted(l)
  BY DEF GatewayInit, Layered, Counted, NotSent
<1>. QED BY <1>1, <1>4, <1>5 DEF GatewayInv

\* The inductive invariant of the composition holds in every state.
THEOREM GatewayInvariance == GatewaySpec => []GatewayInv
BY GatewayInvInit, GatewayInvStep, PTL DEF GatewaySpec

\* Every variable of the layers keeps its type; an attempt's number never
\* passes the limit (utils/aws.py:117-139).
THEOREM GatewayTypes == GatewaySpec => []GatewayTypeOK
<1>1. GatewayInv => GatewayTypeOK
  BY DEF GatewayInv
<1>. QED BY <1>1, GatewayInvariance, PTL

\* What every reader of the table sees forbidden, and no operator lifts, is
\* not served, unless the gateway's own read failed (middleware.py:31-72).
THEOREM Enforcement == GatewaySpec => []ForbiddenIsNotServed
<1>1. GatewayInv => ForbiddenIsNotServed
  BY DEF GatewayInv, Layered, ForbiddenIsNotServed
<1>. QED BY <1>1, GatewayInvariance, PTL

\* The log tells the status the client got, for every exception
\* (main.py:44-84, 180-198, 254-269).
THEOREM LogFidelity == GatewaySpec => []LoggedIsAnswered
<1>1. GatewayInv => LoggedIsAnswered
  BY DEF GatewayInv, Counted, LoggedIsAnswered
<1>. QED BY <1>1, GatewayInvariance, PTL

\* The retry demo calls as often as the setting says and counts each retry,
\* whatever the setting is (aws.py:117-139, s3_service.py:41-63).
THEOREM RetryAccounting == GatewaySpec => []RetriesAreCounted
<1>1. GatewayInv => RetriesAreCounted
  BY DEF GatewayInv, Counted, RetriesAreCounted
<1>. QED BY <1>1, GatewayInvariance, PTL
=============================================================================
