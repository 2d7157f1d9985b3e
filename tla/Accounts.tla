------------------------------ MODULE Accounts ------------------------------
(***************************************************************************)
(* AuthService (services/auth_service.py) behind its routes                *)
(* (routes/auth.py): registration and login over the email-index of the    *)
(* users table, stateless tokens, and the profile read that every          *)
(* protected route makes (deps.py).                                        *)
(*                                                                         *)
(* Each element of Registrations and Logins is one request that has passed *)
(* the checks of schemas/auth.py.  A user is named by the registration     *)
(* that wrote it.  The index and the reads of the table are eventually     *)
(* consistent: what is written is certain to be seen only after a while.   *)
(***************************************************************************)
EXTENDS Naturals

CONSTANTS
    Registrations, Logins,
    Address,    \* the address each request was sent with, as typed
    Trimmed,    \* what strip() and lower() make of each address
    Password,   \* the password of each request
    TTL,        \* token_ttl_seconds
    MaxTime     \* bound of the model: half-seconds the clock runs

ASSUME RequestsAssumption == Registrations \cap Logins = {}
ASSUME TimeAssumption == TTL \in Nat /\ MaxTime \in Nat

Requests == Registrations \cup Logins

VARIABLES
    at,       \* "new", the call each request makes next, or its status code
    users,    \* the items of the users table
    settled,  \* the users every read of index and table sees
    token,    \* the user and expiry of the token each login was answered
    profile,  \* the answer of the last profile read with that token
    clock,    \* time.time(), in half-seconds
    issued,   \* ghost: when the token was issued
    blurred   \* ghost: registrations that could not see each other

tokens == <<token, profile, clock, issued>>
vars == <<at, users, settled, tokens, blurred>>

Seconds(halves) == halves \div 2

NoToken == [user |-> "nobody", expires |-> 0]

TypeOK ==
    /\ at \in [Requests -> {"new", "query", "put", "201", "200", "401", "409", "502"}]
    /\ users \subseteq Registrations /\ settled \subseteq users
    /\ token \in [Logins -> {NoToken} \cup [user : users, expires : 0 .. MaxTime \div 2 + TTL]]
    /\ profile \in [Logins -> {"none", "200", "401", "502"}]
    /\ clock \in 0 .. MaxTime /\ issued \in [Logins -> 0 .. MaxTime]
    /\ blurred \subseteq SUBSET Registrations

Init ==
    /\ at = [r \in Requests |-> "new"]
    /\ users = {} /\ settled = {}
    /\ token = [l \in Logins |-> NoToken] /\ profile = [l \in Logins |-> "none"]
    /\ clock = 0 /\ issued = [l \in Logins |-> 0]
    /\ blurred = {}

Goto(r, there) == at' = [at EXCEPT ![r] = there]

Normal(r) == Trimmed[Address[r]]

\* Mutant of Key: the address is looked up as typed.
KeyAsTyped(r) == Address[r]

\* What a request looks the index up by.
Key(r) == Normal(r)

\* The accounts stored under an address.
Under(key, S) == {u \in S : Normal(u) = key}

\* What a query may return: all that has settled and any of the rest.
Answers(key) == {S \in SUBSET Under(key, users) : Under(key, settled) \subseteq S}

----------------------------------------------------------------------------
(* register                                                                *)

Arrive(r) ==
    /\ at[r] = "new"
    /\ Goto(r, "query")
    /\ UNCHANGED <<users, settled, tokens, blurred>>

Unseen(r) ==
    {u \in Registrations \ {r} :
        Normal(u) = Normal(r) /\ (at[u] = "put" \/ u \in users \ settled)}

\* Mutant of Taken: a found item is not looked at.
TakenIgnored(S) == FALSE

Taken(S) == S # {}

CheckAddress(r) ==
    /\ r \in Registrations /\ at[r] = "query"
    /\ \E S \in Answers(Key(r)) : Goto(r, IF Taken(S) THEN "409" ELSE "put")
    /\ blurred' = blurred \cup {{r, u} : u \in Unseen(r)}
    /\ UNCHANGED <<users, settled, tokens>>

UserPut(r) ==
    /\ at[r] = "put"
    /\ users' = users \cup {r}
    /\ Goto(r, "201")
    /\ UNCHANGED <<settled, tokens, blurred>>

\* put_item raises; it may have written the user.
PutFails(r) ==
    /\ at[r] = "put"
    /\ users' \in {users, users \cup {r}}
    /\ Goto(r, "502")
    /\ UNCHANGED <<settled, tokens, blurred>>

QueryFails(r) ==
    /\ at[r] = "query"
    /\ Goto(r, "502")
    /\ UNCHANGED <<users, settled, tokens, blurred>>

----------------------------------------------------------------------------
(* login                                                                   *)

\* Mutant of Expiry: the time is rounded up.
ExpiryRoundedUp == Seconds(clock + 1) + TTL

\* int(time.time()) + token_ttl_seconds
Expiry == Seconds(clock) + TTL

Verified(l, u) == Password[l] = Password[u]

\* The first item is taken; the index does not order them.
LoggedIn(l) ==
    /\ l \in Logins /\ at[l] = "query"
    /\ \E S \in Answers(Key(l)) : \E u \in S :
        /\ Verified(l, u)
        /\ token' = [token EXCEPT ![l] = [user |-> u, expires |-> Expiry]]
    /\ issued' = [issued EXCEPT ![l] = clock]
    /\ Goto(l, "200")
    /\ UNCHANGED <<users, settled, profile, clock, blurred>>

Rejected(l) ==
    /\ l \in Logins /\ at[l] = "query"
    /\ \E S \in Answers(Key(l)) : S = {} \/ \E u \in S : ~Verified(l, u)
    /\ Goto(l, "401")
    /\ UNCHANGED <<users, settled, tokens, blurred>>

----------------------------------------------------------------------------
(* get_profile: the token, then the item it names; one action, at the time *)
(* of the token's check.                                                   *)

Answer(l, code) ==
    /\ profile' = [profile EXCEPT ![l] = code]
    /\ UNCHANGED <<at, users, settled, token, clock, issued, blurred>>

\* int(expires) < time.time()
Expired(l) == 2 * token[l].expires < clock

ProfileRead(l) == at[l] = "200" /\ ~Expired(l) /\ Answer(l, "200")

\* Expired, or a read that does not see the item yet.
ProfileRefused(l) ==
    /\ at[l] = "200"
    /\ Expired(l) \/ token[l].user \notin settled
    /\ Answer(l, "401")

ProfileFails(l) == at[l] = "200" /\ ~Expired(l) /\ Answer(l, "502")

----------------------------------------------------------------------------
Settle(u) ==
    /\ u \in users \ settled
    /\ settled' = settled \cup {u}
    /\ UNCHANGED <<at, users, tokens, blurred>>

Tick ==
    /\ clock < MaxTime /\ clock' = clock + 1
    /\ UNCHANGED <<at, users, settled, token, profile, issued, blurred>>

Registering ==
    \E r \in Registrations : CheckAddress(r) \/ UserPut(r) \/ PutFails(r) \/ Settle(r)

LoggingIn == \E l \in Logins : LoggedIn(l) \/ Rejected(l)

Next ==
    \/ \E r \in Requests : Arrive(r) \/ QueryFails(r)
    \/ Registering \/ LoggingIn
    \/ \E l \in Logins : ProfileRead(l) \/ ProfileRefused(l) \/ ProfileFails(l)
    \/ Tick

Spec == Init /\ [][Next]_vars

----------------------------------------------------------------------------
(* Properties.                                                             *)

(* Two accounts under one address come only from registrations that ran at  *)
(* once, or followed each other before the index had caught up; however the *)
(* address was typed, and whether or not the first was answered             *)
(* (auth_service.py:27-48).                                                 *)
OneAccountPerAddress ==
    \A u, v \in users : u # v /\ Normal(u) = Normal(v) => {u, v} \in blurred

(* A token names an account of the address and the password of the login    *)
(* (auth_service.py:50-67).                                                 *)
TokenIsOwn ==
    \A l \in Logins : at[l] = "200" =>
        LET u == token[l].user IN Normal(u) = Normal(l) /\ Password[u] = Password[l]

(* A login is refused with the right password only while its account is     *)
(* not seen everywhere, or if a second one has the same address             *)
(* (auth_service.py:50-60).                                                 *)
RefusalsAreExcused ==
    [][\A l \in Logins : at[l] = "query" /\ at'[l] = "401" =>
        \A u \in settled :
            Normal(u) = Normal(l) /\ Password[u] = Password[l]
            => Under(Normal(u), users) # {u}]_vars

(* A token is accepted for at most the expires_in of its answer, and        *)
(* refused at most one second early if its user is seen                     *)
(* (auth_service.py:90-109).                                                *)
TokenLifetime ==
    [][\A l \in Logins : profile'[l] # profile[l] =>
        LET age == clock - issued[l]
        IN  /\ profile'[l] = "200" => age <= 2 * TTL
            /\ profile'[l] = "401" /\ token[l].user \in settled => age > 2 * (TTL - 1)]_vars
=============================================================================
