------------------------------- MODULE Gateway -------------------------------
(***************************************************************************)
(* The way of a request with a bearer token through the application        *)
(* (main.py, middleware.py, deps.py, utils/aws.py, routes/simulate.py),    *)
(* composed with the accounts and tokens of Accounts.                      *)
(*                                                                         *)
(* The gateway, the outermost layer, reads the profile and may answer 403; *)
(* inside it the request logger wraps the routes and the handlers of the   *)
(* exceptions main.py names; require_auth reads the profile again.  An     *)
(* exception nobody names passes the logger and is answered outside it.    *)
(* An operator may revoke and re-activate a user, or change its networks.  *)
(***************************************************************************)
EXTENDS Accounts

CONSTANT AttemptLimits   \* the values simulate_retry_attempts may have

ASSUME LimitsAssumption == AttemptLimits \subseteq Nat

VARIABLES
    limit,    \* simulate_retry_attempts
    policy,   \* what the item of a user says of its client
    older,    \* what a read of the item may still say instead
    req       \* the request each login's token is sent with

gateway == <<limit, policy, older, req>>
all == <<vars, gateway>>

Policies == {"active", "revoked", "outside"}
AwsErrors == {"credentials", "endpoint", "missing", "denied", "throttled", "invalid", "other", "botocore"}
Statuses == {0, 200, 400, 401, 403, 404, 429, 500, 502, 503}

NotSent == [stage |-> "idle", seen |-> "none", barred |-> FALSE,
            tried |-> 0, retries |-> 0, answer |-> 0, logged |-> 0]

GatewayTypeOK ==
    /\ limit \in AttemptLimits
    /\ policy \in [Registrations -> Policies] /\ older \in [Registrations -> SUBSET Policies]
    /\ req \in [Logins ->
        [stage : {"idle", "gateway", "auth", "route", "retry", "answered"},
         seen : Policies \cup {"none"}, barred : BOOLEAN,
         tried : 0 .. limit, retries : 0 .. limit,
         answer : Statuses, logged : Statuses]]

GatewayInit ==
    /\ Init
    /\ limit \in AttemptLimits
    /\ policy = [u \in Registrations |-> "active"] /\ older = [u \in Registrations |-> {}]
    /\ req = [l \in Logins |-> NotSent]

Now(l, stage) == req' = [req EXCEPT ![l].stage = stage]
Fixed == UNCHANGED <<limit, policy, older>>
Keep == UNCHANGED vars /\ Fixed

----------------------------------------------------------------------------
(* Answers, and what RequestLoggingMiddleware makes of them.               *)

\* aws_error_response, and the status of the other exceptions.
Status(e) ==
    CASE e \in {"missing", "HTTP 404"} -> 404
      [] e = "denied" -> 403
      [] e = "throttled" -> 429
      [] e = "invalid" -> 400
      [] e = "endpoint" -> 503
      [] e \in {"other", "botocore", "SimulatedAWSError"} -> 502
      [] e = "HTTP 401" -> 401
      [] OTHER -> 500

\* The answer starts inside the logger, which notes its status.
Respond(l, status) ==
    req' = [req EXCEPT ![l].stage = "answered", ![l].answer = status, ![l].logged = status]

\* Mutant of Handled: SimulatedAWSError is left to the handler for all others.
HandledButSimulated(e) == e \notin {"unnamed", "SimulatedAWSError"}

\* The exceptions whose handler runs inside the logger.
Handled(e) == e # "unnamed"

\* Without a handler the logger sees no answer, and logs what it began with.
Raise(l, e) ==
    IF Handled(e) THEN Respond(l, Status(e))
    ELSE req' = [req EXCEPT ![l].stage = "answered", ![l].answer = Status(e), ![l].logged = 500]

----------------------------------------------------------------------------
(* The layers.                                                             *)

\* What a read of the item of u may say.
Told(u) == {policy[u]} \cup older[u]

\* Mutant of Forbids: only the address is looked at.
ForbidsByAddress(p) == p = "outside"

Forbids(p) == p \in {"revoked", "outside"}

Send(l) ==
    /\ at[l] = "200" /\ req[l].stage = "idle"
    /\ req' = [req EXCEPT ![l].stage = "gateway",
                          ![l].barred = "active" \notin Told(token[l].user)]
    /\ Keep

\* The policies get_profile may read for the gateway; "none" when it raises.
Readable(l) == {"none"} \cup (IF Expired(l) THEN {} ELSE Told(token[l].user))

\* dispatch: without a policy the request goes on.
Enforce(l) ==
    /\ req[l].stage = "gateway"
    /\ \E seen \in Readable(l) :
        req' = [req EXCEPT ![l].seen = seen,
                           ![l].stage = IF Forbids(seen) THEN "answered" ELSE "auth",
                           ![l].answer = IF Forbids(seen) THEN 403 ELSE 0]
    /\ Keep

\* require_auth: the profile once more.
Authenticate(l) ==
    /\ req[l].stage = "auth"
    /\ \/ ProfileRead(l) /\ \E there \in {"route", "retry"} : Now(l, there)
       \/ ProfileRefused(l) /\ Raise(l, "HTTP 401")
       \/ ProfileFails(l) /\ \E e \in AwsErrors : Raise(l, e)
    /\ Fixed

\* A business route.
Business(l) ==
    /\ req[l].stage = "route"
    /\ Respond(l, 200) \/ \E e \in AwsErrors \cup {"HTTP 404", "unnamed"} : Raise(l, e)
    /\ Keep

\* /simulate/error, /simulate/s3-error and /simulate/timeout.
Simulate(l) ==
    /\ req[l].stage = "route"
    /\ Respond(l, 200) \/ \E e \in {"SimulatedFailure", "SimulatedAWSError", "botocore"} : Raise(l, e)
    /\ Keep

\* Mutant of Last: one attempt too many.
LastOffByOne(n) == n > limit

\* attempt >= max_attempts
Last(n) == n >= limit

\* range(1, max_attempts + 1)
Attempts == 1 .. limit

\* One attempt of retry_operation on /simulate/retry: two simulated errors,
\* then the real call.  on_retry is not called after the last one.
Attempt(l) ==
    LET n == req[l].tried + 1
        Succeeds ==
            req' = [req EXCEPT ![l].stage = "answered", ![l].tried = n,
                               ![l].answer = 200, ![l].logged = 200]
        Fails(e) ==
            LET counted == [req EXCEPT ![l].tried = n, ![l].retries = IF Last(n) THEN @ ELSE @ + 1]
            IN  req' = IF ~Last(n) /\ n + 1 \in Attempts THEN counted
                       ELSE [counted EXCEPT ![l].stage = "answered",
                                            ![l].answer = Status(e), ![l].logged = Status(e)]
    IN  /\ req[l].stage = "retry" /\ n \in Attempts
        /\ IF n <= 2 THEN Fails("throttled") ELSE Succeeds \/ \E e \in AwsErrors : Fails(e)
        /\ Keep

\* Without an attempt there is no exception to raise: "raise None".
NoAttempt(l) ==
    /\ req[l].stage = "retry" /\ Attempts = {}
    /\ Raise(l, "unnamed")
    /\ Keep

\* The client has read its answer.
Received(l) ==
    /\ req[l].stage = "answered"
    /\ req' = [req EXCEPT ![l] = NotSent]
    /\ Keep

----------------------------------------------------------------------------
(* The item of a user is changed, and the change is seen everywhere.  In   *)
(* the model only the user of a token is changed.                          *)

ChangePolicy ==
    /\ \E l \in Logins : at[l] = "200" /\ \E p \in Policies \ {policy[token[l].user]} :
        LET u == token[l].user
        IN  /\ policy' = [policy EXCEPT ![u] = p]
            /\ older' = [older EXCEPT ![u] = Told(u) \ {p}]
            /\ req' = [k \in Logins |->
                           [req[k] EXCEPT !.barred = @ /\ (p # "active" \/ token[k].user # u)]]
    /\ UNCHANGED <<vars, limit>>

ChangeSeen ==
    /\ \E u \in Registrations :
        older[u] # {} /\ \E left \in SUBSET older[u] \ {older[u]} : older' = [older EXCEPT ![u] = left]
    /\ UNCHANGED <<vars, limit, policy, req>>

GatewayNext ==
    \/ /\ (\E r \in Requests : Arrive(r) \/ QueryFails(r)) \/ Registering \/ LoggingIn \/ Tick
       /\ UNCHANGED gateway
    \/ \E l \in Logins :
        \/ Send(l) \/ Enforce(l) \/ Authenticate(l) \/ Business(l) \/ Simulate(l)
        \/ Attempt(l) \/ NoAttempt(l) \/ Received(l)
    \/ ChangePolicy \/ ChangeSeen

GatewaySpec == GatewayInit /\ [][GatewayNext]_all

----------------------------------------------------------------------------
(* Properties.                                                             *)

(* A request sent when the item of its user forbade it for every reader,    *)
(* and not lifted since, is never served, unless the gateway's own read of  *)
(* the item failed (middleware.py:31-72).                                   *)
ForbiddenIsNotServed ==
    \A l \in Logins : req[l].stage \in {"route", "retry"} /\ req[l].barred => req[l].seen = "none"

(* The status in the log and on the span is the one the client got, also    *)
(* for an exception, whoever answers it; a request the gateway blocks is    *)
(* not in the request log (main.py:44-84, 180-198, 254-269).                *)
LoggedIsAnswered ==
    \A l \in Logins : req[l].stage = "answered" =>
        req[l].logged = IF Forbids(req[l].seen) THEN 0 ELSE req[l].answer

(* The retry demo never calls more often than the setting says, counts each *)
(* retry and no more, answers 200 only from the third attempt on, and with  *)
(* fewer allowed passes on the last error (aws.py:117-139,                  *)
(* s3_service.py:41-63).                                                    *)
RetriesAreCounted ==
    \A l \in Logins : req[l].stage = "answered" /\ req[l].tried > 0 =>
        /\ req[l].retries = req[l].tried - 1
        /\ req[l].answer = 200 => req[l].tried > 2
        /\ req[l].tried <= 2 => req[l].tried = limit /\ req[l].answer = 429
        /\ req[l].answer # 200 => req[l].tried = limit
=============================================================================
