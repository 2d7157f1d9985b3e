# TLA+ models of CentralWatch

CentralWatch is a FastAPI demonstration application (`demo-app/`) on AWS
services, a security plug-in for it (`centralwatch-security/`), a static
dashboard (`frontend/dist/`) and a monitoring stack around them. This directory
models the parts that keep state or order their effects, checks them with TLC
and proves the most important results with TLAPS. `PROJECT.json` lists the
components, runs, mutants, source lines of every definition, findings, hazards
and theorems.

## Inventory

| Component | State it keeps | Operations | What is hard |
|---|---|---|---|
| AWS security agent (`services/security_agent.py`) | scan history (20), latest scan, one `RLock`; the AWS controls | scan, latest, remediate | one lock held across every AWS call, re-entered by the final scan; fixes that rest on an old scan; reads and fixes that fail |
| File routes (`routes/files.py`, S3 and DynamoDB services) | objects in S3, records in DynamoDB | upload, list, get, delete | two stores without a transaction, retries after lost answers, lagging replicas, crashes |
| ASTF scan (`routers.py`, `security_scan.sh`) | jar, temporary jar, report on disk | one POST route that runs a script | no mutual exclusion, exit code 1 with two meanings, programs that outlive the timeout |
| Provisioning and lifespan (`aws_resources.py`, `main.py`) | the AWS resources, the reconcile task | ensure, validate, start, stop | partial failure, a loop beside requests, cancellation |
| Accounts (`auth_service.py`, `deps.py`) | users table, its email index, tokens | register, login, profile | uniqueness through an eventually consistent index |
| Gateway middleware, request log and error handlers (`middleware.py`, `main.py`) | none of their own; the policy is in the users table | policy check before each request, log entry, status of each exception | fails open when the profile cannot be read; the item is read twice per request and may be of before a revocation; which layer answers an exception decides what is logged |
| Message queue (`sqs_service.py`) | SQS messages, cached queue URL | send, receive and delete | at-least-once delivery, loss after delete |
| Image workflow (`lambda_service.py`, `sns_service.py`, handler) | objects, notifications, cached topic ARN | process | a repeated invoke |
| Orders (`routes/orders.py`) | orders table | create, get, list | nothing beyond single calls |
| Retries and simulated failures (`utils/aws.py`, `routes/simulate.py`) | attempt counter, retry metric | retry_operation, `/simulate/*` | attempt limits from 0 on, retries counted that never come |
| Proxy store (`proxy_store.py`) | two PostgreSQL tables, a pool, an encryption key | start, upsert, rotate token, read, close | several processes that start at once, start beside writes, use different keys; kills inside the transaction; rows whose sealed keys are exchanged |
| Dashboard (`app.js`) | session, pending calls, report frame, object URL, button | login, sign-out, restore, scan, report | answers that come after the session they were asked for; two handlers that use one button |
| Telemetry, settings, chat, deployment | - | - | not modelled, see below |

Interaction: the routes run synchronous handlers on worker threads (FastAPI's
pool, or `asyncio.to_thread`); a request therefore interleaves with every other
request at each boto3 call. The agent serialises itself with its lock, the file
routes and the ASTF route do not. All services share boto3 clients whose
configuration repeats a failed call up to three times, four attempts in all
(`max_attempts` of a botocore `Config` counts the retries; `utils/aws.py:22`).

A request with a token passes the gateway, the request logger and
`require_auth` before its route; the gateway and `require_auth` each read the
profile of `AuthService`. The dashboard calls the routes over HTTP and keeps the
token.

What makes each component correct is stated by the properties of its module,
each with a comment; the Runs table lists them.

## Modules

| Module | Models | Proofs |
|---|---|---|
| `SerialAgent` | abstract: an agent without threads, which does one job after the other | |
| `SecurityAgent` | `AwsSecurityAgent` and its routes; refines `SerialAgent` | `SecurityAgentProofs` |
| `FileLifecycle` | abstract: what the file routes promise about a file | |
| `FileStore` | upload and delete call by call; refines `FileLifecycle` | `FileStoreProofs` |
| `AstfScan` | the scan route and its script, line by line | `AstfScanProofs` |
| `Provisioning` | the wait for AWS, the ensure and validate walks, the lifespan and the reconcile loop | `ProvisioningProofs` |
| `ImageWorkflow` | image processing, the Lambda handler, both notification routes | `ProvisioningProofs` |
| `AtLeastOnceQueue` | abstract: what the queue routes promise about messages | |
| `MessageQueue` | sending, receiving and deleting over SQS; refines `AtLeastOnceQueue` | `MessageQueueProofs` |
| `Accounts` | registration, login and the profile read over the email index | `GatewayProofs` |
| `Gateway` | composition: a request's way through the gateway, the logger, `require_auth`, a route and the error handlers, over `Accounts` | `GatewayProofs` |
| `ServiceRegistry` | abstract: the table of services and roles that the store promises | |
| `ProxyStore` | start, writes, reads and close of several processes on one database; refines `ServiceRegistry` | `ProxyStoreProofs` |
| `Dashboard` | the session of `app.js`, its pending calls, the report frame | `DashboardProofs` |

`MC...` modules give the constants values for TLC. `Gateway` extends `Accounts`:
its steps are steps of the accounts or leave them alone. The other modules are
independent: the services share no state in the code but the AWS accounts behind
them, and a resource that one module takes for given comes and goes as an
environment action of that module. In `Provisioning`, `ImageWorkflow`,
`MessageQueue` and `Accounts` one action is one boto3 call with all its attempts,
except where an attempt leaves something of its own behind (a Lambda invocation,
a copy of a message): those are kept apart.

### SecurityAgent

A thread of the server is at `idle`, `waiting` (for the lock), `reading` (in
`scan`) or `fixing` (in the loop of `remediate`). One action is one AWS call or
one lock operation: between two actions other threads may take a step. The lock
is an owner and a depth, since it is re-entrant. `history` is the dictionary
`_scans` in insertion order. A control has the setting `insecure`, `baseline`
(what the fix writes) or `custom` (another one that passes); a verdict `error`
stands for `unavailable` too, since no decision tells them apart, and a reply
500 for any 5xx. `Escaping` are the checks that do not catch every exception:
`s3_public_access` and `s3_default_encryption` catch `ClientError` only. What
escapes the scan of a remediation is answered with 500, or with 403, 409 or 422
when it is of a kind the route has a handler for (`Escaped`).
`Drift` is somebody else changing a control; `Restart` loses the history.

Two ghosts tell what a scan can know. `changed[c]` is the number up to which the
scans that have read `c` read it before its last change from outside: a drift
sets it to the next scan to be stored, and the read of `c` by that scan sets it
back. `unseen` are the controls fixed by a remediation whose own scan failed. So
`CustomSettingsKept` allows a fix to overwrite a custom setting only where the
setting was made after the named scan had read the control (the fix does not
look again), and `LatestIsFresh` says that the latest scan is out of date only
for controls changed from outside after its read and, until the next scan, for
those of `unseen`: there `/latest` goes on with the scan of before the fixes.

`SerialAgent` has no threads, requests or lock. Its job is a scan, or the fixes
of findings that failed in one retained scan and then a scan, and until the job
is done, given up or lost nothing else is read, fixed or stored. The refinement
maps the thread that holds the lock to the job (`Job`); arrivals, refusals and
`latest` are no step of it.

The model covers the agent as its routes use it. `main.py` of this commit does
not mount the router of `routes/security_agent.py` (lines 271-277), so the
routes are reached only by an application that includes it.

### FileStore

A thread is at the boto3 call it makes next. Each call takes effect or not, and
answers or not (`ObjectPut` ..., `AnswerLost`, `CallFails`); without an answer
it is made again until the attempts are used up, and then the request ends with
an error. `lagging` are the records for which some replica shows the state
before the last change. Ghost variables remember what was answered: `uploaded`,
`erased`, and `condemned`, the files whose object a delete has removed. The
list and get routes read only.

The model takes a call to act, if at all, before botocore stops waiting for its
answer. A request that is delayed in the network beyond the 30 seconds of the
read timeout and then carried out is outside the model.

### AstfScan

Each element of `Scans` is one request. `step` is the line of the script, or
`exited` when the router goes on; `child` is the curl or java that the script
has started and that survives the kill of a timeout. A file has its content and
the curl that opened it last: a download is whole when the last one that
truncated the file is done with it, and a `mv` renames the file under a curl
that still writes it. Each of `mkdir`, `mv`, `rm` and `wc` may fail by itself
(`CommandFails`, where `Failing` names it), and `set -e` then exits with 1. ASTF
is external: it may write its report, leave a part of it (`AstfLeavesPart`, for
the exit codes of `PartialCodes`), leave none or an empty one, and exit with any
code. `wrote` are the scans whose ASTF wrote a whole report.

What holds of scans that never overlap is therefore less than README.md:314 says.
A `mkdir` or `rm` that fails leaves the report of the scan before, and an exit
with 1 from it, or from `wc`, is answered as "findings"; a java that dies with 1
and a part of its report is answered as a completed scan. `SerialSuccessIsOwn`
says that these are all: any other 200 shows the scan's own report, with the
code of its own ASTF. A failing `mv` or download is never taken for findings,
because while there is no jar there is no report.

### Provisioning

The start waits for LocalStack first and goes on when the time is up without it
(`waiting`, `WaitEnds`). `server` and `loop` are the lifespan and its reconcile
task, `step` and `stage` the walk that a thread of either makes:
`ensure_resources` in provision mode (`Found`, `NotFound`, `Created`, and what
raises in them), `validate_resources` in validate mode (`Seen`, `Unseen`, which
only note). An exception ends a walk;
`EndWalk` says what that means to the start, which goes on, and to the loop,
which sleeps again. A cancelled loop leaves its thread running (`Stop`, `Exit`).
`up` is AWS answering, `absent` a ghost that remembers what was missing all
through the walk. In provision mode the code does not look at the `email-index`
of a table that answers, so `Recreated` is about the other resources. The Lambda
warm-up is left out: it is one call that changes nothing here and whose outcome
is ignored.

### ImageWorkflow

`at` is the call a request makes next. `run` is the Lambda handler, once for
each image and attempt of the invoke, since an attempt whose answer is lost runs
on beside the next one. `NoAnswer` is followed by another attempt,
`FunctionError` and `InvokeRaises` are not. `arn` is the cached topic ARN, which
survives the topic (`TopicChanges`). What was published twice by botocore's own
repetition of `publish` is one element of `notes`.

### MessageQueue

A copy of a message is `<<m, k>>`: what attempt `k` of the send has put into
the queue. `Received` hands out a batch and may hide other copies, those of an
earlier attempt that got no answer. `Deleted` deletes any part of the batch,
since `delete_message_batch` answers with what it did not delete and the code
does not look: such an entry is answered and received again. `excused` and
`purged` remember what happened on the side of SQS (an entry refused, a
visibility timeout before the delete, a deleted queue). A deleted queue comes
back with the next round of the reconcile loop (`QueueAppears`).

`AtLeastOnceQueue` knows only the sets of messages that are held, accepted,
delivered and dropped: a message enters while its send is under way, and whatever
leaves has been delivered or dropped. It is held as long as one of its copies is
visible or hidden, accepted when its send was answered, delivered when some
receive was answered it, and dropped when it was handed to a receive that failed
or went with the queue. Looking up the URL, hiding and showing a message are no
steps of it; a delete is a `Deliver` or a `Drop`, whatever part of the batch it
removes, and a restart is a `Drop` of what the interrupted receives were handed.

### Accounts

A user is named by the registration that wrote it, an address by what was typed
and by what `strip` and `lower` make of it. A query returns what has `settled`
and any part of the rest. The clock counts half-seconds, because an expiry is
cut to whole seconds and compared with a time that is not. Passwords are
compared as values; derivation and signature are abstract, and a token is one
the service has issued. The profile read is one action, at the time of the
check; the routes that need a token make it first and may make it twice.
`blurred` remembers the pairs of registrations of which the later one could not
have seen the earlier: only inside such a pair do two accounts of one address
come about, which is where "duplicate email -> 409"
(CENTRALWATCH_END_TO_END.md:156) stops being true.

### Gateway

`req` is the request that a login's token is sent with, at the layer that acts
next. `Enforce` is the middleware: what it reads of the user's item is the
current policy, an earlier one that some replica still has (`older`), or nothing
when the read raises or the token has expired, and then the request goes on to
`require_auth`, which reads again (`Authenticate`). A policy stands for
`revoked` and for an address inside or outside the networks of the item;
`ChangePolicy` is the operator's edit, which no code of this repository makes,
any number of times and back to `active` too. `barred` is a request that every
reader saw forbidden when it was sent and that no operator has lifted since.
`Raise` is what the exception handlers and the logger make of an exception: one
that `main.py` names is answered inside `RequestLoggingMiddleware`, any other
outside, and the logger then notes the 500 it began with. A request the gateway
blocks is never logged, as the gateway is the outer layer (`logged` stays 0),
although "logs every request" is what main.py:33 says of the logger.
`/simulate/retry` is modelled attempt by attempt with the limit of the settings,
0 included: nothing is called then and `raise None` is a `TypeError`
(`NoAttempt`). The back-off between attempts only takes time.

### ProxyStore

`phase` is what a process has: no pool, a `start` under way, one that ended or
failed, a `close` under way. `start` is one transaction with the services and
roles it is given (`given`, any of `Defaults`: two processes may be given
different ones); `own` are the rows it has inserted and not committed, which
others do not see and wait for (`Locked`, `Held`).
Each other call is one statement on a connection (`Request`, the statement, then
`Acknowledge` or `CallFails`; an answer may be lost after the statement ran). A
row is the number of the write that set its fields, so that older and newer
writes are told apart; of a role only its presence is kept. `sealed` is the encrypted upstream key with the key of
the process that sealed it and the service name it is bound to; `Exchanged` is
somebody who swaps the sealed keys of two rows in the database. `key` may differ
between processes and starts. Nothing in this repository constructs the store:
its callers are free to make any call at any time. The pool's size is
abstracted: a call waits or runs.

`ServiceRegistry` is one table to which a start adds what it misses of its
defaults in one step, which is written one call at a time, and answered with
writes that are stored or replaced by later ones. Processes, transactions, pools
and encrypted keys are not in it: each commit of a start is its `Seed`, and a
rollback or an exchange of keys is no step.

### Dashboard

Each pending call is the token it was sent with and whether the session has
begun or ended since (`cut`). An action is one handler up to its next `await`.
Both calls of a registration (`register`, then `login`) are one pending form,
as nothing looks at the state in between. One tab is modelled, with a
`localStorage` that works. `denied` are the calls whose answer, on its way, is a
`401` (`Refuses`). Such an answer need not be final: the profile read may miss a
user once, and the scan route answers 401 to anything the read raises
(routers.py:141-152). It clears whichever session is current (`Unauthorized`), also
one whose token the server still accepts; any failure of the restoring profile
call does. `SessionsEndForAReason` says that nothing else ends one.

`live` counts object URLs not yet revoked. A report may come with an empty body
(the file while a scan writes it); it is not rendered (app.js:1046), the report of
before is forgotten and its URL stays: `blank`. Pages that only render what one
call returned are not part of it.

## Runs

| Run | Instance | Properties, and what they show |
|---|---|---|
| `agent` | 2 threads, 2 checks (one can escape), history of 2, 3 requests, 1 restart | `HistoryIsNewestScans`, `FixesAreApproved`, `LatestIsFresh`, `AgentChangesOnlyApproved`, `CustomSettingsKept`, `ImplementsSerial`: the history and the approval of every fix hold up beside other requests, a scan and a fix are wrong only about what they cannot have read, and threads are not seen in what is read, fixed and stored |
| `agent_live` | same, nothing changed from outside, shorter lists of findings | `EveryRequestAnswered`: every request that waits for the lock is answered, whatever escapes |
| `agent_report` | 2 requests | violation of `AttemptsAreReported`: see Findings |
| `files` | 3 threads, 2 files, 2 attempts | `DanglingOnlyByDelete`, `UploadsAreDurable`, `OrphansAreUnanswered`, `DeletedStaysDeleted`, `ImplementsLifecycle`: two stores without a transaction keep what was answered |
| `astf` | 2 scans, every command may fail, ASTF may leave a part | `CleanBillIsGenuine`, `SerialSuccessIsOwn`, `SerialJarIsWhole`, `EveryScanAnswered`: no made-up clean result however scans overlap; when they do not, a whole jar, and the scan's own result but for a failing `mkdir`, `rm` or `wc`; an answer even when curl and java hang |
| `astf_overlap` | 2 scans, no command fails, no partial report | violation of `SuccessIsGenuine`: see Findings |
| `provisioning` | one table (every kind of step), both modes | `SuccessMeansEach`, `Recreated`, `StartServes`: what an ended walk means; what disappears comes back; every start serves |
| `images` | 1 image, 1 notice, 4 attempts | `AnsweredIsNotified`, `OneIdUnlessUnanswered`, `EveryRequestAnswered`: an answer stands for a notification; two ids only after a lost answer |
| `queue` | 2 sends of 2 attempts, 2 receives of up to 2 | `NoSilentLoss`, `RepeatsAreExcused`, `ImplementsAtLeastOnce`: no answered message vanishes unnoticed or is answered twice without cause; every step is one of an at-least-once queue |
| `gateway` | 2 registrations, 1 login, 2 s, limits 0 to 3 | `OneAccountPerAddress`, `RefusalsAreExcused`, `TokenLifetime` of the accounts behind the gateway; `ForbiddenIsNotServed`, `LoggedIsAnswered`, `RetriesAreCounted` of the layers |
| `proxy_store` | 2 processes, 2 callers, 2 services, 2 lists of defaults, 2 keys, 2 writes | `DefaultsTogether`, `AcknowledgedWritesStay`, `KeyIsOfConfig`, `ReadsAreOfOneWrite`: starts and writes of several processes do not undo each other, and a read mixes no two writes or services |
| `dashboard` | 3 tokens of 2 users, 2 fetches of the report | `ShownForTheToken`, `ReportIsOfTheSession`, `NoUrlLeaks`, `ButtonComesBack`, `SessionsEndForAReason`: what late answers can and cannot do to a session |

The type invariants and `LockDiscipline` are theorems and are not repeated in the
runs. The refinement of `ServiceRegistry` is a theorem too
(`ImplementsServiceRegistry`).

Bounds. Two threads are enough for every interleaving on one lock: one inside,
one that arrives, evicts or waits. `MaxRequests` = 3 allows two scans and a
remediation that rests on the older one, or enough scans to evict one from a
history of two. Three threads on one file are an upload that repeats a call and
two deletes; a second attempt is the first that can follow a lost answer, the
code's four would repeat it, and the theorems cover any number. Two
scans are one that goes before or beside the other, with what a timeout of the
first leaves running; the theorems cover any number. A table more in a walk is
one more step of a kind that is there. An image and a notice share the cached
ARN; a second receive is the one that is handed the same copy, and a batch of
two can be empty, part of the queue, full, and deleted in part. The two
registrations share an address typed in two ways and the login has the password
of one of them; a token of one second expires and ends early within two. The
policy of a user changes any number of times while its token is in use; limits 0, 1, 2 and 3 are none, too
few, too few by one and enough for the two simulated errors of the retry demo.
Two processes with two keys and two lists of defaults, one of which has a service
that the other lacks, start beside each other and beside writes; with two writes
the second replaces or follows the first. Three tokens are a session to
restore, a login of another user on top and a return of the first. Deadlock
checking is off where requests, tokens or the clock are bounded, since the
system then stops. Where it is on it says little: a restart or a kill is always
possible.

Fairness. `agent_live` assumes weak fairness of each thread that can go on:
boto3 calls have connect and read timeouts (`utils/aws.py:44-51`) and a free
lock is taken. As the requests are bounded, no thread can be overtaken for ever
and no fairness of the lock is needed. `astf` assumes that the timer of
`subprocess.run` runs out and that the thread goes on when the script has
exited; nothing is assumed of curl, java or the script. `provisioning`
assumes that the wait ends (it has a deadline), that the thread of a walk and
the timer of the loop go on and that AWS answers from some time on (`<>[]up`);
without that nothing can be created. `images` assumes that a thread makes its
next step once its call has answered or timed out, and nothing of the handler,
the topic or Lambda. The other runs check safety only.

## Findings

* `agent_report`: "After the attempts complete, the agent performs a new
  read-only scan and returns the refreshed result" (AWS_SECURITY_AGENT.md:49).
  An exception in that scan replaces the answer, which is then 500, 403, 409 or
  422: fixes have been applied and the client learns of none.
* `astf_overlap`: "returns success only after ASTF has completed and written a
  non-empty HTML report" (README.md:315). When two first scans overlap, one
  fails at `test -s "$tmp_jar"` with exit code 1, which the router reads as
  "completed with findings"; the report it then finds is the other scan's. The
  run has neither failing commands nor partial reports, so that the overlap alone
  is to blame; see AstfScan for what they do without one.

Other places where the text and the code part, met while modelling and visible
in the models, but not in a run: a request the gateway blocks is not logged
(main.py:33); `/readyz` always answers 503, because nothing sets
`app.state.centralwatch_proxy_store` (main.py:312-314); `/` raises a
`NameError`, because `main.py` does not import `RedirectResponse`
(main.py:297); the routers of `routes/chat.py` and `routes/security_agent.py`
are not mounted.

## Proofs

`SecurityAgentProofs` proves the type invariant, the safety invariants, with
`LockDiscipline` and `ScansAreComplete`, and `AgentChangesOnlyApproved` for every
set of threads, checks, list of findings and every bound. The inductive invariant adds to them that a thread past the
gates has passed them (`GatesPassed`), what its cursor and verdicts are in a
scan (`Progress`), and that `latest` is the newest id (`LatestIsNewest`).
Without the last one the relation between positions and ids in the history
would not survive an append. A second invariant, `Truth`, relates findings to
AWS: a control not changed since a scan had read it is not a custom one if it
failed and not insecure if it passed, in retained scans and scans under way
(`FindingsHold`); nothing is fixed beside a scan (`ScansAreFresh`); only a
remediation under way, or one whose own scan failed, makes the latest scan stale
(`LatestHolds`). It gives `CustomSettingsKept` and `LatestIsFresh`, whichever
reads escape.
`ImplementsSerialAgent` rests on both: whoever scans or fixes holds the lock and is
the job (`HolderHasTheJob`), who takes the lock for a first time finds none
(`WaitingFindsNoJob`), a job starts with nothing read (`ScansAreFresh`), and a fix
takes its finding, which is named at no later position that counts, from the ones
to make (`FixFixes`).

`FileStoreProofs` proves all five invariants and the refinement for every set
of threads and files and every number of attempts. The inductive invariant says
that an upload is alone on its file until it is answered (`UploadersAreAlone`),
what each pending call relies on (`CallsAreOrdered`: for instance `put_item`
finds its object unless a delete took it) and how the two stores agree
(`HalvesAgree`). From it each effect of a call is a publication, a withdrawal
or no change of the abstract status.

`AstfScanProofs` proves the three safety properties of the run for any number
of scans. `ScanOk` says of each scan, whatever the others do, where its program
may run and that an exit code 0 is ASTF's; `SerialOk` says what the files hold
for a scan, and which failed command explains an exit code that is not its
ASTF's (`EndOk`), while no two have been under way at once. The second part is needed
because what a scan is answered depends on the shared report, which it may rely
on from the `rm` to the answer only if nobody else writes it: `Outside` shows
that the scans that are not under way are untouched by what the files become.
There is no report without a jar (`JarOk`), and so an exit with 1 on the way to
the jar is never answered with 200.

`ProvisioningProofs` proves for every list of tables the type invariant and
`SuccessMeansEach`. The property is about the end of a walk and says nothing of
the way there, so the invariant has to: `BehindTheWalk` says of each step behind
the cursor that what has been missing all the time would have been made, or
noted. It holds only while somebody walks who may (`WalkersAreKnown`,
`ValidatedOnce`: nobody reconciles in validate mode), and with it comes
`LoopSurvives`: while a server serves in provision mode its loop is asleep or in
a round, whatever the rounds raise, which is the safety half of `Recreated`.

The same module and `MessageQueueProofs` prove the safety properties of `images`
and `queue` for every set of requests and every number of attempts. Their
inductive invariants relate each thread's position to what its attempts have left
behind (`HandlersInOrder`, `AttemptsInOrder`) and, for the queue, each deleted
copy to the receive that answered it or to an excuse (`DeletedForAReason`,
`AnswersAreHanded`, `HandedOnce`). `ImplementsQueue` rests on the same invariant:
the steps that drop or deliver may name only messages that have entered, and
`CopiesHaveEntered` shows that whatever has a copy has, also when its last copy
is deleted, because a deleted copy has its reason.

`GatewayProofs` first proves of `Accounts`, for every set of registrations and
logins, every lifetime and any clock bound: types, `OneAccountPerAddress` (a
registration that has found the address free is either blurred with each account
of it or has seen it: `ClaimsAreBlurred`), that tokens are their users' own, and
the two action properties. `GatewayImplementsAccounts` then shows that every
behaviour of the composition is one of `Accounts`, and `GatewayKeepsAccounts`
carries those results over. For the layers it proves `ForbiddenIsNotServed`,
`LoggedIsAnswered` and `RetriesAreCounted` for every set of attempt limits, from
what a request knows in each layer (`Layered`) and how its counters relate
(`Counted`).

`ProxyStoreProofs` proves the four properties for every number of processes,
callers, services, roles, keys and writes, and every set of defaults. The
invariant says that a start has inserted only missing rows of its own script,
that each row it is done with is there or among them, and that no two starts have
inserted the same (`StartsInStep`), that only a process that is up has calls
(`Keyed`), and that no row is of a write to come while a call that has run names
writes not newer than the rows (`WritesInOrder`). `ReadConsistency` adds to
`KeyIsOfConfig` that a row which opens has a sealed key of its own, and to the
order of writes that its configuration is not older than the last answer.
`ImplementsServiceRegistry` shows that each commit adds to the tables what its
start was given and they did not have, and replaces nothing, whatever was
committed since it began (`CommitSeeds`).

`DashboardProofs` proves all five properties for every set of tokens, users and
fetches. Beside them the invariant says that a call not cut was sent with the
current token (`CallsOfSession`), that the button is busy exactly while a fetch
is under way unless two have overlapped (`ButtonOfFetch`), and how the frame and
its URL agree, also after an empty report.

Assumptions are the named ASSUMEs of the modules: a history limit of at least
one, at least one attempt per call, limits and lifetimes that are numbers,
default rows that are rows, names of the two tables that are told apart, and
special values outside the sets they are special for.

Only model-checked is what needs fairness (`EveryRequestAnswered` of the agent and
of the images, `EveryScanAnswered`, `Recreated`, `StartServes`): it is outside the
prover's reach, because it needs ENABLED. Every safety property of a passing run
is a theorem.

## Not modelled

Telemetry (no decision depends on it), settings and identifiers (constants),
the chat route (a stateless relay that `main.py` does not mount), orders (one
unconditional call each: nothing to interleave that `FileStore` does not show
already), the list and get routes of the files (they change nothing), the pages
of the dashboard that render what one call returned, its activity log, theme and
chat, the compose files, nginx configuration and operator scripts.

Two hazards have no property. A reconcile task that is cancelled while its
thread creates resources leaves that thread running (main.py:147): the model has
it, and nothing in the code or its documents promises anything about it. A users
table that lost its index is taken for complete (aws_resources.py:209): the model
has that too, and `Recreated` leaves the index out because the code does.

## What is left

A second tab of the dashboard, which shares `localStorage` and not
`state.token`.
