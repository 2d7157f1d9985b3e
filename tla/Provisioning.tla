---------------------------- MODULE Provisioning ----------------------------
(***************************************************************************)
(* AwsResourceManager (services/aws_resources.py) and the lifespan of the  *)
(* application that drives it (main.py).  In provision mode one thread at  *)
(* a time walks through the resources and creates what it does not find:   *)
(* once before the server serves, then after every sleep of the reconcile  *)
(* loop.  In validate mode the walk only looks, and the server starts if   *)
(* it found everything.                                                    *)
(*                                                                         *)
(* One action is one boto3 call with its (up to three) attempts: it takes  *)
(* effect or not, and then answers or raises.  Between two calls anything  *)
(* may disappear, AWS may begin or cease to answer, and the process may be *)
(* killed.                                                                 *)
(***************************************************************************)
EXTENDS Naturals, Sequences, Functions

CONSTANT Tables  \* the tables of _table_definitions, in its order

ASSUME TablesAssumption ==
    /\ Tables \in Seq({"users", "orders", "files"})
    /\ "users" \in Range(Tables) /\ IsInjective(Tables)

\* The calls of ensure_resources and validate_resources, in their order.
Steps == <<"bucket">> \o Tables \o <<"topic", "queue", "function">>

\* "index" is the email-index of the table "users".
Ensured == Range(Steps)
Resources == Ensured \cup {"index"}

VARIABLES
    mode,     \* aws_provision_resources: "provision" or "validate"
    roleSet,  \* whether LAMBDA_ROLE_ARN has a value
    exists,   \* the resources AWS has
    up,       \* whether AWS answers calls, or they fail for some reason of its own
    server,   \* "down", "waiting" (for LocalStack), "starting", "serving" or "stopping"
    loop,     \* reconcile_task: "none", "sleeping", "passing" or "cancelled"
    step,     \* the step the walk is at, 0 when there is none
    stage,    \* "check" or "create": the call of the step made next
    missing,  \* whether validate_resources has noted anything
    last,     \* how this process' last walk ended: "none" (not yet), "done" or "raised"
    absent    \* ghost: the resources not there at any time since the walk began

settings == <<mode, roleSet>>
walk == <<step, stage, missing, last>>
provisioning == <<settings, exists, up, server, loop, walk, absent>>

ProvisioningTypeOK ==
    /\ mode \in {"provision", "validate"} /\ roleSet \in BOOLEAN
    /\ exists \subseteq Resources /\ absent \subseteq Resources
    /\ up \in BOOLEAN /\ missing \in BOOLEAN
    /\ server \in {"down", "waiting", "starting", "serving", "stopping"}
    /\ loop \in {"none", "sleeping", "passing", "cancelled"}
    /\ step \in 0 .. Len(Steps) /\ stage \in {"check", "create"}
    /\ last \in {"none", "done", "raised"}

ProvisioningInit ==
    /\ mode \in {"provision", "validate"} /\ roleSet \in BOOLEAN
    /\ exists \in {{}, Resources} /\ up \in BOOLEAN
    /\ server = "down" /\ loop = "none"
    /\ step = 0 /\ stage = "check" /\ missing = FALSE /\ last = "none"
    /\ absent = {}

----------------------------------------------------------------------------
(* What a walk is made of.                                                 *)

\* SNS and SQS creations are idempotent, so ensure_resources does not look first.
FirstCall(i) ==
    IF mode = "provision" /\ Steps[i] \in {"topic", "queue"} THEN "create" ELSE "check"

\* create_table makes the table's index with it.
Made(r) == IF r = "users" THEN {r, "index"} ELSE {r}

\* Losing the table loses its index.
Lost(r) == IF r = "users" THEN {r, "index"} ELSE {r}

BeginWalk ==
    /\ step' = 1 /\ stage' = FirstCall(1) /\ missing' = FALSE
    /\ last' = "none" /\ absent' = Resources \ exists

\* Mutants of EndWalk: an exception ends the loop, or the start.
EndWalkEndsLoop(how) ==
    /\ step' = 0 /\ stage' = "check" /\ last' = how /\ absent' = {}
    /\ server' = IF server = "starting" THEN "serving" ELSE server
    /\ loop' = IF how = "raised" THEN "none" ELSE IF loop = "cancelled" THEN "cancelled" ELSE "sleeping"
    /\ UNCHANGED missing

EndWalkEndsStart(how) ==
    /\ step' = 0 /\ stage' = "check" /\ last' = how /\ absent' = {}
    /\ server' = IF server # "starting" THEN server
                 ELSE IF how = "raised" THEN "down" ELSE "serving"
    /\ loop' = IF server' = "down" THEN "none"
               ELSE IF loop = "cancelled" THEN "cancelled" ELSE "sleeping"
    /\ UNCHANGED missing

\* The walk is over: the server starts to serve, or the loop goes back to sleep.
\* A failed walk is logged and the server goes on, in both places.
EndWalk(how) ==
    /\ step' = 0 /\ stage' = "check" /\ last' = how /\ absent' = {}
    /\ server' = IF server = "starting" THEN "serving" ELSE server
    /\ loop' = IF loop = "cancelled" THEN "cancelled" ELSE "sleeping"
    /\ UNCHANGED missing

\* The step is done: go on to the next one.
Advance ==
    \/ /\ step < Len(Steps)
       /\ step' = step + 1 /\ stage' = FirstCall(step + 1) /\ absent' = absent \ exists'
       /\ UNCHANGED <<server, loop, missing, last>>
    \/ step = Len(Steps) /\ EndWalk("done")

Ensuring(i) == mode = "provision" /\ step = i

----------------------------------------------------------------------------
(* ensure_resources.                                                       *)

Found(i) ==
    /\ Ensuring(i) /\ stage = "check" /\ up /\ Steps[i] \in exists
    /\ UNCHANGED <<settings, exists, up>>
    /\ Advance

\* The call says that the resource is not there; head_bucket may say anything
\* but yes, since every ClientError is taken for a missing bucket.
NotFound(i) ==
    /\ Ensuring(i) /\ stage = "check" /\ up
    /\ Steps[i] \notin exists \/ Steps[i] = "bucket"
    /\ Steps[i] = "function" => roleSet
    /\ stage' = "create"
    /\ UNCHANGED <<settings, exists, up, server, loop, step, missing, last, absent>>

\* No answer, an error that is not "not found", or no role for the function.
CheckRaises(i) ==
    /\ Ensuring(i) /\ stage = "check"
    /\ ~up \/ (Steps[i] = "function" /\ ~roleSet /\ "function" \notin exists)
    /\ EndWalk("raised")
    /\ UNCHANGED <<settings, exists, up>>

\* A table and a function are refused when they exist.
Created(i) ==
    /\ Ensuring(i) /\ stage = "create" /\ up
    /\ Steps[i] \in exists => Steps[i] \in {"bucket", "topic", "queue"}
    /\ exists' = exists \cup Made(Steps[i])
    /\ Advance
    /\ UNCHANGED <<settings, up>>

\* The creation fails, or is carried out and the call raises all the same: the
\* answer was lost, and a repeated attempt is told that the resource exists.
CreateRaises(i) ==
    /\ Ensuring(i) /\ stage = "create"
    /\ \/ ~up /\ UNCHANGED exists
       \/ up /\ exists' = exists \cup Made(Steps[i])
    /\ up' = FALSE
    /\ EndWalk("raised")
    /\ UNCHANGED settings

----------------------------------------------------------------------------
(* validate_resources: every step is taken, whatever the steps before noted. *)

\* Mutant of Required: the index is not verified.
RequiredTableOnly(r) == {r}

Required(r) == Made(r)

FailsFast ==
    /\ server' = "down" /\ step' = 0 /\ missing' = FALSE /\ last' = "raised" /\ absent' = {}
    /\ UNCHANGED <<loop, stage>>

Starts ==
    /\ server' = "serving" /\ step' = 0 /\ last' = "done" /\ absent' = {}
    /\ UNCHANGED <<loop, stage, missing>>

Noting(noted) ==
    \/ /\ step < Len(Steps)
       /\ step' = step + 1 /\ missing' = (missing \/ noted)
       /\ UNCHANGED <<server, loop, stage, last, absent>>
    \/ step = Len(Steps) /\ IF missing \/ noted THEN FailsFast ELSE Starts

Seen ==
    /\ mode = "validate" /\ step > 0 /\ up
    /\ Required(Steps[step]) \subseteq exists
    /\ Noting(FALSE)
    /\ UNCHANGED <<settings, exists, up>>

\* Missing or unreachable: any exception is noted.
Unseen ==
    /\ mode = "validate" /\ step > 0
    /\ ~up \/ ~(Required(Steps[step]) \subseteq exists)
    /\ Noting(TRUE)
    /\ UNCHANGED <<settings, exists, up>>

----------------------------------------------------------------------------
(* The lifespan.                                                           *)

\* LocalStack is ready, or localstack_wait_timeout_seconds are over.
WaitEnds ==
    /\ server = "waiting"
    /\ server' = "starting" /\ BeginWalk
    /\ UNCHANGED <<settings, exists, up, loop>>

\* With an endpoint of its own (LocalStack) the start waits first.
Boot ==
    /\ server = "down" /\ loop' = "none"
    /\ \/ server' = "starting" /\ BeginWalk
       \/ server' = "waiting" /\ last' = "none" /\ UNCHANGED <<step, stage, missing, absent>>
    /\ UNCHANGED <<settings, exists, up>>

\* The sleep of the reconcile loop is over.
Reconcile ==
    /\ loop = "sleeping" /\ server = "serving"
    /\ loop' = "passing"
    /\ BeginWalk
    /\ UNCHANGED <<settings, exists, up, server>>

\* The task is cancelled; the thread that runs a walk is not.
Stop ==
    /\ server = "serving"
    /\ server' = "stopping"
    /\ loop' = IF loop = "none" THEN "none" ELSE "cancelled"
    /\ UNCHANGED <<settings, exists, up, walk, absent>>

\* The process ends when its threads have.
Exit ==
    /\ server = "stopping" /\ step = 0
    /\ server' = "down" /\ loop' = "none"
    /\ UNCHANGED <<settings, exists, up, walk, absent>>

Crash ==
    /\ server # "down"
    /\ server' = "down" /\ loop' = "none"
    /\ step' = 0 /\ stage' = "check" /\ missing' = FALSE /\ last' = "none"
    /\ absent' = {}
    /\ UNCHANGED <<settings, exists, up>>

----------------------------------------------------------------------------
(* AWS, and the requests that create a topic or a queue on their way.      *)

Disappear(r) ==
    /\ r \in exists
    /\ exists' = exists \ Lost(r)
    /\ UNCHANGED <<settings, up, server, loop, walk, absent>>

\* In validate mode the resources are somebody else's to create.
Deployed(r) ==
    /\ mode = "validate"
    /\ r = "index" => "users" \in exists
    /\ exists' = exists \cup {r}
    /\ absent' = absent \ {r}
    /\ UNCHANGED <<settings, up, server, loop, walk>>

\* LocalStack restarts with nothing; AWS throttles, refuses or is out of reach.
Outage ==
    /\ up /\ up' = FALSE /\ exists' \in {exists, {}}
    /\ UNCHANGED <<settings, server, loop, walk, absent>>

Recover ==
    /\ ~up /\ up' = TRUE
    /\ UNCHANGED <<settings, exists, server, loop, walk, absent>>

\* topic_arn() and queue_url() fall back to a creation.
CreatedByRequest(r) ==
    /\ server \in {"serving", "stopping"} /\ up
    /\ exists' = exists \cup {r}
    /\ absent' = absent \ {r}
    /\ UNCHANGED <<settings, up, server, loop, walk>>

----------------------------------------------------------------------------
EnsureStep(i) ==
    Found(i) \/ NotFound(i) \/ CheckRaises(i) \/ Created(i) \/ CreateRaises(i)

Process == Boot \/ WaitEnds \/ Reconcile \/ Stop \/ Exit \/ Crash

Environment ==
    \/ Outage \/ Recover
    \/ \E r \in Resources : Disappear(r) \/ Deployed(r)
    \/ \E r \in {"topic", "queue"} : CreatedByRequest(r)

ProvisioningNext ==
    \/ \E i \in DOMAIN Steps : EnsureStep(i)
    \/ Seen \/ Unseen
    \/ Process \/ Environment

ProvisioningSpec == ProvisioningInit /\ [][ProvisioningNext]_provisioning

(* The wait's deadline passes, the walk's thread and the loop's timer run  *)
(* on, and from some time on AWS answers.  Nothing forces the process to   *)
(* stop, or anything to disappear or to stay.                              *)
FairProvisioning ==
    /\ ProvisioningSpec
    /\ WF_provisioning((\E i \in DOMAIN Steps : EnsureStep(i)) \/ Seen \/ Unseen)
    /\ WF_provisioning(WaitEnds)
    /\ WF_provisioning(Reconcile)
    /\ <>[]up

----------------------------------------------------------------------------
(* Properties.                                                             *)

(* A walk that ends well has, whatever disappeared meanwhile, seen or made  *)
(* every resource it names at some time during that very walk: the ensured  *)
(* ones, and for a validated server the users table's index as well         *)
(* (aws_resources.py:142-150, 267-338, main.py:138-143).                    *)
SuccessMeansEach ==
    [][/\ mode = "provision" /\ last = "none" /\ last' = "done"
            => absent \cap Ensured \subseteq exists'
       /\ mode = "validate" /\ server = "starting" /\ server' = "serving"
            => absent = {}]_provisioning

(* While the server goes on serving in provision mode, a resource that is   *)
(* gone comes back, however often walks fail or other resources disappear;  *)
(* the function only if there is a role (main.py:88-96).                    *)
Recreated ==
    \A r \in Ensured :
        /\ mode = "provision" /\ server = "serving" /\ r \notin exists
        /\ r = "function" => roleSet
        ~> r \in exists \/ server # "serving"

(* A start in provision mode ends in a server that serves, whatever AWS     *)
(* answers, unless the process is killed (main.py:129-136).                 *)
StartServes ==
    mode = "provision" /\ server \in {"waiting", "starting"}
    ~> server = "serving" \/ (server = "down" /\ last = "none")
=============================================================================
