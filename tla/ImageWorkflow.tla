---------------------------- MODULE ImageWorkflow ---------------------------
(***************************************************************************)
(* The requests that end in a notification: POST /images/process           *)
(* (LambdaService.process_image: upload, resolve the topic, invoke) with   *)
(* the Lambda handler it invokes, and POST /notifications/email and /sms   *)
(* (SNSService.publish).  They share the topic and its cached ARN.         *)
(*                                                                         *)
(* One action is one call as its caller sees it.  Only Invoke keeps its    *)
(* attempts apart: each one that reaches Lambda is an invocation of its    *)
(* own, which runs on whether or not anybody waits for it.                 *)
(***************************************************************************)
EXTENDS Naturals

CONSTANTS
    Images,      \* requests to /images/process
    Notices,     \* requests to /notifications/email and /notifications/sms
    MaxAttempts  \* attempts of one call (4 with _DEFAULT_RETRIES: the first and 3 retries)

ASSUME RequestsAssumption == Images \cap Notices = {}
ASSUME AttemptsAssumption == MaxAttempts \in Nat \ {0}

Requests == Images \cup Notices
Attempts == 1 .. MaxAttempts

VARIABLES
    topic,      \* whether the topic exists
    arn,        \* whether _topic_arn is set
    at,         \* the call each request makes next, or its answer
    objects,    \* the images in S3
    attempt,    \* attempts of Invoke made for each image
    run,        \* the handler, for each image and attempt
    notes,      \* what was published at least once: the request and the attempt
    processed,  \* the attempt whose processing_id was answered, 0 before
    unanswered  \* ghost: the images with an attempt that got no answer

awsVars == <<topic, objects, run, notes>>
vars == <<topic, arn, at, objects, attempt, run, notes, processed, unanswered>>

Calls == {"upload", "list_topics", "create_topic", "invoke", "await", "publish"}
Running == {"started", "read", "published"}

TypeOK ==
    /\ topic \in BOOLEAN /\ arn \in BOOLEAN
    /\ at \in [Requests -> Calls \cup {"new", "ok", "error"}]
    /\ objects \subseteq Images
    /\ attempt \in [Images -> 0 .. MaxAttempts]
    /\ run \in [Images -> [Attempts -> Running \cup {"none", "returned", "failed"}]]
    /\ notes \subseteq Requests \X Attempts
    /\ processed \in [Images -> 0 .. MaxAttempts]
    /\ unanswered \subseteq Images

Init ==
    /\ topic \in BOOLEAN /\ arn = FALSE
    /\ at = [r \in Requests |-> "new"]
    /\ objects = {}
    /\ attempt = [i \in Images |-> 0]
    /\ run = [i \in Images |-> [k \in Attempts |-> "none"]]
    /\ notes = {}
    /\ processed = [i \in Images |-> 0]
    /\ unanswered = {}

Goto(r, there) == at' = [at EXCEPT ![r] = there]

Handler(i, k, state) == run' = [run EXCEPT ![i][k] = state]

\* What follows topic_arn(): a cached ARN needs no call.
AfterTopic(r) == IF r \in Images THEN "invoke" ELSE "publish"
NeedTopic(r) == IF arn THEN AfterTopic(r) ELSE "list_topics"

----------------------------------------------------------------------------
(* Arrival and upload.                                                     *)

StartImage(i) ==
    /\ i \in Images /\ at[i] = "new"
    /\ Goto(i, "upload")
    /\ UNCHANGED <<awsVars, arn, attempt, processed, unanswered>>

StartNotice(n) ==
    /\ n \in Notices /\ at[n] = "new"
    /\ Goto(n, NeedTopic(n))
    /\ UNCHANGED <<awsVars, arn, attempt, processed, unanswered>>

Uploaded(i) ==
    /\ at[i] = "upload"
    /\ objects' = objects \cup {i}
    /\ Goto(i, NeedTopic(i))
    /\ UNCHANGED <<topic, arn, attempt, run, notes, processed, unanswered>>

UploadFails(i) ==
    /\ at[i] = "upload"
    /\ objects' \in {objects, objects \cup {i}}
    /\ Goto(i, "error")
    /\ UNCHANGED <<topic, arn, attempt, run, notes, processed, unanswered>>

----------------------------------------------------------------------------
(* topic_arn(): two requests may resolve it at once.                       *)

TopicListed(r) ==
    /\ at[r] = "list_topics" /\ topic
    /\ arn' = TRUE
    /\ Goto(r, AfterTopic(r))
    /\ UNCHANGED <<awsVars, attempt, processed, unanswered>>

TopicNotListed(r) ==
    /\ at[r] = "list_topics" /\ ~topic
    /\ Goto(r, "create_topic")
    /\ UNCHANGED <<awsVars, arn, attempt, processed, unanswered>>

\* Any ClientError, throttling or a missing permission for instance.
ListRefused(r) ==
    /\ at[r] = "list_topics"
    /\ Goto(r, "create_topic")
    /\ UNCHANGED <<awsVars, arn, attempt, processed, unanswered>>

TopicCreated(r) ==
    /\ at[r] = "create_topic"
    /\ topic' = TRUE /\ arn' = TRUE
    /\ Goto(r, AfterTopic(r))
    /\ UNCHANGED <<objects, attempt, run, notes, processed, unanswered>>

\* No answer, or a refused creation; a creation may have been carried out.
TopicCallFails(r) ==
    /\ at[r] \in {"list_topics", "create_topic"}
    /\ topic' \in IF at[r] = "create_topic" THEN {topic, TRUE} ELSE {topic}
    /\ Goto(r, "error")
    /\ UNCHANGED <<arn, objects, attempt, run, notes, processed, unanswered>>

----------------------------------------------------------------------------
(* Invoke, attempt by attempt.                                             *)

\* Every attempt counts; it reaches Lambda or not.
Invoke(i) ==
    /\ at[i] = "invoke"
    /\ attempt' = [attempt EXCEPT ![i] = @ + 1]
    /\ Goto(i, "await")
    /\ \/ Handler(i, attempt[i] + 1, "started")
       \/ UNCHANGED run
    /\ UNCHANGED <<topic, arn, objects, notes, processed, unanswered>>

Returned(i) ==
    /\ at[i] = "await" /\ run[i][attempt[i]] = "returned"
    /\ processed' = [processed EXCEPT ![i] = attempt[i]]
    /\ Goto(i, "ok")
    /\ UNCHANGED <<awsVars, arn, attempt, unanswered>>

\* Mutants of FunctionError: the function's error is taken for a result, or is
\* retried like a lost answer.
FunctionErrorIgnored(i) ==
    /\ at[i] = "await" /\ run[i][attempt[i]] = "failed"
    /\ processed' = [processed EXCEPT ![i] = attempt[i]]
    /\ Goto(i, "ok")
    /\ UNCHANGED <<awsVars, arn, attempt, unanswered>>

FunctionErrorRetried(i) ==
    /\ at[i] = "await" /\ run[i][attempt[i]] = "failed"
    /\ Goto(i, IF attempt[i] < MaxAttempts THEN "invoke" ELSE "error")
    /\ UNCHANGED <<awsVars, arn, attempt, processed, unanswered>>

\* The handler raised or ran out of its 30 seconds: RuntimeError, no new attempt.
FunctionError(i) ==
    /\ at[i] = "await" /\ run[i][attempt[i]] = "failed"
    /\ Goto(i, "error")
    /\ UNCHANGED <<awsVars, arn, attempt, processed, unanswered>>

\* The connection is lost, or Lambda refuses the attempt for now.
NoAnswer(i) ==
    /\ at[i] = "await"
    /\ Goto(i, IF attempt[i] < MaxAttempts THEN "invoke" ELSE "error")
    /\ unanswered' = unanswered \cup {i}
    /\ UNCHANGED <<awsVars, arn, attempt, processed>>

\* Not repeated: Lambda refuses the call, or the payload of the answer cannot
\* be read.
InvokeRaises(i) ==
    /\ at[i] = "await" /\ run[i][attempt[i]] \in {"none", "returned"}
    /\ Goto(i, "error")
    /\ UNCHANGED <<awsVars, arn, attempt, processed, unanswered>>

----------------------------------------------------------------------------
(* lambda_handler.                                                         *)

ImageRead(i, k) ==
    /\ run[i][k] = "started" /\ i \in objects
    /\ Handler(i, k, "read")
    /\ UNCHANGED <<topic, arn, at, objects, attempt, notes, processed, unanswered>>

ResultPublished(i, k) ==
    /\ run[i][k] = "read" /\ topic
    /\ notes' = notes \cup {<<i, k>>}
    /\ Handler(i, k, "published")
    /\ UNCHANGED <<topic, arn, at, objects, attempt, processed, unanswered>>

HandlerReturns(i, k) ==
    /\ run[i][k] = "published"
    /\ Handler(i, k, "returned")
    /\ UNCHANGED <<topic, arn, at, objects, attempt, notes, processed, unanswered>>

\* It raises, or Lambda ends it: at any point, also in the middle of publish.
HandlerFails(i, k) ==
    /\ run[i][k] \in Running
    /\ notes' \in IF run[i][k] = "read" /\ topic THEN {notes, notes \cup {<<i, k>>}} ELSE {notes}
    /\ Handler(i, k, "failed")
    /\ UNCHANGED <<topic, arn, at, objects, attempt, processed, unanswered>>

----------------------------------------------------------------------------
(* SNSService.publish.                                                     *)

Published(n) ==
    /\ at[n] = "publish" /\ topic
    /\ notes' = notes \cup {<<n, 1>>}
    /\ Goto(n, "ok")
    /\ UNCHANGED <<topic, arn, objects, attempt, run, processed, unanswered>>

\* Mutant of PublishFails: it is tried again until it works.
PublishFailsTriesAgain(n) ==
    /\ at[n] = "publish"
    /\ notes' \in IF topic THEN {notes, notes \cup {<<n, 1>>}} ELSE {notes}
    /\ Goto(n, NeedTopic(n))
    /\ UNCHANGED <<topic, arn, objects, attempt, run, processed, unanswered>>

\* No topic behind the cached ARN, or an error, before or after the publication.
PublishFails(n) ==
    /\ at[n] = "publish"
    /\ notes' \in IF topic THEN {notes, notes \cup {<<n, 1>>}} ELSE {notes}
    /\ Goto(n, "error")
    /\ UNCHANGED <<topic, arn, objects, attempt, run, processed, unanswered>>

----------------------------------------------------------------------------
(* The surroundings.                                                       *)

\* Somebody deletes the topic, or the reconcile loop creates it.
TopicChanges ==
    /\ topic' = ~topic
    /\ UNCHANGED <<arn, at, objects, attempt, run, notes, processed, unanswered>>

\* The process restarts; invocations run on and nobody waits for them.
Restart ==
    /\ arn' = FALSE
    /\ at' = [r \in Requests |-> IF at[r] \in Calls THEN "error" ELSE at[r]]
    /\ UNCHANGED <<awsVars, attempt, processed, unanswered>>

ImageStep(i) ==
    \/ StartImage(i) \/ Uploaded(i) \/ UploadFails(i)
    \/ Invoke(i) \/ Returned(i) \/ FunctionError(i) \/ NoAnswer(i) \/ InvokeRaises(i)

NoticeStep(n) == StartNotice(n) \/ Published(n) \/ PublishFails(n)

TopicStep(r) ==
    \/ TopicListed(r) \/ TopicNotListed(r) \/ ListRefused(r)
    \/ TopicCreated(r) \/ TopicCallFails(r)

HandlerStep(i, k) ==
    \/ ImageRead(i, k) \/ ResultPublished(i, k)
    \/ HandlerReturns(i, k) \/ HandlerFails(i, k)

Next ==
    \/ \E i \in Images : ImageStep(i)
    \/ \E n \in Notices : NoticeStep(n)
    \/ \E r \in Requests : TopicStep(r)
    \/ \E i \in Images, k \in Attempts : HandlerStep(i, k)
    \/ TopicChanges
    \/ Restart

Spec == Init /\ [][Next]_vars

(* A thread goes on with its calls: each of them answers or runs into its   *)
(* read timeout (utils/aws.py:44-51).  Nothing is assumed of the handler.   *)
FairSpec ==
    /\ Spec
    /\ \A i \in Images : WF_vars(at[i] # "new" /\ (ImageStep(i) \/ TopicStep(i)))
    /\ \A n \in Notices : WF_vars(at[n] # "new" /\ (NoticeStep(n) \/ TopicStep(n)))

----------------------------------------------------------------------------
(* Properties.                                                              *)

(* A request answered 200 was notified, an image with the processing_id of  *)
(* the answer and not only that of an invocation whose answer was lost, and *)
(* S3 has the image (lambda_service.py:35-55, sns_service.py:46-66).        *)
AnsweredIsNotified ==
    /\ \A i \in Images : at[i] = "ok" => i \in objects /\ <<i, processed[i]>> \in notes
    /\ \A n \in Notices : at[n] = "ok" => <<n, 1>> \in notes

(* Two processing_ids are notified for one image only if an answer of       *)
(* Lambda was lost: a handler that fails, perhaps after it has published,   *)
(* is not invoked again (lambda_service.py:48-52, 66-72, utils/aws.py:22).  *)
OneIdUnlessUnanswered ==
    \A i \in Images \ unanswered :
        \A k, m \in Attempts : {<<i, k>>, <<i, m>>} \subseteq notes => k = m

(* Every request that is being served is answered, although nothing is      *)
(* assumed of Lambda (lambda_service.py:24-55, sns_service.py:46-66).       *)
EveryRequestAnswered ==
    \A r \in Requests : at[r] \in Calls ~> at[r] \in {"ok", "error"}
=============================================================================
