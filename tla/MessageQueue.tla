---------------------------- MODULE MessageQueue ----------------------------
(***************************************************************************)
(* POST /queue/send and GET /queue/messages (routes/queue.py) over the     *)
(* service that talks to SQS (services/sqs_service.py).  Each element of   *)
(* Messages is one request that sends one message, each element of         *)
(* Receives one request that receives.                                     *)
(*                                                                         *)
(* SQS is external: a standard queue that hands out a message again when   *)
(* its visibility timeout ends before it is deleted.  A send that is       *)
(* repeated because its answer was lost puts another copy into the queue.  *)
(* All other calls are one action with all their attempts.                 *)
(***************************************************************************)
EXTENDS Naturals, FiniteSets

CONSTANTS
    Messages,
    Receives,
    MaxAttempts,  \* attempts of a call (_DEFAULT_RETRIES)
    MaxBatch      \* MaxNumberOfMessages

ASSUME RequestsAssumption == Messages \cap Receives = {}
ASSUME BoundsAssumption == MaxAttempts \in Nat \ {0} /\ MaxBatch \in Nat \ {0}

Copies == Messages \X (1 .. MaxAttempts)
Requests == Messages \cup Receives

VARIABLES
    queue,    \* whether the queue exists
    url,      \* whether _queue_url is set
    at,       \* the call each request makes next, or its answer
    tries,    \* attempts of each send that got no answer
    copy,     \* the state of each copy of a message
    got,      \* the copies each receive was handed
    out,      \* the messages each receive was answered
    purged,   \* ghost: the messages sent before the queue was deleted
    excused   \* ghost: the copies SQS handed out again without the code's doing

sqs == <<queue, copy>>
ghosts == <<purged, excused>>
vars == <<sqs, url, at, tries, got, out, ghosts>>

Calls == {"get_queue_url", "create_queue", "send", "receive", "delete"}

TypeOK ==
    /\ queue \in BOOLEAN /\ url \in BOOLEAN
    /\ at \in [Requests -> Calls \cup {"new", "ok", "error"}]
    /\ tries \in [Messages -> 0 .. MaxAttempts - 1]
    /\ copy \in [Copies -> {"none", "visible", "hidden", "deleted"}]
    /\ got \in [Receives -> SUBSET Copies]
    /\ out \in [Receives -> SUBSET Copies]
    /\ purged \subseteq Messages /\ excused \subseteq Copies

Init ==
    /\ queue \in BOOLEAN /\ url = FALSE
    /\ at = [r \in Requests |-> "new"]
    /\ tries = [m \in Messages |-> 0]
    /\ copy = [c \in Copies |-> "none"]
    /\ got = [r \in Receives |-> {}]
    /\ out = [r \in Receives |-> {}]
    /\ purged = {} /\ excused = {}

Goto(r, there) == at' = [at EXCEPT ![r] = there]
Become(S, state) == copy' = [c \in Copies |-> IF c \in S THEN state ELSE copy[c]]
CopiesIn(state) == {c \in Copies : copy[c] = state}

----------------------------------------------------------------------------
(* queue_url(): the URL is looked up once per process.                     *)

AfterUrl(r) == IF r \in Messages THEN "send" ELSE "receive"

Start(r) ==
    /\ at[r] = "new"
    /\ Goto(r, IF url THEN AfterUrl(r) ELSE "get_queue_url")
    /\ UNCHANGED <<sqs, url, tries, got, out, ghosts>>

UrlFound(r) ==
    /\ at[r] = "get_queue_url" /\ queue
    /\ url' = TRUE
    /\ Goto(r, AfterUrl(r))
    /\ UNCHANGED <<sqs, tries, got, out, ghosts>>

\* No such queue, or any other ClientError.
UrlNotFound(r) ==
    /\ at[r] = "get_queue_url"
    /\ Goto(r, "create_queue")
    /\ UNCHANGED <<sqs, url, tries, got, out, ghosts>>

QueueCreated(r) ==
    /\ at[r] = "create_queue"
    /\ queue' = TRUE /\ url' = TRUE
    /\ Goto(r, AfterUrl(r))
    /\ UNCHANGED <<copy, tries, got, out, ghosts>>

UrlCallFails(r) ==
    /\ at[r] \in {"get_queue_url", "create_queue"}
    /\ queue' \in IF at[r] = "create_queue" THEN {queue, TRUE} ELSE {queue}
    /\ Goto(r, "error")
    /\ UNCHANGED <<copy, url, tries, got, out, ghosts>>

----------------------------------------------------------------------------
(* send_message                                                            *)

Sent(m) ==
    /\ at[m] = "send" /\ queue
    /\ Become({<<m, tries[m] + 1>>}, "visible")
    /\ Goto(m, "ok")
    /\ UNCHANGED <<queue, url, tries, got, out, ghosts>>

\* The attempt is carried out or not, and is repeated.
NoAnswer(m) ==
    /\ at[m] = "send"
    /\ \/ queue /\ Become({<<m, tries[m] + 1>>}, "visible")
       \/ UNCHANGED copy
    /\ IF tries[m] + 1 < MaxAttempts
       THEN tries' = [tries EXCEPT ![m] = @ + 1] /\ UNCHANGED at
       ELSE Goto(m, "error") /\ UNCHANGED tries
    /\ UNCHANGED <<queue, url, got, out, ghosts>>

\* An error that is not repeated, a deleted queue for instance.
SendRefused(m) ==
    /\ at[m] = "send"
    /\ Goto(m, "error")
    /\ UNCHANGED <<sqs, url, tries, got, out, ghosts>>

----------------------------------------------------------------------------
(* receive_and_delete                                                      *)

\* Mutant of Answer: the first message only.
AnswerFirst(S) == IF S = {} THEN {} ELSE {CHOOSE c \in S : TRUE}

\* The answer lists all that was received, before any of it is deleted.
Answer(S) == S

\* Mutant of AfterReceive: a full batch is answered without being deleted.
AfterReceiveUnlessFull(S) == IF S = {} \/ Cardinality(S) = MaxBatch THEN "ok" ELSE "delete"

AfterReceive(S) == IF S = {} THEN "ok" ELSE "delete"

\* SQS hands out S; earlier attempts may have hidden L, which nobody got.
Received(r) ==
    /\ at[r] = "receive" /\ queue
    /\ \E S, L \in SUBSET CopiesIn("visible") :
        /\ S \cap L = {} /\ Cardinality(S) <= MaxBatch
        /\ Become(S \cup L, "hidden")
        /\ got' = [got EXCEPT ![r] = S]
        /\ out' = [out EXCEPT ![r] = Answer(S)]
        /\ Goto(r, AfterReceive(S))
    /\ UNCHANGED <<queue, url, tries, ghosts>>

ReceiveFails(r) ==
    /\ at[r] = "receive"
    /\ \E L \in SUBSET CopiesIn("visible") : Become(L, "hidden")
    /\ Goto(r, "error")
    /\ UNCHANGED <<queue, url, tries, got, out, ghosts>>

\* The batch is answered, whichever of its entries SQS refused.
Deleted(r) ==
    /\ at[r] = "delete"
    /\ \E D \in SUBSET got[r] :
        /\ Become(D, "deleted")
        /\ excused' = excused \cup (got[r] \ D)
    /\ Goto(r, "ok")
    /\ UNCHANGED <<queue, url, tries, got, out, purged>>

\* Mutant of DeleteFails: the whole receive is tried again.
DeleteFailsTriesAgain(r) ==
    /\ at[r] = "delete"
    /\ \E D \in SUBSET got[r] : Become(D, "deleted")
    /\ Goto(r, "receive")
    /\ UNCHANGED <<queue, url, tries, got, out, ghosts>>

\* The call raises, with none, some or all of the entries deleted.
DeleteFails(r) ==
    /\ at[r] = "delete"
    /\ \E D \in SUBSET got[r] : Become(D, "deleted")
    /\ Goto(r, "error")
    /\ UNCHANGED <<queue, url, tries, got, out, ghosts>>

----------------------------------------------------------------------------
(* SQS and the process.                                                    *)

\* Without a delete, or before the delete of the request that was handed it.
VisibilityEnds(c) ==
    /\ copy[c] = "hidden"
    /\ Become({c}, "visible")
    /\ excused' = IF \E r \in Receives : at[r] = "delete" /\ c \in got[r]
                  THEN excused \cup {c} ELSE excused
    /\ UNCHANGED <<queue, url, at, tries, got, out, purged>>

\* Somebody deletes the queue with all that is in it.
QueueDisappears ==
    /\ queue /\ queue' = FALSE
    /\ Become(CopiesIn("visible") \cup CopiesIn("hidden"), "deleted")
    /\ purged' = purged \cup {m \in Messages : \E k \in 1 .. MaxAttempts : copy[<<m, k>>] # "none"}
    /\ UNCHANGED <<url, at, tries, got, out, excused>>

\* The reconcile loop creates the queue, or somebody else does.
QueueAppears ==
    /\ ~queue /\ queue' = TRUE
    /\ UNCHANGED <<copy, url, at, tries, got, out, ghosts>>

Restart ==
    /\ url' = FALSE
    /\ at' = [r \in Requests |-> IF at[r] \in Calls THEN "error" ELSE at[r]]
    /\ UNCHANGED <<sqs, tries, got, out, ghosts>>

Next ==
    \/ \E r \in Requests :
        Start(r) \/ UrlFound(r) \/ UrlNotFound(r) \/ QueueCreated(r) \/ UrlCallFails(r)
    \/ \E m \in Messages : Sent(m) \/ NoAnswer(m) \/ SendRefused(m)
    \/ \E r \in Receives : Received(r) \/ ReceiveFails(r) \/ Deleted(r) \/ DeleteFails(r)
    \/ \E c \in Copies : VisibilityEnds(c)
    \/ QueueDisappears \/ QueueAppears
    \/ Restart

Spec == Init /\ [][Next]_vars

----------------------------------------------------------------------------
(* Properties.                                                             *)

InQueue(m) == \E k \in 1 .. MaxAttempts : copy[<<m, k>>] \in {"visible", "hidden"}
In(m, S) == \E k \in 1 .. MaxAttempts : <<m, k>> \in S

(* A message whose send was answered is still in the queue, or was answered *)
(* to a receiver, or went with the queue itself; the only other way out is  *)
(* a receive that was handed it and then failed (sqs_service.py:30-49).     *)
NoSilentLoss ==
    \A m \in Messages : at[m] = "ok" =>
        \/ InQueue(m) \/ m \in purged
        \/ \E r \in Receives : at[r] = "ok" /\ In(m, out[r])
        \/ \E r \in Receives : at[r] = "error" /\ In(m, got[r])

(* Two receives are answered the same copy only if SQS refused to delete    *)
(* it, or its visibility timeout ended before its delete was made           *)
(* (sqs_service.py:34-49).                                                  *)
RepeatsAreExcused ==
    \A r, q \in Receives :
        r # q /\ at[r] = "ok" /\ at[q] = "ok" => out[r] \cap out[q] \subseteq excused

Promised == INSTANCE AtLeastOnceQueue WITH
    held <- {m \in Messages : InQueue(m)},
    accepted <- {m \in Messages : at[m] = "ok"},
    delivered <- {m \in Messages : \E r \in Receives : at[r] = "ok" /\ In(m, out[r])},
    dropped <- purged \cup
                {m \in Messages : \E r \in Receives : at[r] = "error" /\ In(m, got[r])}

(* The routes implement an at-least-once queue: only a send under way puts a *)
(* message into the queue, none comes back once its send was answered and it *)
(* has left, and none leaves but by a receive that was handed it or with the *)
(* queue, whichever calls are repeated or lost (sqs_service.py:30-49).       *)
ImplementsAtLeastOnce == Promised!QueueSpec
=============================================================================
