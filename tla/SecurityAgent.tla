---------------------------- MODULE SecurityAgent ----------------------------
(***************************************************************************)
(* AwsSecurityAgent (demo-app/app/services/security_agent.py): a read-only  *)
(* assessment of the AWS resources of one deployment, and remediation of    *)
(* findings that a client selected and confirmed.                           *)
(*                                                                          *)
(* Every request runs on a worker thread of its own.  One re-entrant lock   *)
(* protects the scan history; it is held across every AWS call of a scan    *)
(* and of a remediation, and a remediation takes it a second time for the   *)
(* scan it ends with.                                                       *)
(***************************************************************************)
EXTENDS Naturals, Sequences, FiniteSets

CONSTANTS
    Threads,           \* worker threads that serve requests
    CheckOrder,        \* the finding ids of a scan, in the order scan() reads them
    Escaping,          \* the checks whose read lets some exception out of scan()
    Driftable,         \* the controls somebody outside this program may change
    HistoryLimit,      \* scans retained (20 in the code)
    UnknownFinding,    \* any id that is in no scan
    FindingLists,      \* the finding_ids lists clients send
    AllowRemediation,  \* settings.aws_security_agent_allow_remediation
    NoThread,          \* owner of the free lock
    MaxRequests,       \* bound: requests served in one behaviour
    MaxRestarts        \* bound: restarts of the application process

Checks == {CheckOrder[i] : i \in DOMAIN CheckOrder}

ASSUME CheckAssumption == /\ CheckOrder \in Seq(Checks)
                          /\ Escaping \subseteq Checks
                          /\ Driftable \subseteq Checks
ASSUME LimitAssumption == HistoryLimit \in Nat \ {0}
ASSUME ListAssumption == FindingLists \subseteq Seq(Checks \cup {UnknownFinding})
                         /\ UnknownFinding \notin Checks
ASSUME PolicyAssumption == AllowRemediation \in BOOLEAN
ASSUME ThreadAssumption == NoThread \notin Threads
ASSUME BoundAssumption == MaxRequests \in Nat /\ MaxRestarts \in Nat

VARIABLES
    aws,        \* external: the setting of every control
    changed,    \* ghost: of each control, scans up to this number have read it
                \* before its last change from outside, if they have read it
    unseen,     \* ghost: the controls whose fixes no scan has seen because the
                \* scan of their remediation failed
    lock,       \* _lock: its owner and how often the owner holds it
    history,    \* _scans: the retained scans, oldest first
    latest,     \* _latest_scan_id, 0 for None
    created,    \* number of scan ids handed out: every uuid4 is a new one
    pc,         \* where each thread is
    req,        \* the request each thread serves, or served last
    cursor,     \* position of the thread in CheckOrder or in finding_ids
    found,      \* findings of the scan the thread is running
    acted,      \* actions of the remediation the thread runs, or ran last
    reply,      \* the answer to the thread's last request
    requests,   \* requests so far, against MaxRequests
    restarts    \* restarts so far, against MaxRestarts

ghosts     == <<changed, unseen>>
agentVars  == <<lock, history, latest, created>>
localVars  == <<pc, req, cursor, found, acted, reply>>
boundVars  == <<requests, restarts>>
vars == <<aws, changed, unseen, lock, history, latest, created,
          pc, req, cursor, found, acted, reply, requests, restarts>>

(***************************************************************************)
(* "custom" is a setting that satisfies the check without being the one a   *)
(* fix writes, for instance a customer's own KMS key.  The verdict "error"  *)
(* stands for "unavailable" too: no decision tells the two apart.           *)
(***************************************************************************)
Settings == {"insecure", "baseline", "custom"}
Verdicts == {"pass", "fail", "error"}
Unread   == [c \in Checks |-> "unread"]
Outcomes == {"none", "applied", "failed"}
NoAction == [c \in Checks |-> "none"]

Requests ==
         [op : {"scan", "latest"}]
    \cup [op : {"remediate"}, scan : 0..created, ids : FindingLists,
          confirmed : BOOLEAN]

Free == [owner |-> NoThread, depth |-> 0]
NoReply == [status |-> 0, scan |-> 0]
Answer(status, scan) == [status |-> status, scan |-> scan]

TypeOK ==
    /\ aws \in [Checks -> Settings]
    /\ changed \in [Checks -> Nat]
    /\ unseen \subseteq Checks
    /\ lock \in [owner : Threads \cup {NoThread}, depth : Nat]
    /\ history \in Seq([id : Nat, findings : [Checks -> Verdicts \cup {"unread"}]])
    /\ latest \in Nat
    /\ created \in Nat
    /\ pc \in [Threads -> {"idle", "waiting", "reading", "fixing"}]
    /\ req \in [Threads -> Requests]
    /\ cursor \in [Threads -> Nat \ {0}]
    /\ found \in [Threads -> [Checks -> Verdicts \cup {"unread"}]]
    /\ acted \in [Threads -> [Checks -> Outcomes]]
    /\ reply \in [Threads -> [status : Nat, scan : Nat]]
    /\ requests \in Nat
    /\ restarts \in Nat

Init ==
    /\ aws \in [Checks -> Settings]
    /\ changed = [c \in Checks |-> 0]
    /\ unseen = {}
    /\ lock = Free
    /\ history = <<>>
    /\ latest = 0
    /\ created = 0
    /\ pc = [t \in Threads |-> "idle"]
    /\ req = [t \in Threads |-> [op |-> "scan"]]
    /\ cursor = [t \in Threads |-> 1]
    /\ found = [t \in Threads |-> Unread]
    /\ acted = [t \in Threads |-> NoAction]
    /\ reply = [t \in Threads |-> NoReply]
    /\ requests = 0
    /\ restarts = 0

-----------------------------------------------------------------------------
(* Requests.  The two gates that need no lock are answered at once.         *)

Arrive(t, r) ==
    /\ pc[t] = "idle"
    /\ requests < MaxRequests
    /\ requests' = requests + 1
    /\ req' = [req EXCEPT ![t] = r]
    /\ acted' = [acted EXCEPT ![t] = NoAction]
    /\ UNCHANGED <<aws, ghosts, agentVars, cursor, found, restarts>>

\* The server policy and the confirmation with its acknowledgement.
GatesPass(r) == r.op = "remediate" => AllowRemediation /\ r.confirmed

Request(t) == \E r \in Requests :
    /\ Arrive(t, r)
    /\ GatesPass(r)
    /\ pc' = [pc EXCEPT ![t] = "waiting"]
    /\ reply' = [reply EXCEPT ![t] = NoReply]

RefuseUnapproved(t) == \E r \in Requests :
    /\ Arrive(t, r)
    /\ ~ GatesPass(r)
    /\ reply' = [reply EXCEPT ![t] = Answer(403, 0)]
    /\ UNCHANGED pc

-----------------------------------------------------------------------------
(* The lock.                                                                *)

\* Mutant of CanAcquire: a plain Lock where the code has an RLock.
CanAcquirePlainLock(t) == lock.owner = NoThread

CanAcquire(t) == lock.owner \in {NoThread, t}
Acquire(t)    == lock' = [owner |-> t, depth |-> lock.depth + 1]

\* The thread leaves every "with self._lock" it is in, forgets its local
\* variables and answers.
Finish(t, answer) ==
    /\ lock' = Free
    /\ pc' = [pc EXCEPT ![t] = "idle"]
    /\ cursor' = [cursor EXCEPT ![t] = 1]
    /\ found' = [found EXCEPT ![t] = Unread]
    /\ reply' = [reply EXCEPT ![t] = answer]

(* latest_scan                                                              *)

Retained(id) == {i \in DOMAIN history : history[i].id = id}

LatestScan(t) ==
    /\ pc[t] = "waiting"
    /\ req[t].op = "latest"
    /\ CanAcquire(t)
    /\ Finish(t, IF Retained(latest) = {} THEN Answer(404, 0) ELSE Answer(200, latest))
    /\ UNCHANGED <<aws, ghosts, history, latest, created, req, acted, boundVars>>

-----------------------------------------------------------------------------
(* scan                                                                     *)

StartScan(t) ==
    /\ pc[t] = "waiting"
    /\ req[t].op = "scan"
    /\ CanAcquire(t)
    /\ Acquire(t)
    /\ pc' = [pc EXCEPT ![t] = "reading"]
    /\ UNCHANGED <<aws, ghosts, history, latest, created, req, cursor, found,
                   acted, reply, boundVars>>

Reading(t) == pc[t] = "reading" /\ cursor[t] \in DOMAIN CheckOrder

\* Mutant of Verdict: only the setting the fix writes is accepted.
VerdictBaselineOnly(c) == IF aws[c] = "baseline" THEN "pass" ELSE "fail"

Verdict(c) == IF aws[c] = "insecure" THEN "fail" ELSE "pass"

\* A scan that reads a control sees every change of it so far.
Seen(c) == changed' = [changed EXCEPT ![c] = IF @ > created THEN created ELSE @]

\* One AWS read.  It yields the verdict, or a failure that the check turns
\* into a finding that is not remediable.
ReadCheck(t) ==
    /\ Reading(t)
    /\ LET c == CheckOrder[cursor[t]] IN
         /\ Seen(c)
         /\ \E v \in {Verdict(c), "error"} :
              found' = [found EXCEPT ![t][c] = v]
    /\ cursor' = [cursor EXCEPT ![t] = @ + 1]
    /\ UNCHANGED <<aws, unseen, agentVars, pc, req, acted, reply, boundVars>>

\* What the routes make of an exception: remediate's has handlers for those
\* that it raises itself (PermissionError, LookupError, ValueError).
Escaped(r) == IF r.op = "remediate" THEN {403, 409, 422, 500} ELSE {500}

\* An exception the check does not catch leaves scan(), and remediate() with
\* it when the scan is the one a remediation ends with.
ReadEscapes(t) ==
    /\ Reading(t)
    /\ CheckOrder[cursor[t]] \in Escaping
    /\ \E status \in Escaped(req[t]) : Finish(t, Answer(status, 0))
    /\ unseen' = unseen \cup {c \in Checks : acted[t][c] # "none"}
    /\ UNCHANGED <<aws, changed, history, latest, created, req, acted, boundVars>>

\* Mutant of Evict: the newest scans go (popitem) instead of the oldest.
EvictNewest(h) == IF Len(h) > HistoryLimit THEN SubSeq(h, 1, HistoryLimit) ELSE h

\* The oldest scans are dropped while there are more than HistoryLimit.
Evict(h) == IF Len(h) > HistoryLimit
            THEN SubSeq(h, Len(h) - HistoryLimit + 1, Len(h))
            ELSE h

FinishScan(t) ==
    /\ pc[t] = "reading"
    /\ cursor[t] \notin DOMAIN CheckOrder
    /\ created' = created + 1
    /\ latest' = created'
    /\ history' = Evict(Append(history, [id |-> created', findings |-> found[t]]))
    /\ Finish(t, Answer(200, created'))
    /\ unseen' = {}
    /\ UNCHANGED <<aws, changed, req, acted, boundVars>>

-----------------------------------------------------------------------------
(* remediate, once its gates have passed                                    *)

\* Mutant of Actionable: a check that failed to run counts as a failed check.
ActionableUnlessPassed(id, findings) == id \in Checks /\ findings[id] # "pass"

Actionable(id, findings) == id \in Checks /\ findings[id] = "fail"

\* Mutants of StartRemediation: the findings are not checked, or the lock is
\* not taken.
StartRemediationUnchecked(t) ==
    /\ pc[t] = "waiting"
    /\ req[t].op = "remediate"
    /\ CanAcquire(t)
    /\ Retained(req[t].scan) # {}
    /\ \A k \in DOMAIN req[t].ids : req[t].ids[k] \in Checks
    /\ Acquire(t)
    /\ pc' = [pc EXCEPT ![t] = "fixing"]
    /\ UNCHANGED <<aws, ghosts, history, latest, created, req, cursor, found,
                   acted, reply, boundVars>>

StartRemediationUnlocked(t) ==
    /\ pc[t] = "waiting"
    /\ req[t].op = "remediate"
    /\ \E i \in Retained(req[t].scan) :
         \A k \in DOMAIN req[t].ids :
            Actionable(req[t].ids[k], history[i].findings)
    /\ pc' = [pc EXCEPT ![t] = "fixing"]
    /\ UNCHANGED <<aws, ghosts, agentVars, req, cursor, found, acted, reply,
                   boundVars>>

\* The request names a retained scan and only findings that failed in it.
StartRemediation(t) ==
    /\ pc[t] = "waiting"
    /\ req[t].op = "remediate"
    /\ CanAcquire(t)
    /\ \E i \in Retained(req[t].scan) :
         \A k \in DOMAIN req[t].ids :
            Actionable(req[t].ids[k], history[i].findings)
    /\ Acquire(t)
    /\ pc' = [pc EXCEPT ![t] = "fixing"]
    /\ UNCHANGED <<aws, ghosts, history, latest, created, req, cursor, found,
                   acted, reply, boundVars>>

RefuseRemediation(t) ==
    /\ pc[t] = "waiting"
    /\ req[t].op = "remediate"
    /\ CanAcquire(t)
    /\ \/ /\ Retained(req[t].scan) = {}
          /\ Finish(t, Answer(409, 0))
       \/ \E i \in Retained(req[t].scan) :
            /\ \E k \in DOMAIN req[t].ids :
                 ~ Actionable(req[t].ids[k], history[i].findings)
            /\ Finish(t, Answer(422, 0))
    /\ UNCHANGED <<aws, ghosts, history, latest, created, req, acted, boundVars>>

\* dict.fromkeys(finding_ids): the positions that hold an id for the first
\* time, from the cursor on.
Pending(t) ==
    {k \in DOMAIN req[t].ids :
        k >= cursor[t] /\ \A j \in 1..(k - 1) : req[t].ids[j] # req[t].ids[k]}

\* One fix.  A call that reports an error may have taken effect all the same,
\* when it is the answer that was lost.
ApplyFix(t) ==
    /\ pc[t] = "fixing"
    /\ \E k \in Pending(t) :
         /\ \A j \in Pending(t) : k <= j
         /\ cursor' = [cursor EXCEPT ![t] = k + 1]
         /\ LET c == req[t].ids[k] IN
              \E took_effect \in BOOLEAN, answered \in BOOLEAN :
                 /\ answered => took_effect
                 /\ aws' = IF took_effect THEN [aws EXCEPT ![c] = "baseline"] ELSE aws
                 /\ acted' = [acted EXCEPT ![t][c] =
                                  IF answered THEN "applied" ELSE "failed"]
    /\ UNCHANGED <<ghosts, agentVars, pc, req, found, reply, boundVars>>

\* Mutant of StartRescan: the answer holds the actions and no new scan.
StartRescanOmitted(t) ==
    /\ pc[t] = "fixing"
    /\ Pending(t) = {}
    /\ Finish(t, Answer(200, latest))
    /\ UNCHANGED <<aws, ghosts, history, latest, created, req, acted, boundVars>>

\* return {..., "scan": self.scan()}, in the thread that holds the lock
StartRescan(t) ==
    /\ pc[t] = "fixing"
    /\ Pending(t) = {}
    /\ CanAcquire(t)
    /\ Acquire(t)
    /\ pc' = [pc EXCEPT ![t] = "reading"]
    /\ cursor' = [cursor EXCEPT ![t] = 1]
    /\ UNCHANGED <<aws, ghosts, history, latest, created, req, found, acted,
                   reply, boundVars>>

-----------------------------------------------------------------------------
(* The surroundings                                                         *)

\* Somebody changes a control in the AWS console.
Drift == \E c \in Driftable, s \in Settings :
    /\ s # aws[c]
    /\ aws' = [aws EXCEPT ![c] = s]
    /\ changed' = [changed EXCEPT ![c] = created + 1]
    /\ UNCHANGED <<unseen, agentVars, localVars, boundVars>>

\* The process dies, its requests are never answered, and a new process
\* starts with the empty history of __init__.
Restart ==
    /\ restarts < MaxRestarts
    /\ restarts' = restarts + 1
    /\ lock' = Free
    /\ history' = <<>>
    /\ latest' = 0
    /\ pc' = [t \in Threads |-> "idle"]
    /\ cursor' = [t \in Threads |-> 1]
    /\ found' = [t \in Threads |-> Unread]
    /\ acted' = [t \in Threads |-> NoAction]
    /\ reply' = [t \in Threads |-> NoReply]
    /\ unseen' = {}
    /\ UNCHANGED <<aws, changed, created, req, requests>>

Serve(t) == \/ LatestScan(t)
            \/ StartScan(t)
            \/ ReadCheck(t)
            \/ ReadEscapes(t)
            \/ FinishScan(t)
            \/ StartRemediation(t)
            \/ RefuseRemediation(t)
            \/ ApplyFix(t)
            \/ StartRescan(t)

Next == \/ \E t \in Threads : Request(t) \/ RefuseUnapproved(t) \/ Serve(t)
        \/ Drift
        \/ Restart

Spec == Init /\ [][Next]_vars

\* A thread that can go on does go on: boto3 calls return or time out.
FairSpec == Spec /\ \A t \in Threads : WF_vars(Serve(t))

-----------------------------------------------------------------------------
(* Properties                                                               *)

\* The thread in a critical section is the owner of the lock, and it holds
\* it twice exactly while it runs the scan a remediation ends with.
LockDiscipline ==
    /\ \A t \in Threads :
         (lock.owner = t) = (pc[t] \in {"reading", "fixing"})
    /\ lock.depth = IF lock.owner = NoThread THEN 0
                    ELSE IF pc[lock.owner] = "reading" /\ req[lock.owner].op = "remediate"
                         THEN 2 ELSE 1

\* The history holds the newest scans, complete, in order and within the
\* limit, and the scan "latest" names is always among them: GET /latest
\* answers 404 only before the first scan of the process.
HistoryIsNewestScans ==
    /\ Len(history) <= HistoryLimit
    /\ \A i \in DOMAIN history :
         /\ history[i].id = latest - Len(history) + i
         /\ history[i].id \in 1..created
    /\ (latest = 0) = (history = <<>>)

ScansAreComplete ==
    \A i \in DOMAIN history : \A c \in Checks : history[i].findings[c] \in Verdicts

\* While fixes are under way, each finding still to be fixed was confirmed by
\* the client and failed in the named scan, and that scan is still retained:
\* no concurrent scan evicted or replaced it.
FixesAreApproved ==
    \A t \in Threads : pc[t] = "fixing" =>
        /\ AllowRemediation
        /\ req[t].op = "remediate" /\ req[t].confirmed
        /\ \E i \in Retained(req[t].scan) :
             \A k \in Pending(t) : Actionable(req[t].ids[k], history[i].findings)

\* What a request changes in AWS is a control that its client selected and
\* that failed in the scan the client named: a scan never changes anything.
\* (A step that leaves the local variables alone is one of the surroundings.)
AgentChangesOnlyApproved ==
    [][\A c \in Checks : aws'[c] # aws[c] /\ localVars' # localVars =>
          \E t \in Threads :
             /\ pc[t] = "fixing"
             /\ \E i \in Retained(req[t].scan) : history[i].findings[c] = "fail"
             /\ \E k \in DOMAIN req[t].ids : req[t].ids[k] = c]_vars

\* A fix replaces a customer's own setting by the baseline only where the
\* setting was made after the scan that the request names had read the control:
\* that may be any retained scan, and fixes do not look at the setting again.
CustomSettingsKept ==
    [][\A c \in Checks :
          aws[c] = "custom" /\ aws'[c] # "custom" /\ localVars' # localVars =>
             \E t \in Threads : pc[t] = "fixing" /\ req[t].scan <= changed[c]]_vars

\* When nobody is scanning or fixing, the latest scan tells what AWS has, the
\* effect of every earlier remediation included, unless a control was changed
\* from outside after the scan had read it, or was fixed by a remediation whose
\* own scan failed: /latest then goes on with the scan of before the fixes.
LatestIsFresh ==
    lock = Free =>
        \A i \in Retained(latest) : \A c \in Checks \ unseen :
            history[i].id > changed[c] /\ history[i].findings[c] \in {"pass", "fail"} =>
                history[i].findings[c] = Verdict(c)

\* "After the attempts complete, the agent performs a new read-only scan and
\* returns the refreshed result" (AWS_SECURITY_AGENT.md:49): a remediation
\* that attempted a fix is answered with its actions and the refreshed scan.
AttemptsAreReported ==
    \A t \in Threads :
        pc[t] = "idle" /\ (\E c \in Checks : acted[t][c] # "none") =>
            reply[t].status = 200

\* Every request that reached the lock is answered, or dies with the process.
EveryRequestAnswered ==
    \A t \in Threads : pc[t] = "waiting" ~> pc[t] = "idle"

Todo(t) == {req[t].ids[k] : k \in Pending(t)}

JobOf(t) == [at |-> pc[t], found |-> found[t], todo |-> IF pc[t] = "fixing" THEN Todo(t) ELSE {}]

\* The work of the thread that holds the lock.
Job == IF lock.owner = NoThread
       THEN [at |-> "rest", found |-> Unread, todo |-> {}]
       ELSE JobOf(lock.owner)

Serial == INSTANCE SerialAgent WITH job <- Job

\* However many threads serve requests, the agent does one job at a time, and a
\* remediation is one job with the scan it ends with (security_agent.py:63-209).
ImplementsSerial == Serial!SerialSpec
=============================================================================
