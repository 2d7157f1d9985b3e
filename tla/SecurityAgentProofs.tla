------------------------- MODULE SecurityAgentProofs -------------------------
(***************************************************************************)
(* What holds of the security agent for any number of threads, checks and   *)
(* retained scans.                                                          *)
(***************************************************************************)
EXTENDS SecurityAgent, SequenceTheorems, TLAPS

\* A thread past its gates serves a request whose gates passed.
GatesPassed == \A t \in Threads : pc[t] # "idle" => GatesPass(req[t])

\* A thread that has not started holds an untouched cursor, and a scan has a
\* verdict for every check before its cursor.
Progress ==
    \A t \in Threads :
        /\ pc[t] \in {"idle", "waiting"} => cursor[t] = 1
        /\ pc[t] = "reading" =>
             \A i \in DOMAIN CheckOrder :
                i < cursor[t] => found[t][CheckOrder[i]] \in Verdicts

LatestIsNewest == latest \in {0, created}

\* The inductive invariant.
Inv == /\ TypeOK
       /\ LockDiscipline
       /\ GatesPassed
       /\ Progress
       /\ LatestIsNewest
       /\ HistoryIsNewestScans
       /\ ScansAreComplete
       /\ FixesAreApproved

-----------------------------------------------------------------------------
(* Sequences                                                                *)

\* Evicting keeps the newest scans: the result is the tail of the history.
LEMMA EvictKeepsNewest ==
    ASSUME NEW S, NEW h \in Seq(S)
    PROVE  LET e == Evict(h) IN
             /\ e \in Seq(S)
             /\ Len(e) = IF Len(h) > HistoryLimit THEN HistoryLimit ELSE Len(h)
             /\ \A i \in 1..Len(e) : e[i] = h[Len(h) - Len(e) + i]
<1> USE LimitAssumption
<1>1. CASE Len(h) > HistoryLimit
  <2> DEFINE m == Len(h) - HistoryLimit + 1
  <2>1. m \in 1..(Len(h) + 1) /\ Len(h) \in Nat
    BY <1>1
  <2>2. Evict(h) = SubSeq(h, m, Len(h))
    BY <1>1 DEF Evict
  <2>3. /\ SubSeq(h, m, Len(h)) \in Seq(S)
        /\ Len(SubSeq(h, m, Len(h))) = Len(h) - m + 1
        /\ \A i \in 1..(Len(h) - m + 1) : SubSeq(h, m, Len(h))[i] = h[m + i - 1]
    BY <2>1, SubSeqProperties
  <2>4. Len(h) - m + 1 = HistoryLimit
    BY <2>1
  <2>. QED BY <1>1, <2>1, <2>2, <2>3, <2>4
<1>2. CASE ~ (Len(h) > HistoryLimit)
  BY <1>2 DEF Evict
<1>. QED BY <1>1, <1>2

\* Storing a scan and evicting: the new scan is last, and scan i of the k that
\* remain was at position n + 1 - k + i before.
LEMMA StoreKeepsNewest ==
    ASSUME NEW S, NEW h \in Seq(S), NEW x \in S,
           NEW g \in Seq(S), Len(g) = Len(h) + 1, g[Len(h) + 1] = x,
           \A j \in 1..Len(h) : g[j] = h[j]
    PROVE  /\ Evict(g) \in Seq(S)
           /\ Len(Evict(g)) \in 1..(Len(h) + 1) /\ Len(Evict(g)) <= HistoryLimit
           /\ \A i \in 1..(Len(Evict(g)) - 1) :
                /\ Len(h) + 1 - Len(Evict(g)) + i \in 1..Len(h)
                /\ Evict(g)[i] = h[Len(h) + 1 - Len(Evict(g)) + i]
           /\ Evict(g)[Len(Evict(g))] = x
<1> DEFINE e == Evict(g)
           n == Len(h)
<1>1. /\ e \in Seq(S)
      /\ Len(e) = IF Len(g) > HistoryLimit THEN HistoryLimit ELSE Len(g)
      /\ \A i \in 1..Len(e) : e[i] = g[Len(g) - Len(e) + i]
  BY EvictKeepsNewest
<1>2. n \in Nat
  OBVIOUS
<1> HIDE DEF e, n
<1>3. Len(g) = n + 1 /\ g[n + 1] = x /\ \A j \in 1..n : g[j] = h[j]
  BY DEF n
<1>4. Len(e) \in 1..(n + 1) /\ Len(e) <= HistoryLimit
  BY <1>1, <1>2, <1>3, LimitAssumption
<1>5. ASSUME NEW i \in 1..(Len(e) - 1)
      PROVE  n + 1 - Len(e) + i \in 1..n /\ e[i] = h[n + 1 - Len(e) + i]
  <2>1. n + 1 - Len(e) + i \in 1..n
    BY <1>2, <1>4
  <2>2. i \in 1..Len(e)
    BY <1>4
  <2>3. e[i] = g[Len(g) - Len(e) + i]
    BY <1>1, <2>2
  <2>4. Len(g) - Len(e) + i = n + 1 - Len(e) + i
    BY <1>2, <1>3, <1>4
  <2>. QED BY <1>3, <2>1, <2>3, <2>4
<1>6. e[Len(e)] = x
  <2>1. Len(e) \in 1..Len(e) /\ Len(g) - Len(e) + Len(e) = n + 1
    BY <1>2, <1>3, <1>4
  <2>2. e[Len(e)] = g[Len(g) - Len(e) + Len(e)]
    BY <1>1, <2>1
  <2>. QED BY <1>3, <2>1, <2>2
<1>. QED BY <1>1, <1>4, <1>5, <1>6 DEF e, n

-----------------------------------------------------------------------------
(* Types                                                                    *)

\* The checks are the elements of CheckOrder.
LEMMA CheckTypes ==
    /\ CheckOrder \in Seq(Checks)
    /\ \A i \in DOMAIN CheckOrder : i \in Nat \ {0} /\ CheckOrder[i] \in Checks
    /\ \A n \in Nat \ {0} : n \notin DOMAIN CheckOrder =>
          \A i \in DOMAIN CheckOrder : i < n
    /\ Unread \in [Checks -> Verdicts \cup {"unread"}]
    /\ NoAction \in [Checks -> Outcomes]
  BY CheckAssumption DEF Checks, Unread, NoAction, Outcomes

\* Requests only grow as scan ids are handed out.
LEMMA RequestsGrow ==
    ASSUME created \in Nat, created' \in Nat, created' >= created
    PROVE  Requests \subseteq Requests'
  BY DEF Requests

LEMMA SameRequests == created' = created => Requests' = Requests
  BY DEF Requests

\* A thread that leaves the lock leaves variables of their types.
LEMMA FinishTypes ==
    ASSUME TypeOK, NEW t \in Threads, NEW answer \in [status : Nat, scan : Nat],
           Finish(t, answer)
    PROVE  /\ lock' \in [owner : Threads \cup {NoThread}, depth : Nat]
           /\ pc' \in [Threads -> {"idle", "waiting", "reading", "fixing"}]
           /\ cursor' \in [Threads -> Nat \ {0}]
           /\ found' \in [Threads -> [Checks -> Verdicts \cup {"unread"}]]
           /\ reply' \in [Threads -> [status : Nat, scan : Nat]]
  BY CheckTypes DEF TypeOK, Finish, Free

\* The positions of a finding list are positive.
LEMMA RequestIds ==
    \A r \in Requests : r.op = "remediate" => DOMAIN r.ids \subseteq Nat \ {0}
  BY ListAssumption DEF Requests

LEMMA TypeStep == TypeOK /\ FixesAreApproved /\ [Next]_vars => TypeOK'
<1> SUFFICES ASSUME TypeOK, FixesAreApproved, [Next]_vars PROVE TypeOK'
  OBVIOUS
<1>1. ASSUME NEW t \in Threads, NEW r \in Requests, Arrive(t, r),
             \/ pc' = [pc EXCEPT ![t] = "waiting"] /\ reply' = [reply EXCEPT ![t] = NoReply]
             \/ UNCHANGED pc /\ reply' = [reply EXCEPT ![t] = Answer(403, 0)]
      PROVE  TypeOK'
  <2>1. pc' \in [Threads -> {"idle", "waiting", "reading", "fixing"}]
    BY <1>1 DEF TypeOK
  <2>2. reply' \in [Threads -> [status : Nat, scan : Nat]]
    <3>1. /\ NoReply \in [status : Nat, scan : Nat]
          /\ Answer(403, 0) \in [status : Nat, scan : Nat]
          /\ reply \in [Threads -> [status : Nat, scan : Nat]]
      BY DEF TypeOK, NoReply, Answer
    <3>. QED BY <1>1, <3>1
  <2>3. req' \in [Threads -> Requests'] /\ acted' \in [Threads -> [Checks -> Outcomes]]
    BY <1>1, CheckTypes, SameRequests DEF TypeOK, Arrive, agentVars
  <2>4. requests' \in Nat /\ UNCHANGED <<aws, ghosts, agentVars, cursor, found, restarts>>
    BY <1>1 DEF TypeOK, Arrive
  <2>. QED BY <2>1, <2>2, <2>3, <2>4 DEF TypeOK, agentVars, ghosts
<1>2. ASSUME NEW t \in Threads, NEW answer \in [status : Nat, scan : Nat], Finish(t, answer),
             unseen' \subseteq Checks,
             UNCHANGED <<aws, changed, history, latest, created, req, acted, boundVars>>
      PROVE  TypeOK'
  BY <1>2, FinishTypes, SameRequests DEF TypeOK, boundVars
<1>3. ASSUME NEW t \in Threads, StartScan(t) \/ StartRemediation(t) \/ StartRescan(t)
      PROVE  TypeOK'
  <2>1. Acquire(t) /\ created' = created /\ UNCHANGED <<aws, ghosts, history, latest, req, found, acted, reply, boundVars>>
    BY <1>3 DEF StartScan, StartRemediation, StartRescan
  <2>2. pc' \in [Threads -> {"idle", "waiting", "reading", "fixing"}]
    <3>1. pc' = [pc EXCEPT ![t] = "reading"] \/ pc' = [pc EXCEPT ![t] = "fixing"]
      BY <1>3 DEF StartScan, StartRemediation, StartRescan
    <3>2. pc \in [Threads -> {"idle", "waiting", "reading", "fixing"}]
      BY DEF TypeOK
    <3>. QED BY <3>1, <3>2
  <2>3. cursor' \in [Threads -> Nat \ {0}]
    <3>1. cursor' = cursor \/ cursor' = [cursor EXCEPT ![t] = 1]
      BY <1>3 DEF StartScan, StartRemediation, StartRescan
    <3>2. cursor \in [Threads -> Nat \ {0}]
      BY DEF TypeOK
    <3>. QED BY <3>1, <3>2
  <2>4. lock' \in [owner : Threads \cup {NoThread}, depth : Nat]
    BY <2>1 DEF TypeOK, Acquire
  <2>. QED BY <2>1, <2>2, <2>3, <2>4, SameRequests DEF TypeOK, boundVars, ghosts
<1>4. ASSUME NEW t \in Threads, ReadCheck(t)
      PROVE  TypeOK'
  <2>1. PICK v \in Verdicts : found' = [found EXCEPT ![t][CheckOrder[cursor[t]]] = v]
    BY <1>4 DEF ReadCheck, Verdict, Verdicts
  <2>2. found' \in [Threads -> [Checks -> Verdicts \cup {"unread"}]]
    <3>1. CheckOrder[cursor[t]] \in Checks
      BY <1>4, CheckTypes DEF ReadCheck, Reading
    <3>. QED BY <2>1, <3>1 DEF TypeOK
  <2>3. cursor' \in [Threads -> Nat \ {0}] /\ UNCHANGED <<aws, unseen, agentVars, pc, req, acted, reply, boundVars>>
    BY <1>4 DEF TypeOK, ReadCheck
  <2>4. changed' \in [Checks -> Nat]
    BY <1>4 DEF TypeOK, ReadCheck, Seen
  <2>. QED BY <2>2, <2>3, <2>4, SameRequests DEF TypeOK, agentVars, boundVars
<1>5. ASSUME NEW t \in Threads, FinishScan(t)
      PROVE  TypeOK'
  <2> DEFINE Scans == [id : Nat, findings : [Checks -> Verdicts \cup {"unread"}]]
             new == [id |-> created + 1, findings |-> found[t]]
  <2>1. new \in Scans /\ Append(history, new) \in Seq(Scans)
    BY DEF TypeOK
  <2>2. history' = Evict(Append(history, new)) /\ created' = created + 1 /\ latest' = created + 1
    BY <1>5 DEF FinishScan
  <2>3. history' \in Seq(Scans)
    BY <2>1, <2>2, EvictKeepsNewest
  <2>4. Finish(t, Answer(200, created + 1)) /\ UNCHANGED <<aws, changed, req, acted, boundVars>>
    BY <1>5 DEF FinishScan
  <2>5. created \in Nat /\ created' \in Nat /\ req' \in [Threads -> Requests']
    BY <2>2, <2>4, RequestsGrow DEF TypeOK
  <2>6. Answer(200, created + 1) \in [status : Nat, scan : Nat]
    BY <2>5 DEF Answer
  <2>7. unseen' \subseteq Checks
    BY <1>5 DEF FinishScan
  <2>. QED BY <2>2, <2>3, <2>4, <2>5, <2>6, <2>7, FinishTypes DEF TypeOK, boundVars
<1>6. ASSUME NEW t \in Threads, ApplyFix(t)
      PROVE  TypeOK'
  <2>1. PICK k \in Pending(t) : cursor' = [cursor EXCEPT ![t] = k + 1]
    BY <1>6 DEF ApplyFix
  <2>2. DOMAIN req[t].ids \subseteq Nat \ {0}
    BY <1>6, RequestIds DEF ApplyFix, FixesAreApproved, TypeOK
  <2>3. aws' \in [Checks -> Settings] /\ acted' \in [Threads -> [Checks -> Outcomes]]
    <3>1. PICK j \in Pending(t), o \in {"applied", "failed"} :
             /\ aws' = [aws EXCEPT ![req[t].ids[j]] = "baseline"] \/ aws' = aws
             /\ acted' = [acted EXCEPT ![t][req[t].ids[j]] = o]
      BY <1>6 DEF ApplyFix
    <3>2. aws' \in [Checks -> Settings]
      BY <3>1 DEF TypeOK, Settings
    <3>3. acted' \in [Threads -> [Checks -> Outcomes]]
      BY <3>1 DEF TypeOK, Outcomes
    <3>. QED BY <3>2, <3>3
  <2>4. cursor' \in [Threads -> Nat \ {0}] /\ UNCHANGED <<ghosts, agentVars, pc, req, found, reply, boundVars>>
    BY <1>6, <2>1, <2>2 DEF TypeOK, ApplyFix, Pending
  <2>. QED BY <2>3, <2>4, SameRequests DEF TypeOK, agentVars, boundVars, ghosts
<1>7. CASE Drift
  <2>1. aws' \in [Checks -> Settings] /\ changed' \in [Checks -> Nat]
    BY <1>7, CheckAssumption DEF TypeOK, Drift
  <2>2. UNCHANGED <<unseen, agentVars, localVars, boundVars>>
    BY <1>7 DEF Drift
  <2>. QED BY <2>1, <2>2, SameRequests DEF TypeOK, agentVars, localVars, boundVars
<1>8. CASE Restart
  BY <1>8, SameRequests, CheckTypes DEF TypeOK, Restart, Free, NoReply
<1>9. CASE UNCHANGED vars
  BY <1>9, SameRequests DEF TypeOK, vars
<1>. QED
  <2>1. ASSUME NEW t \in Threads, Request(t) \/ RefuseUnapproved(t)
        PROVE  TypeOK'
    BY <1>1, <2>1 DEF Request, RefuseUnapproved
  <2>2. ASSUME NEW t \in Threads, LatestScan(t) \/ ReadEscapes(t) \/ RefuseRemediation(t)
        PROVE  TypeOK'
    <3>1. CASE LatestScan(t)
      <4>1. latest \in Nat
        BY DEF TypeOK
      <4>2. Answer(404, 0) \in [status : Nat, scan : Nat] /\ Answer(200, latest) \in [status : Nat, scan : Nat]
        BY <4>1 DEF Answer
      <4>. QED BY <1>2, <3>1, <4>2 DEF LatestScan, TypeOK, ghosts
    <3>2. CASE ReadEscapes(t)
      <4>1. PICK status \in Escaped(req[t]) : Finish(t, Answer(status, 0))
        BY <3>2 DEF ReadEscapes
      <4>2. Answer(status, 0) \in [status : Nat, scan : Nat]
        BY DEF Escaped, Answer
      <4>3. unseen' \subseteq Checks
        BY <3>2 DEF ReadEscapes, TypeOK
      <4>. QED BY <1>2, <3>2, <4>1, <4>2, <4>3 DEF ReadEscapes
    <3>3. CASE RefuseRemediation(t)
      <4>1. /\ Answer(409, 0) \in [status : Nat, scan : Nat]
            /\ Answer(422, 0) \in [status : Nat, scan : Nat]
        BY DEF Answer
      <4>2. /\ Finish(t, Answer(409, 0)) \/ Finish(t, Answer(422, 0))
            /\ UNCHANGED <<aws, changed, unseen, history, latest, created, req, acted, boundVars>>
        BY <3>3 DEF RefuseRemediation, ghosts
      <4>3. unseen' \subseteq Checks
        BY <4>2 DEF TypeOK
      <4>. QED BY <1>2, <4>1, <4>2, <4>3
    <3>. QED BY <2>2, <3>1, <3>2, <3>3
  <2>. QED BY <1>3, <1>4, <1>5, <1>6, <1>7, <1>8, <1>9, <2>1, <2>2 DEF Next, Serve
-----------------------------------------------------------------------------
(* The lock                                                                 *)

\* A thread that answers is the owner of the lock or finds it free, so no
\* other thread is in a critical section.
LEMMA FinishLeavesLockFree ==
    ASSUME TypeOK, LockDiscipline, NEW t \in Threads, NEW answer, Finish(t, answer),
           lock.owner \in {NoThread, t}, UNCHANGED req
    PROVE  LockDiscipline'
<1>1. \A u \in Threads \ {t} : lock.owner # u
  BY ThreadAssumption
<1>2. \A u \in Threads : pc'[u] \notin {"reading", "fixing"}
  BY <1>1 DEF TypeOK, LockDiscipline, Finish
<1>3. lock'.owner = NoThread /\ lock'.depth = 0
  BY DEF Finish, Free
<1>. QED BY <1>2, <1>3, ThreadAssumption DEF LockDiscipline

LEMMA LockStep ==
    TypeOK /\ LockDiscipline /\ FixesAreApproved /\ [Next]_vars => LockDiscipline'
<1> SUFFICES ASSUME TypeOK, LockDiscipline, FixesAreApproved, [Next]_vars
             PROVE  LockDiscipline'
  OBVIOUS
<1>1. ASSUME NEW t \in Threads, Request(t) \/ RefuseUnapproved(t)
      PROVE  LockDiscipline'
  <2>1. PICK r \in Requests :
           /\ pc[t] = "idle"
           /\ req' = [req EXCEPT ![t] = r]
           /\ lock' = lock
           /\ pc' = pc \/ pc' = [pc EXCEPT ![t] = "waiting"]
    BY <1>1 DEF Request, RefuseUnapproved, Arrive, agentVars
  <2>2. lock.owner # t
    BY <2>1 DEF LockDiscipline
  <2>3. \A u \in Threads : (lock'.owner = u) = (pc'[u] \in {"reading", "fixing"})
    BY <2>1 DEF LockDiscipline, TypeOK
  <2>4. lock.owner # NoThread => pc'[lock.owner] = pc[lock.owner] /\ req'[lock.owner] = req[lock.owner]
    BY <2>1, <2>2 DEF TypeOK
  <2>. QED BY <2>1, <2>3, <2>4 DEF LockDiscipline
<1>2. ASSUME NEW t \in Threads,
             LatestScan(t) \/ ReadEscapes(t) \/ FinishScan(t) \/ RefuseRemediation(t)
      PROVE  LockDiscipline'
  <2>1. lock.owner \in {NoThread, t}
    BY <1>2 DEF LatestScan, ReadEscapes, Reading, FinishScan, RefuseRemediation,
                CanAcquire, LockDiscipline
  <2>2. CASE LatestScan(t)
    BY <2>1, <2>2, FinishLeavesLockFree DEF LatestScan
  <2>3. CASE ReadEscapes(t)
    BY <2>1, <2>3, FinishLeavesLockFree DEF ReadEscapes
  <2>4. CASE FinishScan(t)
    BY <2>1, <2>4, FinishLeavesLockFree DEF FinishScan
  <2>5. CASE RefuseRemediation(t)
    BY <2>1, <2>5, FinishLeavesLockFree DEF RefuseRemediation
  <2>. QED BY <1>2, <2>2, <2>3, <2>4, <2>5
<1>3. ASSUME NEW t \in Threads, StartScan(t) \/ StartRemediation(t)
      PROVE  LockDiscipline'
  <2>1. /\ pc[t] = "waiting" /\ CanAcquire(t) /\ Acquire(t) /\ req' = req
        /\ \/ pc' = [pc EXCEPT ![t] = "reading"] /\ req[t].op = "scan"
           \/ pc' = [pc EXCEPT ![t] = "fixing"]
    BY <1>3 DEF StartScan, StartRemediation
  <2>2. lock.owner = NoThread /\ lock.depth = 0
    BY <2>1 DEF CanAcquire, LockDiscipline
  <2>3. lock'.owner = t /\ lock'.depth = 1
    BY <2>1, <2>2 DEF Acquire
  <2>4. \A u \in Threads : (u = t) = (pc'[u] \in {"reading", "fixing"})
    BY <2>1, <2>2, ThreadAssumption DEF LockDiscipline, TypeOK
  <2>5. ~ (pc'[t] = "reading" /\ req'[t].op = "remediate")
    BY <2>1 DEF TypeOK
  <2>. QED BY <2>3, <2>4, <2>5, ThreadAssumption DEF LockDiscipline
<1>4. ASSUME NEW t \in Threads, StartRescan(t)
      PROVE  LockDiscipline'
  <2>1. /\ pc[t] = "fixing" /\ Acquire(t) /\ req' = req
        /\ pc' = [pc EXCEPT ![t] = "reading"] /\ req[t].op = "remediate"
    BY <1>4 DEF StartRescan, FixesAreApproved
  <2>2. lock.owner = t /\ lock.depth = 1
    BY <2>1, ThreadAssumption DEF LockDiscipline
  <2>3. lock'.owner = t /\ lock'.depth = 2
    BY <2>1, <2>2 DEF Acquire
  <2>4. \A u \in Threads : (u = t) = (pc'[u] \in {"reading", "fixing"})
    BY <2>1, <2>2 DEF LockDiscipline, TypeOK
  <2>5. pc'[t] = "reading" /\ req'[t].op = "remediate"
    BY <2>1 DEF TypeOK
  <2>. QED BY <2>3, <2>4, <2>5, ThreadAssumption DEF LockDiscipline
<1>5. ASSUME UNCHANGED <<lock, pc, req>>
      PROVE  LockDiscipline'
  BY <1>5 DEF LockDiscipline
<1>6. CASE Restart
  BY <1>6, ThreadAssumption DEF Restart, Free, LockDiscipline
<1>. QED
  <2>1. ASSUME NEW t \in Threads, ReadCheck(t) \/ ApplyFix(t)
        PROVE  LockDiscipline'
    BY <1>5, <2>1 DEF ReadCheck, ApplyFix, agentVars
  <2>2. CASE Drift \/ UNCHANGED vars
    BY <1>5, <2>2 DEF Drift, vars, agentVars, localVars
  <2>. QED BY <1>1, <1>2, <1>3, <1>4, <1>6, <2>1, <2>2 DEF Next, Serve

-----------------------------------------------------------------------------
(* Gates and progress                                                       *)

\* Threads do not disturb each other's requests, and a thread that serves one
\* keeps it.
LEMMA RequestsKept ==
    ASSUME TypeOK, [Next]_vars, NEW t \in Threads, ~ Request(t), ~ RefuseUnapproved(t)
    PROVE  /\ req'[t] = req[t]
           /\ pc[t] = "idle" => pc'[t] = "idle"
<1>1. ASSUME NEW u \in Threads, u # t, Request(u) \/ RefuseUnapproved(u)
      PROVE  req'[t] = req[t] /\ pc'[t] = pc[t]
  BY <1>1 DEF Request, RefuseUnapproved, Arrive, TypeOK
<1>2. ASSUME NEW u \in Threads, Serve(u)
      PROVE  req'[t] = req[t] /\ (pc[t] = "idle" => pc'[t] = "idle")
  <2>1. req' = req
    BY <1>2 DEF Serve, LatestScan, StartScan, ReadCheck, ReadEscapes, FinishScan,
                StartRemediation, RefuseRemediation, ApplyFix, StartRescan
  <2>2. \E s \in {"idle", "reading", "fixing"} : pc' = pc \/ pc' = [pc EXCEPT ![u] = s]
    BY <1>2 DEF Serve, LatestScan, StartScan, ReadCheck, ReadEscapes, FinishScan,
                StartRemediation, RefuseRemediation, ApplyFix, StartRescan, Finish
  <2>3. pc[u] # "idle"
    BY <1>2 DEF Serve, LatestScan, StartScan, ReadCheck, ReadEscapes, Reading, FinishScan,
                StartRemediation, RefuseRemediation, ApplyFix, StartRescan
  <2>. QED BY <2>1, <2>2, <2>3 DEF TypeOK
<1>3. CASE Drift \/ UNCHANGED vars
  BY <1>3 DEF Drift, vars, localVars
<1>4. CASE Restart
  BY <1>4 DEF Restart
<1>. QED BY <1>1, <1>2, <1>3, <1>4 DEF Next

LEMMA GatesStep == TypeOK /\ GatesPassed /\ [Next]_vars => GatesPassed'
<1> SUFFICES ASSUME TypeOK, GatesPassed, [Next]_vars, NEW t \in Threads, pc'[t] # "idle"
             PROVE  GatesPass(req'[t])
  BY DEF GatesPassed, GatesPass
<1>1. CASE Request(t)
  BY <1>1 DEF Request, Arrive, TypeOK
<1>2. CASE RefuseUnapproved(t)
  BY <1>2 DEF RefuseUnapproved, Arrive
<1>3. CASE ~ Request(t) /\ ~ RefuseUnapproved(t)
  BY <1>3, RequestsKept DEF GatesPassed
<1>. QED BY <1>1, <1>2, <1>3

\* Every step but a read leaves what a scan has found so far, or starts afresh.
LEMMA ProgressStep == TypeOK /\ Progress /\ [Next]_vars => Progress'
<1> DEFINE Goal(t) ==
             /\ pc'[t] \in {"idle", "waiting"} => cursor'[t] = 1
             /\ pc'[t] = "reading" =>
                  \A i \in DOMAIN CheckOrder :
                     i < cursor'[t] => found'[t][CheckOrder[i]] \in Verdicts
<1> SUFFICES ASSUME TypeOK, Progress, [Next]_vars, NEW t \in Threads PROVE Goal(t)
  BY DEF Progress
<1> DEFINE Same == pc'[t] = pc[t] /\ cursor'[t] = cursor[t] /\ found'[t] = found[t]
<1>1. Same => Goal(t)
  BY DEF Progress
<1>2. ASSUME NEW u \in Threads, Request(u) \/ RefuseUnapproved(u)
      PROVE  \/ Same
             \/ cursor'[t] = cursor[t] /\ pc[t] = "idle" /\ pc'[t] = "waiting"
  BY <1>2 DEF Request, RefuseUnapproved, Arrive, TypeOK
<1>3. ASSUME NEW u \in Threads, NEW answer, Finish(u, answer)
      PROVE  Same \/ (pc'[t] = "idle" /\ cursor'[t] = 1)
  BY <1>3 DEF Finish, TypeOK
<1>4. ASSUME NEW u \in Threads, StartScan(u) \/ StartRemediation(u) \/ StartRescan(u)
      PROVE  \/ Same
             \/ /\ pc'[t] \in {"reading", "fixing"}
                /\ cursor'[t] = 1 \/ (pc[t] = "waiting" /\ cursor'[t] = cursor[t])
  BY <1>4 DEF StartScan, StartRemediation, StartRescan, TypeOK
<1>5. ASSUME NEW u \in Threads, ApplyFix(u)
      PROVE  Same \/ pc'[t] = "fixing"
  BY <1>5 DEF ApplyFix, TypeOK
<1>6. ASSUME NEW u \in Threads, ReadCheck(u)
      PROVE  \/ Same
             \/ /\ pc[t] = "reading" /\ pc'[t] = "reading"
                /\ cursor'[t] = cursor[t] + 1
                /\ \E v \in Verdicts :
                     found'[t] = [found[t] EXCEPT ![CheckOrder[cursor[t]]] = v]
  <2>1. PICK v \in Verdicts : found' = [found EXCEPT ![u][CheckOrder[cursor[u]]] = v]
    BY <1>6 DEF ReadCheck, Verdict, Verdicts
  <2>2. pc[u] = "reading" /\ pc' = pc /\ cursor' = [cursor EXCEPT ![u] = @ + 1]
    BY <1>6 DEF ReadCheck, Reading
  <2>. QED BY <2>1, <2>2 DEF TypeOK
<1>7. cursor'[t] = cursor[t] /\ pc[t] = "idle" /\ pc'[t] = "waiting" => Goal(t)
  BY DEF Progress
<1>8. pc'[t] \in {"reading", "fixing"} /\ cursor'[t] = 1 => Goal(t)
  BY CheckTypes
<1>9. pc[t] = "waiting" => cursor[t] = 1
  BY DEF Progress
<1>10. ASSUME NEW v \in Verdicts, pc[t] = "reading", pc'[t] = "reading",
              cursor'[t] = cursor[t] + 1,
              found'[t] = [found[t] EXCEPT ![CheckOrder[cursor[t]]] = v]
       PROVE  Goal(t)
  <2> SUFFICES ASSUME NEW i \in DOMAIN CheckOrder, i < cursor[t] + 1
               PROVE  found'[t][CheckOrder[i]] \in Verdicts
    BY <1>10
  <2>1. i \in Nat /\ cursor[t] \in Nat /\ CheckOrder[i] \in Checks /\ DOMAIN found[t] = Checks
    BY CheckTypes DEF TypeOK
  <2>2. CASE CheckOrder[i] = CheckOrder[cursor[t]]
    BY <1>10, <2>1, <2>2
  <2>3. CASE CheckOrder[i] # CheckOrder[cursor[t]]
    <3>1. i < cursor[t]
      BY <2>1, <2>3
    <3>2. found[t][CheckOrder[i]] \in Verdicts
      BY <1>10, <3>1 DEF Progress
    <3>. QED BY <1>10, <2>1, <2>3, <3>2
  <2>. QED BY <2>2, <2>3
<1>11. CASE Drift \/ UNCHANGED vars
  BY <1>1, <1>11 DEF Drift, vars, localVars
<1>12. CASE Restart
  BY <1>12 DEF Restart
<1>13. pc'[t] = "idle" /\ cursor'[t] = 1 => Goal(t)
  OBVIOUS
<1>14. pc'[t] = "fixing" => Goal(t)
  OBVIOUS
<1> HIDE DEF Goal, Same
<1>. QED
  <2>1. ASSUME NEW u \in Threads, LatestScan(u) \/ ReadEscapes(u) \/ FinishScan(u) \/ RefuseRemediation(u)
        PROVE  Goal(t)
    <3>1. \E answer : Finish(u, answer)
      BY <2>1 DEF LatestScan, ReadEscapes, FinishScan, RefuseRemediation
    <3>. QED BY <1>1, <1>3, <1>13, <3>1
  <2>2. ASSUME NEW u \in Threads, StartScan(u) \/ StartRemediation(u) \/ StartRescan(u)
        PROVE  Goal(t)
    BY <1>1, <1>4, <1>8, <1>9, <2>2
  <2>3. ASSUME NEW u \in Threads, ReadCheck(u)
        PROVE  Goal(t)
    BY <1>1, <1>6, <1>10, <2>3
  <2>4. ASSUME NEW u \in Threads, Request(u) \/ RefuseUnapproved(u)
        PROVE  Goal(t)
    BY <1>1, <1>2, <1>7, <2>4
  <2>5. ASSUME NEW u \in Threads, ApplyFix(u)
        PROVE  Goal(t)
    BY <1>1, <1>5, <1>14, <2>5
  <2>. QED BY <1>11, <1>12, <2>1, <2>2, <2>3, <2>4, <2>5 DEF Next, Serve

-----------------------------------------------------------------------------
(* The history                                                              *)

Scans == [id : Nat, findings : [Checks -> Verdicts \cup {"unread"}]]
NewScan(t) == [id |-> created + 1, findings |-> found[t]]

\* What the end of a scan does to the history.
LEMMA ScanStored ==
    ASSUME TypeOK, NEW t \in Threads, FinishScan(t)
    PROVE  /\ history' \in Seq(Scans) /\ Len(history) \in Nat
           /\ Len(history') \in 1..(Len(history) + 1) /\ Len(history') <= HistoryLimit
           /\ \A i \in 1..(Len(history') - 1) :
                /\ Len(history) + 1 - Len(history') + i \in 1..Len(history)
                /\ history'[i] = history[Len(history) + 1 - Len(history') + i]
           /\ history'[Len(history')] = NewScan(t)
<1> DEFINE n == Len(history)
           g == Append(history, NewScan(t))
<1>1. NewScan(t) \in Scans /\ history \in Seq(Scans)
  BY DEF TypeOK, Scans, NewScan
<1>2. /\ n \in Nat /\ g \in Seq(Scans) /\ Len(g) = n + 1 /\ g[n + 1] = NewScan(t)
      /\ \A j \in 1..n : g[j] = history[j]
  BY <1>1
<1>3. history' = Evict(g)
  BY DEF FinishScan, NewScan
<1> HIDE DEF g
<1>4. /\ Evict(g) \in Seq(Scans)
      /\ Len(Evict(g)) \in 1..(n + 1) /\ Len(Evict(g)) <= HistoryLimit
  BY <1>1, <1>2, StoreKeepsNewest
<1>5. ASSUME NEW i \in 1..(Len(Evict(g)) - 1)
      PROVE  /\ n + 1 - Len(Evict(g)) + i \in 1..n
             /\ Evict(g)[i] = history[n + 1 - Len(Evict(g)) + i]
  BY <1>1, <1>2, StoreKeepsNewest
<1>6. Evict(g)[Len(Evict(g))] = NewScan(t)
  BY <1>1, <1>2, StoreKeepsNewest
<1>. QED BY <1>2, <1>3, <1>4, <1>5, <1>6

\* The history only changes at the end of a scan and in a restart.
LEMMA HistoryKept ==
    ASSUME [Next]_vars, ~ Restart, \A t \in Threads : ~ FinishScan(t)
    PROVE  UNCHANGED <<history, latest, created>>
<1>1. ASSUME NEW t \in Threads, Request(t) \/ RefuseUnapproved(t) \/ (Serve(t) /\ ~ FinishScan(t))
      PROVE  UNCHANGED <<history, latest, created>>
  BY <1>1 DEF Request, RefuseUnapproved, Arrive, Serve, LatestScan, StartScan, ReadCheck,
       ReadEscapes, StartRemediation, RefuseRemediation, ApplyFix, StartRescan, agentVars
<1>2. CASE Drift \/ UNCHANGED vars
  BY <1>2 DEF Drift, vars, agentVars
<1>. QED BY <1>1, <1>2 DEF Next

LEMMA HistoryStep ==
    TypeOK /\ LatestIsNewest /\ HistoryIsNewestScans /\ [Next]_vars
       => LatestIsNewest' /\ HistoryIsNewestScans'
<1> SUFFICES ASSUME TypeOK, LatestIsNewest, HistoryIsNewestScans, [Next]_vars
             PROVE  LatestIsNewest' /\ HistoryIsNewestScans'
  OBVIOUS
<1>1. ASSUME NEW t \in Threads, FinishScan(t)
      PROVE  LatestIsNewest' /\ HistoryIsNewestScans'
  <2> DEFINE n == Len(history)
             k == Len(history')
  <2>1. created \in Nat /\ latest \in Nat /\ history \in Seq(Scans)
    BY DEF TypeOK, Scans
  <2>2. created' = created + 1 /\ latest' = created + 1
    BY <1>1 DEF FinishScan
  <2>3. /\ history' \in Seq(Scans) /\ n \in Nat
        /\ k \in 1..(n + 1) /\ k <= HistoryLimit
        /\ \A i \in 1..(k - 1) : /\ n + 1 - k + i \in 1..n
                                 /\ history'[i] = history[n + 1 - k + i]
        /\ history'[k].id = created + 1
    <3>1. history'[k] = NewScan(t)
      BY <1>1, ScanStored
    <3>2. history'[k].id = created + 1
      BY <3>1 DEF NewScan
    <3>. QED BY <1>1, <3>2, ScanStored
  <2>4. ASSUME NEW j \in 1..n
        PROVE  history[j].id = created - n + j /\ history[j].id \in 1..created
    <3>1. j \in DOMAIN history /\ history # <<>>
      BY <2>1, <2>3
    <3>2. latest = created
      BY <3>1 DEF LatestIsNewest, HistoryIsNewestScans
    <3>. QED BY <3>1, <3>2 DEF HistoryIsNewestScans
  <2>5. DOMAIN history' = 1..k /\ history' # <<>>
    BY <2>3
  <2> HIDE DEF n, k
  <2>6. ASSUME NEW i \in 1..k
        PROVE  /\ history'[i].id = created + 1 - k + i
               /\ history'[i].id \in 1..(created + 1)
    <3>1. CASE i = k
      BY <2>1, <2>3, <3>1
    <3>2. CASE i # k
      <4> DEFINE j == n + 1 - k + i
      <4>1. i \in 1..(k - 1) /\ k \in Nat
        BY <2>3, <3>2
      <4>2. j \in 1..n /\ history'[i] = history[j]
        BY <2>3, <4>1
      <4>3. history'[i].id = created - n + j /\ history'[i].id \in 1..created
        BY <2>4, <4>2
      <4>. QED BY <2>1, <2>3, <4>1, <4>3
    <3>. QED BY <3>1, <3>2
  <2>7. created + 1 # 0
    BY <2>1
  <2>8. LatestIsNewest'
    BY <2>2 DEF LatestIsNewest
  <2>9. ASSUME NEW i \in 1..k
        PROVE  /\ history'[i].id = latest' - k + i
               /\ history'[i].id \in 1..created'
    BY <2>1, <2>2, <2>3, <2>6
  <2>. QED BY <2>2, <2>3, <2>5, <2>7, <2>8, <2>9 DEF HistoryIsNewestScans, k
<1>2. CASE UNCHANGED <<history, latest, created>>
  BY <1>2 DEF LatestIsNewest, HistoryIsNewestScans
<1>3. CASE Restart
  BY <1>3, LimitAssumption DEF Restart, LatestIsNewest, HistoryIsNewestScans
<1>. QED BY <1>1, <1>2, <1>3, HistoryKept

\* A scan enters the history with a verdict for every check.
LEMMA CompleteStep == TypeOK /\ Progress /\ ScansAreComplete /\ [Next]_vars => ScansAreComplete'
<1> SUFFICES ASSUME TypeOK, Progress, ScansAreComplete, [Next]_vars PROVE ScansAreComplete'
  OBVIOUS
<1>1. ASSUME NEW t \in Threads, FinishScan(t)
      PROVE  ScansAreComplete'
  <2> DEFINE n == Len(history)
             k == Len(history')
  <2>1. /\ history' \in Seq(Scans) /\ n \in Nat
        /\ k \in 1..(n + 1) /\ k <= HistoryLimit
        /\ \A i \in 1..(k - 1) : /\ n + 1 - k + i \in 1..n
                                 /\ history'[i] = history[n + 1 - k + i]
        /\ history'[k].findings = found[t]
    <3>1. history'[k] = NewScan(t)
      BY <1>1, ScanStored
    <3>2. history'[k].findings = found[t]
      BY <3>1 DEF NewScan
    <3>. QED BY <1>1, <3>2, ScanStored
  <2>2. \A c \in Checks : found[t][c] \in Verdicts
    <3>1. pc[t] = "reading" /\ cursor[t] \notin DOMAIN CheckOrder /\ cursor[t] \in Nat \ {0}
      BY <1>1 DEF FinishScan, TypeOK
    <3>2. \A i \in DOMAIN CheckOrder : i < cursor[t]
      BY <3>1, CheckTypes
    <3>3. \A i \in DOMAIN CheckOrder : found[t][CheckOrder[i]] \in Verdicts
      BY <3>1, <3>2 DEF Progress
    <3>. QED BY <3>3 DEF Checks
  <2>3. DOMAIN history' = 1..k /\ DOMAIN history = 1..n
    BY <2>1 DEF TypeOK
  <2> HIDE DEF n, k
  <2>4. ASSUME NEW i \in 1..k, NEW c \in Checks
        PROVE  history'[i].findings[c] \in Verdicts
    <3>1. CASE i = k
      BY <2>1, <2>2, <3>1
    <3>2. CASE i # k
      <4>1. i \in 1..(k - 1)
        BY <2>1, <3>2
      <4>2. n + 1 - k + i \in DOMAIN history /\ history'[i] = history[n + 1 - k + i]
        BY <2>1, <2>3, <4>1
      <4>. QED BY <4>2 DEF ScansAreComplete
    <3>. QED BY <3>1, <3>2
  <2>. QED BY <2>3, <2>4 DEF ScansAreComplete
<1>2. CASE UNCHANGED history
  BY <1>2 DEF ScansAreComplete
<1>3. CASE Restart
  BY <1>3 DEF Restart, ScansAreComplete
<1>. QED BY <1>1, <1>2, <1>3, HistoryKept

-----------------------------------------------------------------------------
(* Approval                                                                 *)

\* While a thread holds the lock, the other threads change neither its local
\* variables nor the history.
LEMMA OwnerUndisturbed ==
    ASSUME TypeOK, LockDiscipline, [Next]_vars, ~ Restart,
           NEW t \in Threads, pc[t] = "fixing", ~ Serve(t)
    PROVE  /\ history' = history /\ req'[t] = req[t]
           /\ pc'[t] = pc[t] /\ cursor'[t] = cursor[t]
<1>1. lock.owner = t /\ CanAcquire(t)
  BY DEF LockDiscipline, CanAcquire
<1>2. ASSUME NEW u \in Threads, Request(u) \/ RefuseUnapproved(u)
      PROVE  history' = history /\ req'[t] = req[t] /\ pc'[t] = pc[t] /\ cursor'[t] = cursor[t]
  BY <1>2 DEF Request, RefuseUnapproved, Arrive, agentVars, TypeOK
<1>3. ASSUME NEW u \in Threads \ {t}, Serve(u)
      PROVE  FALSE
  <2>1. ~ CanAcquire(u) /\ pc[u] \notin {"reading", "fixing"}
    BY <1>1, ThreadAssumption DEF CanAcquire, LockDiscipline
  <2>. QED BY <1>3, <2>1 DEF Serve, LatestScan, StartScan, ReadCheck, ReadEscapes, Reading,
                FinishScan, StartRemediation, RefuseRemediation, ApplyFix, StartRescan
<1>4. CASE Drift \/ UNCHANGED vars
  BY <1>4 DEF Drift, vars, agentVars, localVars
<1>. QED BY <1>2, <1>3, <1>4 DEF Next

LEMMA ApprovedStep ==
    TypeOK /\ LockDiscipline /\ GatesPassed /\ FixesAreApproved /\ [Next]_vars
       => FixesAreApproved'
<1> SUFFICES ASSUME TypeOK, LockDiscipline, GatesPassed, FixesAreApproved, [Next]_vars,
                    NEW t \in Threads, pc'[t] = "fixing"
             PROVE  /\ AllowRemediation
                    /\ req'[t].op = "remediate" /\ req'[t].confirmed
                    /\ \E i \in Retained(req[t].scan)' :
                         \A k \in Pending(t)' : Actionable(req[t].ids[k], history[i].findings)'
  BY DEF FixesAreApproved
<1>1. CASE StartRemediation(t)
  <2>1. /\ pc[t] = "waiting" /\ req[t].op = "remediate"
        /\ UNCHANGED <<history, req, cursor>>
    BY <1>1 DEF StartRemediation
  <2>2. PICK i \in Retained(req[t].scan) :
           \A k \in DOMAIN req[t].ids : Actionable(req[t].ids[k], history[i].findings)
    BY <1>1 DEF StartRemediation
  <2>3. AllowRemediation /\ req[t].confirmed
    BY <2>1 DEF GatesPassed, GatesPass
  <2>. QED BY <2>1, <2>2, <2>3 DEF Retained, Pending, Actionable
<1>2. CASE ApplyFix(t)
  <2>1. /\ pc[t] = "fixing"
        /\ UNCHANGED <<history, req>>
    BY <1>2 DEF ApplyFix, agentVars
  <2>2. PICK k \in Pending(t) : cursor' = [cursor EXCEPT ![t] = k + 1]
    BY <1>2 DEF ApplyFix
  <2>3. Pending(t)' \subseteq Pending(t)
    <3>1. cursor'[t] = k + 1 /\ k >= cursor[t]
      BY <2>2 DEF TypeOK, Pending
    <3>2. DOMAIN req[t].ids \subseteq Nat /\ cursor[t] \in Nat
      BY <2>1, RequestIds DEF FixesAreApproved, TypeOK
    <3>3. k \in DOMAIN req[t].ids
      BY DEF Pending
    <3>4. \A m \in DOMAIN req[t].ids : m >= cursor'[t] => m >= cursor[t]
      BY <3>1, <3>2, <3>3
    <3>. QED BY <2>1, <3>4 DEF Pending
  <2>. QED BY <2>1, <2>3 DEF FixesAreApproved, Retained, Actionable
<1>3. CASE Serve(t) /\ ~ StartRemediation(t) /\ ~ ApplyFix(t)
  <2>1. \E s \in {"idle", "reading"} : pc' = [pc EXCEPT ![t] = s] \/ (pc' = pc /\ pc[t] = "reading")
    BY <1>3 DEF Serve, LatestScan, StartScan, ReadCheck, ReadEscapes, Reading, FinishScan,
                RefuseRemediation, StartRescan, Finish
  <2>. QED BY <2>1 DEF TypeOK
<1>4. CASE ~ Serve(t) /\ ~ Restart
  <2>1. pc[t] = "fixing"
    <3>1. ASSUME NEW u \in Threads, Request(u) \/ RefuseUnapproved(u)
          PROVE  pc'[t] = pc[t] \/ pc'[t] = "waiting"
      BY <3>1 DEF Request, RefuseUnapproved, TypeOK
    <3>2. ASSUME NEW u \in Threads \ {t}, Serve(u)
          PROVE  pc'[t] = pc[t]
      <4>1. \E s \in {"idle", "reading", "fixing"} : pc' = pc \/ pc' = [pc EXCEPT ![u] = s]
        BY <3>2 DEF Serve, LatestScan, StartScan, ReadCheck, ReadEscapes, FinishScan,
                    StartRemediation, RefuseRemediation, ApplyFix, StartRescan, Finish
      <4>. QED BY <4>1 DEF TypeOK
    <3>3. CASE Drift \/ UNCHANGED vars
      BY <3>3 DEF Drift, vars, localVars
    <3>. QED BY <1>4, <3>1, <3>2, <3>3 DEF Next
  <2>2. UNCHANGED <<history, req[t], pc[t], cursor[t]>>
    BY <1>4, <2>1, OwnerUndisturbed
  <2>. QED BY <2>1, <2>2 DEF FixesAreApproved, Retained, Pending, Actionable
<1>5. CASE Restart
  BY <1>5 DEF Restart
<1>. QED BY <1>1, <1>2, <1>3, <1>4, <1>5

-----------------------------------------------------------------------------
(* The theorems                                                             *)

LEMMA InvInit == Init => Inv
<1> SUFFICES ASSUME Init PROVE Inv
  OBVIOUS
<1>1. TypeOK
  BY CheckTypes DEF Init, TypeOK, Free, NoReply, Requests
<1>2. LockDiscipline /\ FixesAreApproved /\ GatesPassed /\ Progress
  BY ThreadAssumption DEF Init, LockDiscipline, FixesAreApproved, GatesPassed, Progress, Free
<1>3. LatestIsNewest /\ HistoryIsNewestScans /\ ScansAreComplete
  BY LimitAssumption DEF Init, LatestIsNewest, HistoryIsNewestScans, ScansAreComplete
<1>. QED BY <1>1, <1>2, <1>3 DEF Inv

\* Every reachable state satisfies the inductive invariant.
THEOREM Invariance == Spec => []Inv
<1>1. Init => Inv
  BY InvInit
<1>2. Inv /\ [Next]_vars => Inv'
  BY TypeStep, LockStep, GatesStep, ProgressStep, HistoryStep, CompleteStep, ApprovedStep DEF Inv
<1>. QED BY <1>1, <1>2, PTL DEF Spec

\* The variables keep their types.
THEOREM TypeCorrectness == Spec => []TypeOK
  BY Invariance, PTL DEF Inv

\* The lock of the agent excludes: at most one thread scans or fixes, and it
\* holds the lock twice exactly in the scan a remediation ends with.
THEOREM MutualExclusion == Spec => []LockDiscipline
  BY Invariance, PTL DEF Inv

\* The history is the newest scans of the process, at most HistoryLimit of
\* them, and the latest scan is one of them.
THEOREM HistoryCorrectness == Spec => []HistoryIsNewestScans
  BY Invariance, PTL DEF Inv

\* A scan that can be named in a request has a verdict for every check.
THEOREM ScanCompleteness == Spec => []ScansAreComplete
  BY Invariance, PTL DEF Inv

\* Fixes are under way only for findings that are approved and retained.
THEOREM FixApproval == Spec => []FixesAreApproved
  BY Invariance, PTL DEF Inv

\* Only an approved fix changes AWS.
THEOREM OnlyApprovedChanges == Spec => AgentChangesOnlyApproved
<1> DEFINE Approved == \A c \in Checks : aws'[c] # aws[c] /\ localVars' # localVars =>
                          \E t \in Threads :
                             /\ pc[t] = "fixing"
                             /\ \E i \in Retained(req[t].scan) : history[i].findings[c] = "fail"
                             /\ \E k \in DOMAIN req[t].ids : req[t].ids[k] = c
<1>1. ASSUME Inv, Next PROVE Approved
  <2>1. ASSUME NEW t \in Threads, ApplyFix(t)
        PROVE  Approved
    <3>1. PICK k \in Pending(t) : aws' = aws \/ aws' = [aws EXCEPT ![req[t].ids[k]] = "baseline"]
      BY <2>1 DEF ApplyFix
    <3>2. pc[t] = "fixing" /\ k \in DOMAIN req[t].ids
      BY <2>1 DEF ApplyFix, Pending
    <3>3. \E i \in Retained(req[t].scan) : history[i].findings[req[t].ids[k]] = "fail"
      BY <1>1, <3>2 DEF Inv, FixesAreApproved, Actionable
    <3>4. \A c \in Checks : aws'[c] # aws[c] => c = req[t].ids[k]
      BY <1>1, <3>1 DEF Inv, TypeOK
    <3>. QED BY <3>2, <3>3, <3>4
  <2>2. CASE Drift
    BY <2>2 DEF Drift
  <2>3. ASSUME NEW t \in Threads, Request(t) \/ RefuseUnapproved(t) \/ (Serve(t) /\ ~ ApplyFix(t))
        PROVE  aws' = aws
    BY <2>3 DEF Request, RefuseUnapproved, Arrive, Serve, LatestScan, StartScan, ReadCheck,
         ReadEscapes, FinishScan, StartRemediation, RefuseRemediation, StartRescan
  <2>4. CASE Restart
    BY <2>4 DEF Restart
  <2>. QED BY <1>1, <2>1, <2>2, <2>3, <2>4 DEF Next
<1>2. Inv /\ [Next]_vars => [Approved]_vars
  BY <1>1
<1>. QED BY <1>2, Invariance, PTL DEF Spec, AgentChangesOnlyApproved

-----------------------------------------------------------------------------
(* What the findings tell of AWS                                            *)

\* What a verdict says of the setting, as long as nobody changes it.
Bears(verdict, setting) ==
    /\ verdict = "fail" => setting # "custom"
    /\ verdict = "pass" => setting # "insecure"

\* A scan that was retained after the last change of a control from outside, or
\* has read the control since, bears out its setting.
FindingsHold ==
    \A c \in Checks :
        /\ \A i \in DOMAIN history :
             history[i].id > changed[c] => Bears(history[i].findings[c], aws[c])
        /\ \A t \in Threads : changed[c] <= created => Bears(found[t][c], aws[c])

\* Nothing is fixed beside a scan: what it found failing still fails.
ScansAreFresh ==
    \A t \in Threads :
        /\ pc[t] # "reading" => found[t] = Unread
        /\ \A c \in Checks :
             changed[c] <= created /\ found[t][c] = "fail" => aws[c] = "insecure"

Remediating(t) == pc[t] = "fixing" \/ (pc[t] = "reading" /\ req[t].op = "remediate")

\* A remediation under way has touched the control.
Touched(c) == \E t \in Threads : Remediating(t) /\ acted[t][c] # "none"

\* Only a remediation makes the latest scan stale, until the scan it ends with.
LatestHolds ==
    \A i \in Retained(latest) : \A c \in Checks :
        history[i].id > changed[c] /\ history[i].findings[c] = "fail" =>
            aws[c] = "insecure" \/ c \in unseen \/ Touched(c)

Truth == FindingsHold /\ ScansAreFresh /\ LatestHolds

\* A step that neither reads nor stores a finding, and changes no control.
Quiet ==
    /\ UNCHANGED <<aws, changed, created, history, latest>>
    /\ \A t \in Threads : found'[t] \in {found[t], Unread}

LEMMA QuietOtherwise ==
    ASSUME TypeOK, [Next]_vars, ~ Drift, ~ Restart,
           \A t \in Threads : ~ ReadCheck(t) /\ ~ FinishScan(t) /\ ~ ApplyFix(t)
    PROVE  Quiet
<1>1. ASSUME NEW t \in Threads, NEW answer, Finish(t, answer)
      PROVE  \A u \in Threads : found'[u] \in {found[u], Unread}
  BY <1>1 DEF Finish, TypeOK
<1>2. ASSUME NEW t \in Threads, LatestScan(t) \/ ReadEscapes(t) \/ RefuseRemediation(t)
      PROVE  Quiet
  BY <1>1, <1>2 DEF LatestScan, ReadEscapes, RefuseRemediation, Quiet, ghosts
<1>3. ASSUME NEW t \in Threads,
             \/ Request(t) \/ RefuseUnapproved(t)
             \/ StartScan(t) \/ StartRemediation(t) \/ StartRescan(t)
      PROVE  Quiet
  BY <1>3 DEF Request, RefuseUnapproved, Arrive, StartScan, StartRemediation, StartRescan,
       agentVars, ghosts, Quiet
<1>4. CASE UNCHANGED vars
  BY <1>4 DEF vars, Quiet
<1>. QED BY <1>2, <1>3, <1>4 DEF Next, Serve

\* A finding that is read is the verdict on the control, or none, and takes in
\* the changes so far.
LEMMA FindingRead ==
    ASSUME TypeOK, NEW t \in Threads, ReadCheck(t)
    PROVE  /\ pc[t] = "reading" /\ UNCHANGED <<aws, unseen, created, history, latest, pc, req, acted>>
           /\ \A u \in Threads : u # t => found'[u] = found[u]
           /\ \A c \in Checks :
                \/ found'[t][c] = found[t][c] /\ changed'[c] = changed[c]
                \/ found'[t][c] \in {Verdict(c), "error"}
           /\ \A c \in Checks : changed'[c] = changed[c] \/ (changed'[c] = created /\ changed[c] > created)
<1> DEFINE d == CheckOrder[cursor[t]]
<1>1. PICK v \in {Verdict(d), "error"} : found' = [found EXCEPT ![t][d] = v]
  BY DEF ReadCheck
<1>2. d \in Checks
  BY CheckTypes DEF ReadCheck, Reading
<1>3. Seen(d)
  BY DEF ReadCheck
<1> HIDE DEF d
<1>4. /\ \A u \in Threads : u # t => found'[u] = found[u]
      /\ \A c \in Checks : found'[t][c] = IF c = d THEN v ELSE found[t][c]
  BY <1>1, <1>2 DEF TypeOK
<1>5. \A c \in Checks : c # d => changed'[c] = changed[c]
  BY <1>3 DEF Seen, TypeOK
<1>6. changed'[d] = IF changed[d] > created THEN created ELSE changed[d]
  BY <1>2, <1>3 DEF Seen, TypeOK
<1>. QED BY <1>1, <1>4, <1>5, <1>6 DEF ReadCheck, Reading, agentVars

\* What a fix changes becomes the baseline and is noted, and nobody is scanning
\* meanwhile.
LEMMA FixApplied ==
    ASSUME TypeOK, LockDiscipline, NEW t \in Threads, ApplyFix(t)
    PROVE  /\ UNCHANGED <<changed, unseen, created, history, latest, found, pc, req>>
           /\ Remediating(t)
           /\ \A c \in Checks : \/ aws'[c] = aws[c]
                                \/ aws'[c] = "baseline" /\ acted'[t][c] # "none"
           /\ \A u \in Threads, c \in Checks :
                acted'[u][c] # acted[u][c] => acted'[u][c] # "none"
           /\ \A u \in Threads : pc[u] # "reading"
<1>1. pc[t] = "fixing" /\ UNCHANGED <<changed, unseen, created, history, latest, found, pc, req>>
  BY DEF ApplyFix, agentVars, ghosts
<1>2. PICK d : \E o \in {"applied", "failed"} :
        /\ aws' = aws \/ aws' = [aws EXCEPT ![d] = "baseline"]
        /\ acted' = [acted EXCEPT ![t][d] = o]
  <2>1. PICK k \in Pending(t), took \in BOOLEAN, answered \in BOOLEAN :
          /\ aws' = IF took THEN [aws EXCEPT ![req[t].ids[k]] = "baseline"] ELSE aws
          /\ acted' = [acted EXCEPT ![t][req[t].ids[k]] =
                          IF answered THEN "applied" ELSE "failed"]
    BY DEF ApplyFix
  <2>2. (IF answered THEN "applied" ELSE "failed") \in {"applied", "failed"}
    OBVIOUS
  <2>. QED BY <2>1, <2>2
<1>. PICK o \in {"applied", "failed"} :
        /\ aws' = aws \/ aws' = [aws EXCEPT ![d] = "baseline"]
        /\ acted' = [acted EXCEPT ![t][d] = o]
  BY <1>2
<1>3. \A c \in Checks : aws'[c] = aws[c] \/ (c = d /\ aws'[c] = "baseline")
  BY <1>2 DEF TypeOK
<1>4. \A u \in Threads, c \in Checks :
         acted'[u][c] = IF u = t /\ c = d THEN o ELSE acted[u][c]
  BY <1>2 DEF TypeOK
<1>5. \A u \in Threads : pc[u] # "reading"
  BY <1>1 DEF LockDiscipline
<1>. QED BY <1>1, <1>2, <1>3, <1>4, <1>5 DEF Remediating

LEMMA Drifts ==
    ASSUME TypeOK, Drift
    PROVE  /\ UNCHANGED <<unseen, created, history, latest, found, pc, req, acted>>
           /\ \A c \in Checks : \/ changed'[c] = changed[c] /\ aws'[c] = aws[c]
                                \/ changed'[c] = created + 1
<1>1. PICK d \in Driftable, s \in Settings :
        aws' = [aws EXCEPT ![d] = s] /\ changed' = [changed EXCEPT ![d] = created + 1]
  BY DEF Drift
<1>2. \A c \in Checks : \/ changed'[c] = changed[c] /\ aws'[c] = aws[c]
                        \/ changed'[c] = created + 1
  BY <1>1 DEF TypeOK
<1>. QED BY <1>2 DEF Drift, agentVars, localVars

LEMMA Restarts ==
    ASSUME Restart
    PROVE  /\ history' = <<>> /\ UNCHANGED <<changed, created>>
           /\ \A t \in Threads : found'[t] = Unread
BY DEF Restart

LEMMA UnreadTellsNothing == \A c \in Checks : Unread[c] \notin {"fail", "pass"}
BY DEF Unread

\* The scans after a new one has been stored: each is an old one or is it.
LEMMA StoredFindings ==
    ASSUME Inv, Inv', NEW t \in Threads, FinishScan(t)
    PROVE  /\ UNCHANGED <<aws, changed, req>> /\ pc[t] = "reading" /\ created' = created + 1
           /\ found'[t] = Unread /\ \A u \in Threads : u # t => found'[u] = found[u]
           /\ \A i \in DOMAIN history' :
                \/ history'[i].findings = found[t] /\ history'[i].id = created + 1
                \/ \E j \in DOMAIN history : history'[i] = history[j]
           /\ history'[Len(history')].findings = found[t]
<1>1. /\ UNCHANGED <<aws, changed, req>> /\ pc[t] = "reading" /\ created' = created + 1
      /\ found'[t] = Unread /\ \A u \in Threads : u # t => found'[u] = found[u]
  BY DEF FinishScan, Finish, Inv, TypeOK
<1>2. history'[Len(history')].findings = found[t] /\ history'[Len(history')].id = created + 1
  <2>1. history'[Len(history')] = NewScan(t)
    BY ScanStored DEF Inv
  <2>. QED BY <2>1 DEF NewScan
<1>3. DOMAIN history' = 1..Len(history') /\ DOMAIN history = 1..Len(history)
  BY ScanStored DEF Inv, TypeOK
<1>4. ASSUME NEW i \in DOMAIN history', i # Len(history')
      PROVE  \E j \in DOMAIN history : history'[i] = history[j]
  <2>1. i \in 1..(Len(history') - 1)
    BY <1>3, <1>4, ScanStored DEF Inv
  <2>. QED BY <1>3, <2>1, ScanStored DEF Inv
<1>. QED BY <1>1, <1>2, <1>4

\* Who is not scanning has read nothing.
LEMMA OthersHaveReadNothing ==
    ASSUME Inv, ScansAreFresh, NEW t \in Threads, pc[t] \in {"reading", "fixing"},
           NEW u \in Threads, u # t
    PROVE  found[u] = Unread
<1>1. pc[u] # "reading"
  BY DEF Inv, LockDiscipline
<1>. QED BY <1>1 DEF ScansAreFresh

LEMMA Numbers ==
    ASSUME Inv
    PROVE  /\ created \in Nat /\ \A c \in Checks : changed[c] \in Nat
           /\ \A i \in DOMAIN history : history[i].id \in 1..created
BY DEF Inv, TypeOK, HistoryIsNewestScans

LEMMA FindingsStep ==
    Inv /\ Inv' /\ FindingsHold /\ ScansAreFresh /\ [Next]_vars => FindingsHold'
<1> SUFFICES ASSUME Inv, Inv', FindingsHold, ScansAreFresh, [Next]_vars, NEW c \in Checks
             PROVE  /\ \A i \in DOMAIN history' :
                         history'[i].id > changed'[c] => Bears(history'[i].findings[c], aws'[c])
                    /\ \A t \in Threads :
                         changed'[c] <= created' => Bears(found'[t][c], aws'[c])
  BY DEF FindingsHold, Bears
<1> DEFINE Goal == /\ \A i \in DOMAIN history' :
                        history'[i].id > changed'[c] => Bears(history'[i].findings[c], aws'[c])
                   /\ \A t \in Threads :
                        changed'[c] <= created' => Bears(found'[t][c], aws'[c])
<1>0. \A a : Bears(Unread[c], a)
  BY UnreadTellsNothing DEF Bears
<1>1. CASE Quiet
  BY <1>0, <1>1 DEF Quiet, FindingsHold
<1>2. ASSUME NEW t \in Threads, ReadCheck(t)
      PROVE  Goal
  <2>1. /\ pc[t] = "reading" /\ UNCHANGED <<aws, created, history>>
        /\ changed'[c] = changed[c] \/ (changed'[c] = created /\ changed[c] > created)
    BY <1>2, FindingRead DEF Inv
  <2>2. ASSUME NEW i \in DOMAIN history', history'[i].id > changed'[c]
        PROVE  Bears(history'[i].findings[c], aws'[c])
    BY <2>1, <2>2, Numbers DEF FindingsHold
  <2>3. ASSUME NEW u \in Threads, u # t PROVE Bears(found'[u][c], aws'[c])
    BY <1>0, <1>2, <2>1, <2>3, FindingRead, OthersHaveReadNothing DEF Inv
  <2>4. ASSUME changed'[c] <= created' PROVE Bears(found'[t][c], aws'[c])
    <3>1. CASE found'[t][c] = found[t][c] /\ changed'[c] = changed[c]
      BY <2>1, <2>4, <3>1 DEF FindingsHold
    <3>2. CASE found'[t][c] \in {Verdict(c), "error"}
      BY <2>1, <3>2 DEF Bears, Verdict
    <3>. QED BY <1>2, <3>1, <3>2, FindingRead DEF Inv
  <2>. QED BY <2>2, <2>3, <2>4
<1>3. ASSUME NEW t \in Threads, FinishScan(t)
      PROVE  Goal
  <2>1. UNCHANGED <<aws, changed>> /\ pc[t] = "reading"
    BY <1>3, StoredFindings
  <2>2. ASSUME NEW i \in DOMAIN history', history'[i].id > changed'[c]
        PROVE  Bears(history'[i].findings[c], aws'[c])
    <3>1. CASE history'[i].findings = found[t] /\ history'[i].id = created + 1
      <4>1. changed[c] <= created
        BY <2>1, <2>2, <3>1, Numbers
      <4>2. Bears(found[t][c], aws[c])
        BY <4>1 DEF FindingsHold
      <4>. QED BY <2>1, <3>1, <4>2
    <3>2. CASE \E j \in DOMAIN history : history'[i] = history[j]
      BY <2>1, <2>2, <3>2 DEF FindingsHold
    <3>. QED BY <1>3, <3>1, <3>2, StoredFindings
  <2>3. ASSUME NEW u \in Threads PROVE Bears(found'[u][c], aws'[c])
    <3>1. found'[u] = Unread
      BY <1>3, <2>1, StoredFindings, OthersHaveReadNothing
    <3>. QED BY <1>0, <3>1
  <2>. QED BY <2>2, <2>3
<1>4. ASSUME NEW t \in Threads, ApplyFix(t)
      PROVE  Goal
  <2>1. UNCHANGED <<changed, created, history, found>> /\ aws'[c] \in {aws[c], "baseline"}
    BY <1>4, FixApplied DEF Inv
  <2>2. \A v : Bears(v, aws[c]) => Bears(v, aws'[c])
    BY <2>1 DEF Bears
  <2>. QED BY <2>1, <2>2 DEF FindingsHold
<1>5. CASE Drift
  <2>1. UNCHANGED <<created, history, found>>
    BY <1>5, Drifts DEF Inv
  <2>2. CASE changed'[c] = changed[c] /\ aws'[c] = aws[c]
    BY <2>1, <2>2 DEF FindingsHold
  <2>3. CASE changed'[c] = created + 1
    BY <2>1, <2>3, Numbers
  <2>. QED BY <1>5, <2>2, <2>3, Drifts DEF Inv
<1>6. CASE Restart
  BY <1>0, <1>6, Restarts
<1>. QED BY <1>1, <1>2, <1>3, <1>4, <1>5, <1>6, QuietOtherwise DEF Inv

LEMMA FreshStep ==
    Inv /\ Inv' /\ ScansAreFresh /\ [Next]_vars => ScansAreFresh'
<1> SUFFICES ASSUME Inv, Inv', ScansAreFresh, [Next]_vars, NEW t \in Threads
             PROVE  /\ pc'[t] # "reading" => found'[t] = Unread
                    /\ \A c \in Checks : changed'[c] <= created' /\ found'[t][c] = "fail"
                                            => aws'[c] = "insecure"
  BY DEF ScansAreFresh
<1> USE DEF Inv
<1>1. pc'[t] # "reading" => found'[t] = Unread
  <2>1. pc[t] # "reading" => found[t] = Unread
    BY DEF ScansAreFresh
  <2>2. ASSUME NEW u \in Threads, NEW answer, Finish(u, answer)
        PROVE  pc'[t] # "reading" => found'[t] = Unread
    BY <2>1, <2>2 DEF Finish, TypeOK
  <2>3. ASSUME NEW u \in Threads,
               LatestScan(u) \/ ReadEscapes(u) \/ RefuseRemediation(u) \/ FinishScan(u)
        PROVE  pc'[t] # "reading" => found'[t] = Unread
    BY <2>2, <2>3 DEF LatestScan, ReadEscapes, RefuseRemediation, FinishScan
  <2>4. ASSUME NEW u \in Threads,
               \/ Request(u) \/ RefuseUnapproved(u)
               \/ StartScan(u) \/ StartRemediation(u) \/ StartRescan(u)
        PROVE  pc'[t] # "reading" => found'[t] = Unread
    <3>1. /\ found' = found /\ pc[u] # "reading"
          /\ \E there \in {"waiting", "reading", "fixing"} :
                pc' = pc \/ pc' = [pc EXCEPT ![u] = there]
      BY <2>4 DEF Request, RefuseUnapproved, Arrive, StartScan, StartRemediation, StartRescan
    <3>. QED BY <2>1, <3>1 DEF TypeOK
  <2>5. ASSUME NEW u \in Threads, ReadCheck(u)
        PROVE  pc'[t] # "reading" => found'[t] = Unread
    BY <2>1, <2>5, FindingRead
  <2>6. ASSUME NEW u \in Threads, ApplyFix(u)
        PROVE  pc'[t] # "reading" => found'[t] = Unread
    BY <2>1, <2>6, FixApplied
  <2>7. CASE Drift
    BY <2>1, <2>7, Drifts
  <2>8. CASE Restart
    BY <2>8, Restarts
  <2>9. CASE UNCHANGED vars
    BY <2>1, <2>9 DEF vars
  <2>. QED BY <2>3, <2>4, <2>5, <2>6, <2>7, <2>8, <2>9 DEF Next, Serve
<1>2. ASSUME NEW c \in Checks, changed'[c] <= created', found'[t][c] = "fail"
      PROVE  aws'[c] = "insecure"
  <2>1. CASE Quiet
    BY <1>2, <2>1, UnreadTellsNothing DEF Quiet, ScansAreFresh
  <2>2. ASSUME NEW u \in Threads, ReadCheck(u)
        PROVE  aws'[c] = "insecure"
    <3>1. pc[u] = "reading" /\ UNCHANGED <<aws, created>>
      BY <2>2, FindingRead
    <3>2. u = t
      BY <1>2, <2>2, <3>1, FindingRead, OthersHaveReadNothing, UnreadTellsNothing
    <3>3. CASE found'[t][c] = found[t][c] /\ changed'[c] = changed[c]
      BY <1>2, <3>1, <3>3 DEF ScansAreFresh
    <3>4. CASE found'[t][c] \in {Verdict(c), "error"}
      BY <1>2, <3>1, <3>4 DEF Verdict
    <3>. QED BY <2>2, <3>2, <3>3, <3>4, FindingRead
  <2>3. ASSUME NEW u \in Threads, FinishScan(u)
        PROVE  aws'[c] = "insecure"
    <3>1. found'[t] = Unread
      BY <2>3, StoredFindings, OthersHaveReadNothing
    <3>. QED BY <1>2, <3>1, UnreadTellsNothing
  <2>4. ASSUME NEW u \in Threads, ApplyFix(u)
        PROVE  aws'[c] = "insecure"
    <3>1. found'[t] = Unread
      BY <2>4, FixApplied DEF ScansAreFresh
    <3>. QED BY <1>2, <3>1, UnreadTellsNothing
  <2>5. CASE Drift
    <3>1. UNCHANGED <<created, found>>
      BY <2>5, Drifts
    <3>2. CASE changed'[c] = changed[c] /\ aws'[c] = aws[c]
      BY <1>2, <3>1, <3>2 DEF ScansAreFresh
    <3>3. CASE changed'[c] = created + 1
      BY <1>2, <3>1, <3>3, Numbers
    <3>. QED BY <2>5, <3>2, <3>3, Drifts
  <2>6. CASE Restart
    BY <1>2, <2>6, Restarts, UnreadTellsNothing
  <2>. QED BY <2>1, <2>2, <2>3, <2>4, <2>5, <2>6, QuietOtherwise
<1>. QED BY <1>1, <1>2

\* What a remediation under way has touched stays touched until its scan ends.
LEMMA TouchedUntilScanned ==
    ASSUME Inv, [Next]_vars, ~ Restart, \A t \in Threads : ~ FinishScan(t),
           NEW c \in Checks, Touched(c) \/ c \in unseen
    PROVE  Touched(c)' \/ c \in unseen'
<1> USE DEF Inv
<1>1. ASSUME c \in unseen PROVE c \in unseen'
  <2>1. ASSUME NEW t \in Threads, ReadEscapes(t) PROVE c \in unseen'
    BY <1>1, <2>1 DEF ReadEscapes
  <2>2. ASSUME NEW t \in Threads, ReadCheck(t) \/ ApplyFix(t) PROVE c \in unseen'
    BY <1>1, <2>2, FindingRead, FixApplied
  <2>3. CASE Drift \/ UNCHANGED vars
    BY <1>1, <2>3, Drifts DEF vars
  <2>4. ASSUME NEW t \in Threads,
               \/ Request(t) \/ RefuseUnapproved(t) \/ LatestScan(t) \/ RefuseRemediation(t)
               \/ StartScan(t) \/ StartRemediation(t) \/ StartRescan(t)
        PROVE  c \in unseen'
    BY <1>1, <2>4 DEF Request, RefuseUnapproved, Arrive, LatestScan, RefuseRemediation,
         StartScan, StartRemediation, StartRescan, ghosts
  <2>. QED BY <2>1, <2>2, <2>3, <2>4 DEF Next, Serve
<1>2. ASSUME NEW t \in Threads, Remediating(t), acted[t][c] # "none"
      PROVE  (Remediating(t)' /\ acted'[t][c] # "none") \/ c \in unseen'
  <2>1. pc[t] \in {"fixing", "reading"} /\ lock.owner = t
    BY <1>2 DEF Remediating, LockDiscipline
  <2>2. ASSUME NEW u \in Threads, Request(u) \/ RefuseUnapproved(u)
        PROVE  Remediating(t)' /\ acted'[t] = acted[t]
    <3>1. u # t
      BY <2>1, <2>2 DEF Request, RefuseUnapproved, Arrive
    <3>. QED BY <1>2, <2>2, <3>1 DEF Request, RefuseUnapproved, Arrive, TypeOK, Remediating
  <2>3. ASSUME NEW u \in Threads \ {t}, Serve(u)
        PROVE  FALSE
    <3>1. ~ CanAcquire(u) /\ pc[u] \notin {"reading", "fixing"}
      BY <2>1, ThreadAssumption DEF CanAcquire, LockDiscipline
    <3>. QED BY <2>3, <3>1 DEF Serve, LatestScan, StartScan, ReadCheck, ReadEscapes, Reading,
                  FinishScan, StartRemediation, RefuseRemediation, ApplyFix, StartRescan
  <2>4. CASE Serve(t)
    <3>1. CASE ReadCheck(t)
      BY <1>2, <3>1, FindingRead DEF Remediating
    <3>2. CASE ApplyFix(t)
      BY <1>2, <3>2, FixApplied DEF Remediating
    <3>3. CASE StartRescan(t)
      <4>1. pc'[t] = "reading" /\ UNCHANGED <<req, acted>> /\ pc[t] = "fixing"
        BY <3>3 DEF StartRescan, TypeOK
      <4>2. req[t].op = "remediate"
        BY <4>1 DEF FixesAreApproved
      <4>. QED BY <1>2, <4>1, <4>2 DEF Remediating
    <3>4. CASE ReadEscapes(t)
      BY <1>2, <3>4 DEF ReadEscapes
    <3>. QED BY <2>1, <2>4, <3>1, <3>2, <3>3, <3>4
           DEF Serve, LatestScan, StartScan, StartRemediation, RefuseRemediation
  <2>5. CASE Drift
    BY <1>2, <2>5, Drifts DEF Remediating
  <2>6. CASE UNCHANGED vars
    BY <1>2, <2>6 DEF vars, Remediating
  <2>. QED BY <1>2, <2>2, <2>3, <2>4, <2>5, <2>6 DEF Next
<1>. QED BY <1>1, <1>2 DEF Touched

LEMMA LatestStep ==
    Inv /\ Inv' /\ Truth /\ [Next]_vars => LatestHolds'
<1> SUFFICES ASSUME Inv, Inv', Truth, [Next]_vars,
                    NEW i \in DOMAIN history', history'[i].id = latest', NEW c \in Checks,
                    history'[i].id > changed'[c], history'[i].findings[c] = "fail"
             PROVE  aws'[c] = "insecure" \/ c \in unseen' \/ Touched(c)'
  BY DEF LatestHolds, Retained
<1> USE DEF Inv
<1>1. CASE \E t \in Threads : FinishScan(t)
  <2>1. PICK t \in Threads : FinishScan(t)
    BY <1>1
  <2>2. i = Len(history')
    <3>1. history'[i].id = latest' - Len(history') + i
      BY DEF HistoryIsNewestScans
    <3>2. latest' \in Nat /\ Len(history') \in Nat /\ i \in Nat
      <4>1. /\ latest' \in Nat
            /\ history' \in Seq([id : Nat, findings : [Checks -> Verdicts \cup {"unread"}]])
        BY DEF TypeOK
      <4>. QED BY <4>1
    <3>. QED BY <3>1, <3>2
  <2>3. /\ found[t][c] = "fail" /\ UNCHANGED <<aws, changed>> /\ created' = created + 1
        /\ latest' = created + 1
    BY <2>1, <2>2, StoredFindings DEF FinishScan
  <2>4. changed[c] <= created
    BY <2>3, Numbers
  <2>. QED BY <2>3, <2>4 DEF Truth, ScansAreFresh
<1>2. CASE Restart
  BY <1>2, Restarts
<1>3. CASE ~ Restart /\ \A t \in Threads : ~ FinishScan(t)
  <2>1. UNCHANGED <<history, latest>>
    BY <1>3, HistoryKept
  <2>2. i \in Retained(latest) /\ history[i].findings[c] = "fail" /\ history[i].id \in 1..created
    BY <2>1, Numbers DEF Retained
  <2>3. changed[c] \in Nat /\ created \in Nat
    BY Numbers
  <2>4. history[i].id > changed[c] /\ (aws'[c] = aws[c] \/ Touched(c)')
    <3>1. CASE \E t \in Threads : ApplyFix(t)
      <4>1. PICK t \in Threads : ApplyFix(t)
        BY <3>1
      <4>2. aws'[c] = aws[c] \/ acted'[t][c] # "none"
        BY <4>1, FixApplied
      <4>3. Remediating(t)' /\ changed' = changed
        BY <4>1, FixApplied DEF Remediating
      <4>. QED BY <2>1, <4>2, <4>3 DEF Touched
    <3>2. CASE Drift
      BY <2>1, <2>2, <2>3, <3>2, Drifts
    <3>3. CASE \E t \in Threads : ReadCheck(t)
      BY <2>1, <2>2, <2>3, <3>3, FindingRead
    <3>4. CASE ~ Drift /\ \A t \in Threads : ~ ApplyFix(t) /\ ~ ReadCheck(t)
      <4>1. Quiet
        BY <1>3, <3>4, QuietOtherwise
      <4>. QED BY <2>1, <4>1 DEF Quiet
    <3>. QED BY <3>1, <3>2, <3>3, <3>4
  <2>5. aws[c] = "insecure" \/ c \in unseen \/ Touched(c)
    BY <2>2, <2>4 DEF Truth, LatestHolds
  <2>. QED BY <1>3, <2>4, <2>5, TouchedUntilScanned
<1>. QED BY <1>1, <1>2, <1>3

\* What the findings tell of AWS holds in every reachable state.
THEOREM TruthInvariance == Spec => [](Inv /\ Truth)
<1>1. Init => Truth
  BY UnreadTellsNothing DEF Init, Truth, FindingsHold, Bears, ScansAreFresh, LatestHolds, Retained
<1>2. Inv /\ Inv' /\ Truth /\ [Next]_vars => Truth'
  BY FindingsStep, FreshStep, LatestStep DEF Truth
<1>. QED BY <1>1, <1>2, Invariance, PTL DEF Spec

\* The latest scan of an agent at rest tells what AWS has, the fixes of every
\* remediation included whose own scan came to its end, wherever nobody else
\* changed the control since (security_agent.py:136-211, 213-470).
THEOREM Freshness == Spec => []LatestIsFresh
<1>1. Inv /\ Truth => LatestIsFresh
  <2> SUFFICES ASSUME Inv, Truth, lock = Free,
                      NEW i \in Retained(latest), NEW c \in Checks, c \notin unseen,
                      history[i].id > changed[c], history[i].findings[c] \in {"pass", "fail"}
               PROVE  history[i].findings[c] = Verdict(c)
    BY DEF LatestIsFresh
  <2>1. \A t \in Threads : ~ Remediating(t)
    BY ThreadAssumption DEF Inv, LockDiscipline, Remediating, Free
  <2>2. i \in DOMAIN history
    BY DEF Retained
  <2>3. CASE history[i].findings[c] = "fail"
    BY <2>1, <2>3 DEF Truth, LatestHolds, Touched, Verdict
  <2>4. CASE history[i].findings[c] = "pass"
    BY <2>2, <2>4 DEF Truth, FindingsHold, Bears, Verdict
  <2>. QED BY <2>3, <2>4
<1>. QED BY <1>1, TruthInvariance, PTL

\* A fix never replaces a setting of a customer's own that was there when the
\* scan that its request names read the control (security_agent.py:136-211).
THEOREM CustomSettings == Spec => CustomSettingsKept
<1> DEFINE Late(c) == \E t \in Threads : pc[t] = "fixing" /\ req[t].scan <= changed[c]
           Kept == \A c \in Checks :
                      aws[c] = "custom" /\ aws'[c] # "custom" /\ localVars' # localVars => Late(c)
<1>1. ASSUME Inv, Truth, [Next]_vars, NEW c \in Checks,
             aws[c] = "custom", aws'[c] # "custom", localVars' # localVars
      PROVE  Late(c)
  <2>1. ASSUME NEW t \in Threads, ApplyFix(t)
        PROVE  Late(c)
    <3>1. PICK k \in Pending(t) : aws' = aws \/ aws' = [aws EXCEPT ![req[t].ids[k]] = "baseline"]
      BY <2>1 DEF ApplyFix
    <3>2. pc[t] = "fixing"
      BY <2>1 DEF ApplyFix
    <3>3. c = req[t].ids[k]
      BY <1>1, <3>1 DEF Inv, TypeOK
    <3>4. PICK i \in Retained(req[t].scan) : history[i].findings[c] = "fail"
      BY <1>1, <3>2, <3>3 DEF Inv, FixesAreApproved, Actionable
    <3>5. i \in DOMAIN history /\ history[i].id = req[t].scan
      BY DEF Retained
    <3>6. ~ (history[i].id > changed[c])
      BY <1>1, <3>4, <3>5 DEF Truth, FindingsHold, Bears
    <3>7. history[i].id \in Nat /\ changed[c] \in Nat
      BY <1>1, <3>5, Numbers
    <3>. QED BY <3>2, <3>5, <3>6, <3>7
  <2>2. CASE Drift
    BY <1>1, <2>2 DEF Drift
  <2>3. CASE ~ Drift /\ \A t \in Threads : ~ ApplyFix(t)
    <3>1. aws' = aws
      <4>1. ASSUME NEW t \in Threads, ReadCheck(t) \/ FinishScan(t)
            PROVE  aws' = aws
        BY <4>1 DEF ReadCheck, FinishScan
      <4>2. CASE Restart
        BY <4>2 DEF Restart
      <4>3. CASE Quiet
        BY <4>3 DEF Quiet
      <4>. QED BY <1>1, <2>3, <4>1, <4>2, <4>3, QuietOtherwise DEF Inv
    <3>. QED BY <1>1, <3>1
  <2>. QED BY <2>1, <2>2, <2>3
<1>2. Inv /\ Truth /\ [Next]_vars => [Kept]_vars
  BY <1>1
<1>. QED BY <1>2, TruthInvariance, PTL DEF Spec, CustomSettingsKept
-----------------------------------------------------------------------------
(* The agent does one job at a time.                                        *)

serial == <<aws, history, created, Job>>

\* A scan or a remediation under way is the job.
LEMMA HolderHasTheJob ==
    ASSUME Inv, NEW t \in Threads, pc[t] \in {"reading", "fixing"}
    PROVE  lock.owner = t /\ Job = JobOf(t)
<1>1. lock.owner = t /\ t # NoThread
  BY ThreadAssumption DEF Inv, LockDiscipline
<1>. QED BY <1>1 DEF Job

\* Who takes the lock for the first time finds no job.
LEMMA WaitingFindsNoJob ==
    ASSUME Inv, NEW t \in Threads, pc[t] = "waiting", CanAcquire(t)
    PROVE  lock.owner = NoThread /\ Job = Serial!Rest
<1>1. lock.owner = NoThread
  BY DEF Inv, LockDiscipline, CanAcquire
<1>. QED BY <1>1 DEF Job, Serial!Rest

LEMMA FinishEndsTheJob ==
    ASSUME NEW t, NEW answer, Finish(t, answer)
    PROVE  Job' = Serial!Rest
<1>1. lock'.owner = NoThread
  BY DEF Finish, Free
<1>. QED BY <1>1 DEF Job, Serial!Rest

LEMMA AcquireTakesTheJob ==
    ASSUME NEW t \in Threads, Acquire(t)
    PROVE  Job' = JobOf(t)'
<1>1. lock'.owner = t /\ t # NoThread
  BY ThreadAssumption DEF Acquire
<1>. QED BY <1>1 DEF Job

\* A request that arrives is none of the one under way.
LEMMA ArrivalsStutter ==
    ASSUME Inv, NEW t \in Threads, Request(t) \/ RefuseUnapproved(t)
    PROVE  UNCHANGED serial
<1>1. /\ pc[t] = "idle" /\ UNCHANGED <<aws, lock, history, created, cursor, found>>
      /\ \A u \in Threads : u # t => pc'[u] = pc[u] /\ req'[u] = req[u]
  BY DEF Inv, TypeOK, Request, RefuseUnapproved, Arrive, agentVars
<1>2. lock.owner \in Threads \cup {NoThread} /\ lock.owner # t
  BY <1>1, ThreadAssumption DEF Inv, TypeOK, LockDiscipline
<1>3. ASSUME NEW u \in Threads, u # t
      PROVE  JobOf(u)' = JobOf(u)
  <2>1. Pending(u)' = Pending(u)
    BY <1>1, <1>3 DEF Pending
  <2>2. Todo(u)' = Todo(u)
    BY <1>1, <1>3, <2>1 DEF Todo
  <2>. QED BY <1>1, <1>3, <2>2 DEF JobOf
<1>4. Job' = Job
  BY <1>1, <1>2, <1>3 DEF Job
<1>. QED BY <1>1, <1>4 DEF serial

\* Nor is a request that only looks, or is refused under the lock.
LEMMA LooksStutter ==
    ASSUME Inv, NEW t \in Threads, LatestScan(t) \/ RefuseRemediation(t)
    PROVE  UNCHANGED serial
<1>1. pc[t] = "waiting" /\ CanAcquire(t) /\ UNCHANGED <<aws, history, created>>
  BY DEF LatestScan, RefuseRemediation
<1>2. PICK answer : Finish(t, answer)
  BY DEF LatestScan, RefuseRemediation
<1>. QED BY <1>1, <1>2, WaitingFindsNoJob, FinishEndsTheJob DEF serial

LEMMA StartsBegin ==
    ASSUME Inv, Truth, NEW t \in Threads, StartScan(t) \/ StartRemediation(t) \/ StartRescan(t)
    PROVE  Serial!BeginScan \/ Serial!ScanAgain \/ \E F \in SUBSET Checks : Serial!BeginFixes(F)
<1>1. UNCHANGED <<aws, history, created, found>> /\ found[t] = Unread
  BY DEF StartScan, StartRemediation, StartRescan, Truth, ScansAreFresh
<1>2. Job' = JobOf(t)'
  BY AcquireTakesTheJob DEF StartScan, StartRemediation, StartRescan
<1>3. CASE StartScan(t)
  <2>1. Job = Serial!Rest
    BY <1>3, WaitingFindsNoJob DEF StartScan
  <2>2. pc'[t] = "reading"
    BY <1>3 DEF StartScan, Inv, TypeOK
  <2>3. Job' = [Serial!Rest EXCEPT !.at = "reading"]
    BY <1>1, <1>2, <2>2 DEF JobOf, Serial!Rest
  <2>4. Serial!BeginScan
    BY <1>1, <2>1, <2>3 DEF Serial!BeginScan, Serial!Begin
  <2>. QED BY <2>4
<1>4. CASE StartRescan(t)
  <2>1. pc[t] = "fixing" /\ Pending(t) = {} /\ pc'[t] = "reading"
    BY <1>4 DEF StartRescan, Inv, TypeOK
  <2>2. Job = JobOf(t)
    BY <2>1, HolderHasTheJob
  <2>3. Job.at = "fixing" /\ Job.todo = {}
    BY <2>1, <2>2 DEF JobOf, Todo
  <2>4. Job' = [Serial!Rest EXCEPT !.at = "reading"]
    BY <1>1, <1>2, <2>1 DEF JobOf, Serial!Rest
  <2>5. Serial!ScanAgain
    BY <1>1, <2>3, <2>4 DEF Serial!ScanAgain, Serial!Begin
  <2>. QED BY <2>5
<1>5. CASE StartRemediation(t)
  <2>1. Job = Serial!Rest
    BY <1>5, WaitingFindsNoJob DEF StartRemediation
  <2>2. pc'[t] = "fixing" /\ UNCHANGED <<req, cursor>>
    BY <1>5 DEF StartRemediation, Inv, TypeOK
  <2>3. Job' = [at |-> "fixing", found |-> Unread, todo |-> Todo(t)]
    <3>1. Todo(t)' = Todo(t)
      BY <2>2 DEF Todo, Pending
    <3>2. found'[t] = Unread
      BY <1>1
    <3>. QED BY <1>2, <2>2, <3>1, <3>2 DEF JobOf
  <2>4. PICK i \in DOMAIN history :
          \A k \in DOMAIN req[t].ids : Actionable(req[t].ids[k], history[i].findings)
    BY <1>5 DEF StartRemediation, Retained
  <2>5. Todo(t) \in SUBSET Checks /\ \A c \in Todo(t) : history[i].findings[c] = "fail"
    BY <2>4 DEF Todo, Pending, Actionable
  <2>6. Serial!BeginFixes(Todo(t))
    BY <1>1, <2>1, <2>3, <2>5 DEF Serial!BeginFixes, Serial!Begin
  <2>. QED BY <2>5, <2>6
<1>. QED BY <1>3, <1>4, <1>5

LEMMA ReadReads ==
    ASSUME Inv, NEW t \in Threads, ReadCheck(t)
    PROVE  \E c \in Checks : Serial!Read(c)
<1> DEFINE c == CheckOrder[cursor[t]]
<1>1. /\ pc[t] = "reading" /\ c \in Checks
      /\ UNCHANGED <<aws, lock, history, created, pc>>
  BY CheckTypes DEF ReadCheck, Reading, agentVars
<1>2. PICK v \in {Verdict(c), "error"} : found' = [found EXCEPT ![t][c] = v]
  BY DEF ReadCheck
<1>3. found'[t] = [found[t] EXCEPT ![c] = v]
  BY <1>2 DEF Inv, TypeOK
<1> HIDE DEF c
<1>4. lock.owner = t /\ Job = JobOf(t) /\ Job' = JobOf(t)'
  <2>1. lock.owner = t /\ Job = JobOf(t) /\ t # NoThread
    BY <1>1, HolderHasTheJob, ThreadAssumption
  <2>. QED BY <1>1, <2>1 DEF Job
<1>5. Job.at = "reading" /\ Job' = [Job EXCEPT !.found = [@ EXCEPT ![c] = v]]
  BY <1>1, <1>3, <1>4 DEF JobOf
<1>6. Serial!Read(c)
  BY <1>1, <1>2, <1>5 DEF Serial!Read, Serial!Begin, Verdict, Job, JobOf, Todo
<1>7. c \in Checks
  BY <1>1
<1>. QED BY <1>6, <1>7

LEMMA ScanEnds ==
    ASSUME Inv, NEW t \in Threads, ReadEscapes(t) \/ FinishScan(t)
    PROVE  Serial!GiveUp \/ Serial!Publish
<1>1. pc[t] = "reading" /\ UNCHANGED aws
  BY DEF ReadEscapes, Reading, FinishScan
<1>2. Job = JobOf(t)
  BY <1>1, HolderHasTheJob
<1>3. Job.at = "reading" /\ Job.found = found[t]
  BY <1>1, <1>2 DEF JobOf
<1>4. Job' = Serial!Rest
  BY FinishEndsTheJob DEF ReadEscapes, FinishScan
<1>5. CASE ReadEscapes(t)
  <2>1. UNCHANGED <<history, created>>
    BY <1>5 DEF ReadEscapes
  <2>. QED BY <1>1, <1>3, <1>4, <2>1 DEF Serial!GiveUp, Serial!Begin
<1>6. CASE FinishScan(t)
  <2>1. /\ created' = created + 1
        /\ history' = Evict(Append(history, [id |-> created', findings |-> found[t]]))
        /\ cursor[t] \notin DOMAIN CheckOrder /\ cursor[t] \in Nat \ {0}
    BY <1>6 DEF FinishScan, Inv, TypeOK
  <2>2. \A c \in Checks : Job.found[c] # "unread"
    <3>1. \A i \in DOMAIN CheckOrder : found[t][CheckOrder[i]] \in Verdicts
      BY <1>1, <2>1, CheckTypes DEF Inv, Progress
    <3>. QED BY <1>3, <3>1 DEF Checks, Verdicts
  <2>3. history' = Evict(Append(history, [id |-> created', findings |-> Job.found]))
    BY <1>3, <2>1
  <2>. QED BY <1>1, <1>3, <1>4, <2>1, <2>2, <2>3
           DEF Serial!Publish, Serial!Newest, Evict
<1>. QED BY <1>5, <1>6

\* The next fix is of the first position left, and its finding occurs at no other:
\* the set of fixes to make loses that one.
LEMMA FixFixes ==
    ASSUME Inv, NEW t \in Threads, ApplyFix(t)
    PROVE  \E c \in Checks : Serial!Fix(c)
<1>1. /\ pc[t] = "fixing" /\ UNCHANGED <<lock, history, created, pc, req, found>>
  BY DEF ApplyFix, agentVars
<1>2. PICK k \in Pending(t) :
        /\ \A j \in Pending(t) : k <= j
        /\ cursor' = [cursor EXCEPT ![t] = k + 1]
        /\ aws' \in {aws, [aws EXCEPT ![req[t].ids[k]] = "baseline"]}
  BY DEF ApplyFix
<1> DEFINE ids == req[t].ids
           c == ids[k]
<1>3. c \in Checks /\ c \in Todo(t)
  BY <1>1, <1>2 DEF Todo, Inv, FixesAreApproved, Actionable
<1>4. cursor'[t] = k + 1 /\ cursor[t] \in Nat \ {0} /\ DOMAIN ids \subseteq Nat \ {0}
  BY <1>1, <1>2, RequestIds DEF Inv, TypeOK, FixesAreApproved
<1>5. Todo(t)' = Todo(t) \ {c}
  <2>1. Pending(t)' =
          {j \in DOMAIN ids : j >= k + 1 /\ \A i \in 1..(j - 1) : ids[i] # ids[j]}
    BY <1>1, <1>4 DEF Pending
  <2>2. Pending(t) =
          {j \in DOMAIN ids : j >= cursor[t] /\ \A i \in 1..(j - 1) : ids[i] # ids[j]}
    BY DEF Pending
  <2> HIDE DEF ids
  <2>3. k \in Nat \ {0} /\ k >= cursor[t]
    BY <1>4, <2>2
  <2>4. ASSUME NEW j \in Pending(t)'
        PROVE  j \in Pending(t) /\ ids[j] # ids[k]
    <3>1. j \in DOMAIN ids /\ j \in Nat \ {0} /\ j >= k + 1
      BY <1>4, <2>1
    <3>2. k \in 1..(j - 1) /\ j >= cursor[t]
      BY <1>4, <2>3, <3>1
    <3>. QED BY <2>1, <2>2, <3>1, <3>2
  <2>5. ASSUME NEW j \in Pending(t), ids[j] # ids[k]
        PROVE  j \in Pending(t)'
    <3>1. j \in DOMAIN ids /\ j \in Nat \ {0} /\ k <= j /\ j # k
      BY <1>2, <1>4, <2>2, <2>5
    <3>2. j >= k + 1
      BY <2>3, <3>1
    <3>. QED BY <2>1, <2>2, <3>1, <3>2
  <2>6. Todo(t)' = {ids[j] : j \in Pending(t)'} /\ Todo(t) = {ids[j] : j \in Pending(t)}
    BY <1>1 DEF Todo, ids
  <2>. QED BY <2>4, <2>5, <2>6
<1>6. lock.owner = t /\ Job = JobOf(t) /\ Job' = JobOf(t)'
  <2>1. lock.owner = t /\ Job = JobOf(t) /\ t # NoThread
    BY <1>1, HolderHasTheJob, ThreadAssumption
  <2>. QED BY <1>1, <2>1 DEF Job
<1> HIDE DEF c
<1>7. Job.at = "fixing" /\ Job.todo = Todo(t) /\ Job' = [Job EXCEPT !.todo = @ \ {c}]
  BY <1>1, <1>5, <1>6 DEF JobOf
<1>8. aws' \in {aws, [aws EXCEPT ![c] = "baseline"]}
  BY <1>2 DEF c
<1>9. Serial!Fix(c)
  BY <1>1, <1>3, <1>7, <1>8 DEF Serial!Fix
<1>. QED BY <1>3, <1>9

LEMMA StepIsSerial ==
    ASSUME Inv, Truth, [Next]_vars
    PROVE  Serial!SerialNext \/ UNCHANGED serial
<1>1. ASSUME NEW t \in Threads, Serve(t)
      PROVE  Serial!SerialNext \/ UNCHANGED serial
  BY <1>1, LooksStutter, StartsBegin, ReadReads, ScanEnds, FixFixes DEF Serve, Serial!SerialNext
<1>2. CASE Drift
  <2>1. UNCHANGED <<lock, history, created, pc, req, cursor, found>>
    BY <1>2 DEF Drift, agentVars, localVars
  <2>2. Job' = Job
    BY <2>1 DEF Job, JobOf, Todo, Pending
  <2>3. \E c \in Driftable, s \in Settings : aws' = [aws EXCEPT ![c] = s]
    BY <1>2 DEF Drift
  <2>4. Serial!Changed
    BY <2>1, <2>2, <2>3 DEF Serial!Changed
  <2>. QED BY <2>4 DEF Serial!SerialNext
<1>3. CASE Restart
  <2>1. lock' = Free /\ history' = <<>> /\ UNCHANGED <<aws, created>>
    BY <1>3 DEF Restart
  <2>2. Job' = Serial!Rest
    BY <2>1 DEF Free, Job, Serial!Rest
  <2>3. Serial!Forgotten
    BY <2>1, <2>2 DEF Serial!Forgotten
  <2>. QED BY <2>3 DEF Serial!SerialNext
<1>4. CASE UNCHANGED vars
  BY <1>4 DEF vars, serial, Job, JobOf, Todo, Pending
<1>. QED BY <1>1, <1>2, <1>3, <1>4, ArrivalsStutter DEF Next

\* Every behaviour of the agent is one of an agent without threads, which does one job
\* after the other (security_agent.py:63-209).
THEOREM ImplementsSerialAgent == Spec => ImplementsSerial
<1>1. Init => Serial!SerialInit
  <2> SUFFICES ASSUME Init PROVE Serial!SerialInit
    OBVIOUS
  <2>1. Job = Serial!Rest
    BY DEF Init, Free, Job, Serial!Rest
  <2>. QED BY <2>1 DEF Init, Serial!SerialInit
<1>2. Inv /\ Truth /\ [Next]_vars => [Serial!SerialNext]_serial
  BY StepIsSerial
<1>. QED BY <1>1, <1>2, TruthInvariance, PTL DEF Spec, ImplementsSerial, Serial!SerialSpec, serial
=============================================================================
