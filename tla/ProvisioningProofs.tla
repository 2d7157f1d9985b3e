------------------------- MODULE ProvisioningProofs -------------------------
(***************************************************************************)
(* What holds of the provisioning, whatever the tables are and in whatever *)
(* order they come, and of the image workflow, whose topic and function it *)
(* creates, for any number of requests and attempts of Invoke.             *)
(***************************************************************************)
EXTENDS Provisioning, ImageWorkflow, SequenceTheorems, TLAPS

\* Who makes a walk: the start, or the reconcile loop, whose thread may outlive it.
WalkersAreKnown ==
    /\ step > 0 => /\ last = "none"
                   /\ \/ server = "starting"
                      \/ server = "serving" /\ loop = "passing"
                      \/ server = "stopping" /\ loop = "cancelled"
    /\ server = "starting" => step > 0
    /\ server \in {"down", "waiting", "starting"} => loop = "none"
    /\ step = 0 => loop # "passing"
    /\ loop = "passing" => server = "serving"
    /\ loop = "cancelled" => server = "stopping"

\* In provision mode the loop is there as long as the server serves.
LoopGoesOn ==
    mode = "provision" /\ server = "serving" => loop \in {"sleeping", "passing"}

\* Nobody reconciles in validate mode: a server that serves has been validated.
ValidatedOnce == mode = "validate" => loop = "none" /\ stage = "check"

\* What the steps behind a walk were there for.  A resource that AWS has was not
\* absent all the time; one behind the walk was ensured, or seen if nothing is noted.
BehindTheWalk ==
    /\ absent \cap exists = {}
    /\ \A i \in DOMAIN Steps : i < step =>
        /\ mode = "provision" => Steps[i] \notin absent
        /\ mode = "validate" /\ ~missing => Required(Steps[i]) \cap absent = {}

\* The inductive invariant.
WalkInv ==
    ProvisioningTypeOK /\ WalkersAreKnown /\ LoopGoesOn /\ ValidatedOnce /\ BehindTheWalk

-----------------------------------------------------------------------------
\* Steps begins with the bucket, has the tables behind it and ends with the others.
LEMMA StepsFacts ==
    /\ Len(Steps) \in Nat /\ Len(Steps) >= 1 /\ DOMAIN Steps = 1 .. Len(Steps)
    /\ \A i \in DOMAIN Steps : Steps[i] \in Ensured
    /\ \A r \in Ensured : \E i \in DOMAIN Steps : r = Steps[i]
    /\ {"users", "topic", "queue"} \subseteq Ensured
<1>1. Tables \in Seq({"users", "orders", "files"}) /\ "users" \in Range(Tables)
  BY TablesAssumption
<1>2. PICK u \in 1 .. Len(Tables) : Tables[u] = "users"
  BY <1>1 DEF Range
<1> DEFINE first == <<"bucket">>  others == <<"topic", "queue", "function">>
           Names == {"bucket", "users", "orders", "files", "topic", "queue", "function"}
<1>3. /\ Tables \in Seq(Names) /\ Len(Tables) \in Nat
      /\ first \in Seq(Names) /\ Len(first) = 1
      /\ others \in Seq(Names) /\ Len(others) = 3 /\ others[1] = "topic" /\ others[2] = "queue"
  <2>1. Tables \in Seq(Names) /\ Len(Tables) \in Nat
    BY <1>1, SeqMonotonic, LenProperties
  <2>2. /\ first \in Seq(Names) /\ Len(first) = 1
        /\ others \in Seq(Names) /\ Len(others) = 3 /\ others[1] = "topic" /\ others[2] = "queue"
    OBVIOUS
  <2>. QED BY <2>1, <2>2
<1>4. /\ DOMAIN Steps = 1 .. Len(Steps) /\ Len(Steps) = Len(Tables) + 4
      /\ Steps[u + 1] = "users"
      /\ Steps[Len(Tables) + 2] = "topic" /\ Steps[Len(Tables) + 3] = "queue"
  <2>1. Steps = (first \o Tables) \o others
    BY <1>3, ConcatAssociative DEF Steps
  <2> HIDE DEF first, others, Names
  <2> DEFINE front == first \o Tables
  <2>2. /\ front \in Seq(Names) /\ Len(front) = Len(Tables) + 1
        /\ front[u + 1] = Tables[u]
    <3>1. /\ front \in Seq(Names) /\ Len(front) = Len(first) + Len(Tables)
          /\ \A i \in 1 .. Len(first) + Len(Tables) :
                front[i] = IF i <= Len(first) THEN first[i] ELSE Tables[i - Len(first)]
      BY <1>3, ConcatProperties
    <3>. QED BY <1>2, <1>3, <3>1
  <2>3. /\ Steps \in Seq(Names) /\ Len(Steps) = Len(Tables) + 4
        /\ \A i \in 1 .. Len(Tables) + 4 :
            Steps[i] = IF i <= Len(Tables) + 1 THEN front[i] ELSE others[i - (Len(Tables) + 1)]
    <3> HIDE DEF front
    <3>1. /\ front \o others \in Seq(Names) /\ Len(front \o others) = Len(front) + Len(others)
          /\ \A i \in 1 .. Len(front) + Len(others) :
                (front \o others)[i] = IF i <= Len(front) THEN front[i] ELSE others[i - Len(front)]
      BY <1>3, <2>2, ConcatProperties
    <3>2. Steps = front \o others
      BY <2>1 DEF front
    <3>. QED BY <1>3, <2>2, <3>1, <3>2
  <2>4. DOMAIN Steps = 1 .. Len(Steps)
    BY <2>3, LenProperties
  <2>5. {u + 1, Len(Tables) + 2, Len(Tables) + 3} \subseteq 1 .. Len(Tables) + 4
    BY <1>2, <1>3
  <2>. QED BY <1>2, <1>3, <2>2, <2>3, <2>4, <2>5
<1>5. {u + 1, Len(Tables) + 2, Len(Tables) + 3} \subseteq DOMAIN Steps
  BY <1>2, <1>3, <1>4
<1>. QED BY <1>2, <1>3, <1>4, <1>5 DEF Ensured, Range

\* What a step makes, requires or loses is among the resources.
LEMMA ResourcesFacts ==
    /\ Ensured \subseteq Resources /\ {"topic", "queue"} \subseteq Resources
    /\ \A i \in DOMAIN Steps : Made(Steps[i]) \subseteq Resources
    /\ UNION {Made(r) : r \in Ensured} = Resources
BY StepsFacts DEF Resources, Made

LEMMA WalkInvInit == ProvisioningInit => WalkInv
<1> SUFFICES ASSUME ProvisioningInit PROVE WalkInv
  OBVIOUS
<1>1. ProvisioningTypeOK
  <2>1. 0 \in 0 .. Len(Steps)
    BY StepsFacts
  <2>2. exists \subseteq Resources
    BY DEF ProvisioningInit
  <2>. QED BY <2>1, <2>2 DEF ProvisioningInit, ProvisioningTypeOK
<1>2. WalkersAreKnown /\ LoopGoesOn /\ ValidatedOnce /\ BehindTheWalk
  BY StepsFacts DEF ProvisioningInit, WalkersAreKnown, LoopGoesOn, ValidatedOnce, BehindTheWalk
<1>. QED BY <1>1, <1>2 DEF WalkInv

\* A walk begins with nothing behind it.
LEMMA BeginKeeps ==
    ASSUME WalkInv, BeginWalk, UNCHANGED <<settings, exists, up>>,
           \/ server' = "starting" /\ loop' = "none"
           \/ server' = "serving" /\ loop' = "passing" /\ loop = "sleeping"
    PROVE  WalkInv'
<1>1. stage' \in {"check", "create"} /\ (mode = "validate" => stage' = "check")
  BY DEF BeginWalk, FirstCall
<1>2. step' = 1 /\ 1 \in 0 .. Len(Steps)
  BY StepsFacts DEF BeginWalk
<1>3. ProvisioningTypeOK'
  BY <1>1, <1>2 DEF WalkInv, ProvisioningTypeOK, BeginWalk, settings
<1>4. WalkersAreKnown' /\ LoopGoesOn'
  BY <1>2 DEF WalkInv, WalkersAreKnown, LoopGoesOn, ValidatedOnce, BeginWalk, settings
<1>5. ValidatedOnce'
  BY <1>1 DEF WalkInv, ValidatedOnce, settings
<1>6. BehindTheWalk'
  BY <1>2, StepsFacts DEF BehindTheWalk, BeginWalk
<1>. QED BY <1>3, <1>4, <1>5, <1>6 DEF WalkInv

\* A walk that is over leaves nothing behind it, whoever made it.
LEMMA EndKeeps ==
    ASSUME WalkInv, NEW how \in {"done", "raised"}, EndWalk(how), mode = "provision", step > 0,
           UNCHANGED settings, exists' \subseteq Resources, up' \in BOOLEAN
    PROVE  WalkInv'
<1>1. 0 \in 0 .. Len(Steps) /\ step' = 0
  BY StepsFacts DEF EndWalk
<1>2. ProvisioningTypeOK'
  BY <1>1 DEF WalkInv, ProvisioningTypeOK, EndWalk, settings
<1>3. WalkersAreKnown' /\ LoopGoesOn'
  BY <1>1 DEF WalkInv, WalkersAreKnown, LoopGoesOn, EndWalk
<1>4. ValidatedOnce' /\ BehindTheWalk'
  BY <1>1, StepsFacts DEF ValidatedOnce, BehindTheWalk, EndWalk, settings
<1>. QED BY <1>2, <1>3, <1>4 DEF WalkInv

\* The step just done is not absent any more, since AWS has its resource now.
LEMMA AdvanceKeeps ==
    ASSUME WalkInv, NEW i \in DOMAIN Steps, Ensuring(i), Advance, UNCHANGED settings,
           exists' \subseteq Resources, exists \subseteq exists', Steps[i] \in exists', up' \in BOOLEAN
    PROVE  WalkInv'
<1>1. step = i /\ mode = "provision" /\ step > 0 /\ step \in Nat /\ Len(Steps) \in Nat
  BY StepsFacts DEF Ensuring
<1>2. CASE step = Len(Steps) /\ EndWalk("done")
  BY <1>1, <1>2, EndKeeps
<1>3. CASE step < Len(Steps) /\ step' = step + 1 /\ stage' = FirstCall(step + 1)
           /\ absent' = absent \ exists' /\ UNCHANGED <<server, loop, missing, last>>
  <2>1. stage' \in {"check", "create"} /\ step' \in 0 .. Len(Steps) /\ step' > 0
    BY <1>1, <1>3 DEF FirstCall
  <2>2. ProvisioningTypeOK'
    BY <2>1, <1>3 DEF WalkInv, ProvisioningTypeOK, settings
  <2>3. WalkersAreKnown' /\ LoopGoesOn'
    BY <1>1, <1>3, <2>1 DEF WalkInv, WalkersAreKnown, LoopGoesOn
  <2>4. ValidatedOnce'
    BY <1>1 DEF ValidatedOnce, settings
  <2>5. BehindTheWalk'
    <3>1. absent' \cap exists' = {} /\ mode' = "provision"
      BY <1>1, <1>3 DEF settings
    <3>2. ASSUME NEW j \in DOMAIN Steps, j < step'
          PROVE  Steps[j] \notin absent'
      <4>1. j = i \/ j < step
        BY <1>1, <1>3, <3>2, StepsFacts
      <4>. QED BY <4>1, <1>1, <1>3 DEF WalkInv, BehindTheWalk
    <3>. QED BY <3>1, <3>2 DEF BehindTheWalk
  <2>. QED BY <2>2, <2>3, <2>4, <2>5 DEF WalkInv
<1>. QED BY <1>2, <1>3 DEF Advance

LEMMA EnsureKeeps ==
    ASSUME WalkInv, NEW i \in DOMAIN Steps, EnsureStep(i)
    PROVE  WalkInv'
<1>1. /\ step = i /\ mode = "provision" /\ step > 0 /\ Ensuring(i)
      /\ Made(Steps[i]) \subseteq Resources /\ Steps[i] \in Made(Steps[i])
  BY StepsFacts, ResourcesFacts
     DEF EnsureStep, Found, NotFound, CheckRaises, Created, CreateRaises, Ensuring, Made
<1>2. exists \subseteq Resources /\ up \in BOOLEAN
  BY DEF WalkInv, ProvisioningTypeOK
<1>3. CASE Found(i)
  BY <1>1, <1>2, <1>3, AdvanceKeeps DEF Found
<1>4. CASE NotFound(i)
  <2>1. UNCHANGED <<settings, exists, up, server, loop, step, missing, last, absent>> /\ stage' = "create"
    BY <1>4 DEF NotFound
  <2>2. ProvisioningTypeOK' /\ WalkersAreKnown' /\ LoopGoesOn'
    BY <2>1 DEF WalkInv, ProvisioningTypeOK, WalkersAreKnown, LoopGoesOn, settings
  <2>3. ValidatedOnce' /\ BehindTheWalk'
    BY <1>1, <2>1 DEF WalkInv, ValidatedOnce, BehindTheWalk, settings
  <2>. QED BY <2>2, <2>3 DEF WalkInv
<1>5. CASE CheckRaises(i)
  BY <1>1, <1>2, <1>5, EndKeeps DEF CheckRaises
<1>6. CASE Created(i)
  <2>1. exists' = exists \cup Made(Steps[i]) /\ Advance /\ UNCHANGED <<settings, up>>
    BY <1>6 DEF Created
  <2>. QED BY <1>1, <1>2, <2>1, AdvanceKeeps
<1>7. CASE CreateRaises(i)
  <2>1. /\ exists' = exists \/ exists' = exists \cup Made(Steps[i])
        /\ up' = FALSE /\ EndWalk("raised") /\ UNCHANGED settings
    BY <1>7 DEF CreateRaises
  <2>. QED BY <1>1, <1>2, <2>1, EndKeeps
<1>. QED BY <1>3, <1>4, <1>5, <1>6, <1>7 DEF EnsureStep

\* The last step of a validation decides: it starts the server or fails fast.
LEMMA ValidateKeeps ==
    ASSUME WalkInv, NEW noted \in BOOLEAN, Noting(noted), mode = "validate", step > 0,
           ~noted => Required(Steps[step]) \cap absent = {}, UNCHANGED <<settings, exists, up>>
    PROVE  WalkInv'
<1>1. step \in DOMAIN Steps /\ Len(Steps) \in Nat /\ 0 \in 0 .. Len(Steps)
  BY StepsFacts DEF WalkInv, ProvisioningTypeOK
<1>2. CASE step < Len(Steps) /\ step' = step + 1 /\ missing' = (missing \/ noted)
           /\ UNCHANGED <<server, loop, stage, last, absent>>
  <2>1. step' \in 0 .. Len(Steps) /\ step' > 0
    BY <1>1, <1>2, StepsFacts
  <2>2. ProvisioningTypeOK'
    BY <2>1, <1>2 DEF WalkInv, ProvisioningTypeOK, settings
  <2>3. WalkersAreKnown' /\ LoopGoesOn' /\ ValidatedOnce'
    BY <2>1, <1>2 DEF WalkInv, WalkersAreKnown, LoopGoesOn, ValidatedOnce, settings
  <2>4. BehindTheWalk'
    <3>1. absent' \cap exists' = {} /\ mode' = "validate"
      BY <1>2 DEF settings, WalkInv, BehindTheWalk
    <3>2. ASSUME NEW j \in DOMAIN Steps, j < step', ~missing'
          PROVE  Required(Steps[j]) \cap absent' = {}
      <4>1. j = step \/ j < step
        BY <1>1, <1>2, <3>2, StepsFacts
      <4>2. ~missing /\ ~noted
        BY <1>2, <3>2
      <4>. QED BY <4>1, <4>2, <1>2 DEF WalkInv, BehindTheWalk
    <3>. QED BY <3>1, <3>2 DEF BehindTheWalk
  <2>. QED BY <2>2, <2>3, <2>4 DEF WalkInv
<1>3. CASE FailsFast \/ Starts
  <2>1. /\ step' = 0 /\ absent' = {} /\ server' \in {"down", "serving"} /\ UNCHANGED <<loop, stage>>
        /\ missing' \in BOOLEAN /\ last' \in {"done", "raised"}
    BY <1>3 DEF FailsFast, Starts, WalkInv, ProvisioningTypeOK
  <2>2. ProvisioningTypeOK'
    BY <1>1, <2>1 DEF WalkInv, ProvisioningTypeOK, settings
  <2>3. WalkersAreKnown' /\ LoopGoesOn' /\ ValidatedOnce'
    BY <2>1 DEF WalkInv, WalkersAreKnown, LoopGoesOn, ValidatedOnce, settings
  <2>4. BehindTheWalk'
    BY <2>1, StepsFacts DEF BehindTheWalk
  <2>. QED BY <2>2, <2>3, <2>4 DEF WalkInv
<1>. QED BY <1>2, <1>3 DEF Noting

LEMMA ProcessKeeps ==
    ASSUME WalkInv, Process
    PROVE  WalkInv'
<1>1. CASE WaitEnds \/ Reconcile \/ (Boot /\ server' = "starting")
  <2>1. /\ BeginWalk /\ UNCHANGED <<settings, exists, up>>
        /\ \/ server' = "starting" /\ loop' = "none"
           \/ server' = "serving" /\ loop' = "passing" /\ loop = "sleeping"
    BY <1>1 DEF WaitEnds, Reconcile, Boot, WalkInv, WalkersAreKnown, LoopGoesOn
  <2>. QED BY <2>1, BeginKeeps
<1>2. CASE (Boot /\ server' = "waiting") \/ Exit
  <2>1. /\ UNCHANGED <<settings, exists, up, step, stage, missing, absent>>
        /\ step = 0 /\ server' \in {"down", "waiting"} /\ loop' = "none" /\ last' \in {last, "none"}
    BY <1>2 DEF Boot, Exit, walk, WalkInv, WalkersAreKnown, LoopGoesOn, ProvisioningTypeOK
  <2>2. ProvisioningTypeOK' /\ WalkersAreKnown' /\ LoopGoesOn'
    BY <2>1 DEF WalkInv, ProvisioningTypeOK, WalkersAreKnown, LoopGoesOn, settings
  <2>3. ValidatedOnce' /\ BehindTheWalk'
    BY <2>1 DEF WalkInv, ValidatedOnce, BehindTheWalk, settings
  <2>. QED BY <2>2, <2>3 DEF WalkInv
<1>3. CASE Stop
  <2>1. /\ UNCHANGED <<settings, exists, up, step, stage, missing, last, absent>>
        /\ server = "serving" /\ server' = "stopping"
        /\ loop' = IF loop = "none" THEN "none" ELSE "cancelled"
    BY <1>3 DEF Stop, walk
  <2>2. ProvisioningTypeOK' /\ WalkersAreKnown' /\ LoopGoesOn'
    BY <2>1 DEF WalkInv, ProvisioningTypeOK, WalkersAreKnown, LoopGoesOn, settings
  <2>3. ValidatedOnce' /\ BehindTheWalk'
    BY <2>1 DEF WalkInv, ValidatedOnce, BehindTheWalk, settings
  <2>. QED BY <2>2, <2>3 DEF WalkInv
<1>4. CASE Crash
  <2>1. /\ UNCHANGED <<settings, exists, up>> /\ server' = "down" /\ loop' = "none"
        /\ step' = 0 /\ stage' = "check" /\ missing' = FALSE /\ last' = "none" /\ absent' = {}
    BY <1>4 DEF Crash
  <2>2. 0 \in 0 .. Len(Steps)
    BY StepsFacts
  <2>3. ProvisioningTypeOK'
    BY <2>1, <2>2 DEF WalkInv, ProvisioningTypeOK, settings
  <2>4. WalkersAreKnown' /\ LoopGoesOn'
    BY <2>1 DEF WalkersAreKnown, LoopGoesOn
  <2>5. ValidatedOnce' /\ BehindTheWalk'
    BY <2>1, StepsFacts DEF ValidatedOnce, BehindTheWalk
  <2>. QED BY <2>3, <2>4, <2>5 DEF WalkInv
<1>. QED BY <1>1, <1>2, <1>3, <1>4 DEF Process, Boot

\* What AWS, its users and the requests do leaves the walk alone; whatever they
\* create is not absent any more.
LEMMA EnvironmentKeeps ==
    ASSUME WalkInv, Environment
    PROVE  WalkInv'
<1> DEFINE Surroundings ==
            /\ UNCHANGED <<settings, server, loop, step, stage, missing, last>>
            /\ up' \in BOOLEAN /\ absent' \subseteq absent
            /\ exists' \subseteq Resources /\ absent' \cap exists' = {}
<1>1. Surroundings
  <2>1. ProvisioningTypeOK /\ absent \cap exists = {}
    BY DEF WalkInv, BehindTheWalk
  <2>2. CASE Outage \/ Recover
    BY <2>1, <2>2 DEF Outage, Recover, walk, ProvisioningTypeOK
  <2>3. ASSUME NEW r \in Resources, Disappear(r) \/ Deployed(r)
        PROVE  Surroundings
    BY <2>1, <2>3 DEF Disappear, Deployed, walk, ProvisioningTypeOK
  <2>4. ASSUME NEW r \in {"topic", "queue"}, CreatedByRequest(r)
        PROVE  Surroundings
    BY <2>1, <2>4, ResourcesFacts DEF CreatedByRequest, walk, ProvisioningTypeOK
  <2>. QED BY <2>2, <2>3, <2>4 DEF Environment
<1>2. ProvisioningTypeOK' /\ WalkersAreKnown' /\ LoopGoesOn'
  BY <1>1 DEF WalkInv, ProvisioningTypeOK, WalkersAreKnown, LoopGoesOn, settings
<1>3. ValidatedOnce' /\ BehindTheWalk'
  BY <1>1 DEF WalkInv, ValidatedOnce, BehindTheWalk, settings
<1>. QED BY <1>2, <1>3 DEF WalkInv

\* What a look of the validation notes is what AWS had at some time of the walk.
LEMMA LooksAreNoted ==
    ASSUME WalkInv, Seen \/ Unseen
    PROVE  /\ mode = "validate" /\ step > 0 /\ UNCHANGED <<settings, exists, up>>
           /\ \E noted \in BOOLEAN :
                Noting(noted) /\ (~noted => Required(Steps[step]) \cap absent = {})
BY DEF Seen, Unseen, WalkInv, BehindTheWalk

LEMMA WalkInvNext ==
    ASSUME WalkInv, [ProvisioningNext]_provisioning
    PROVE  WalkInv'
<1>1. CASE \E i \in DOMAIN Steps : EnsureStep(i)
  BY <1>1, EnsureKeeps
<1>2. CASE Seen \/ Unseen
  BY <1>2, LooksAreNoted, ValidateKeeps
<1>3. CASE Process \/ Environment
  BY <1>3, ProcessKeeps, EnvironmentKeeps
<1>4. CASE UNCHANGED provisioning
  BY <1>4 DEF provisioning, settings, walk, WalkInv, ProvisioningTypeOK, WalkersAreKnown, LoopGoesOn,
              ValidatedOnce, BehindTheWalk
<1>. QED BY <1>1, <1>2, <1>3, <1>4 DEF ProvisioningNext

LEMMA WalkInvariance == ProvisioningSpec => []WalkInv
<1>1. ProvisioningInit => WalkInv
  BY WalkInvInit
<1>2. WalkInv /\ [ProvisioningNext]_provisioning => WalkInv'
  BY WalkInvNext
<1>. QED BY <1>1, <1>2, PTL DEF ProvisioningSpec

\* The types of the provisioning's state, for every list of tables.
THEOREM ProvisioningTypeCorrect == ProvisioningSpec => []ProvisioningTypeOK
<1>1. WalkInv => ProvisioningTypeOK
  BY DEF WalkInv
<1>. QED BY <1>1, WalkInvariance, PTL

\* What a walk that ends well leaves: nothing of an ensured walk was absent all the
\* time and is still missing, nothing at all in a validated one.
EndsWell ==
    /\ mode = "provision" /\ last = "none" /\ last' = "done" => absent \cap Ensured \subseteq exists'
    /\ mode = "validate" /\ server = "starting" /\ server' = "serving" => absent = {}

\* Only the last step is not behind the walk, and it has just found or made its own.
LEMMA EnsuredEndsWell ==
    ASSUME WalkInv, NEW i \in DOMAIN Steps, EnsureStep(i)
    PROVE  EndsWell
<1>1. mode = "provision" /\ step = i /\ Len(Steps) \in Nat
  BY StepsFacts DEF EnsureStep, Found, NotFound, CheckRaises, Created, CreateRaises, Ensuring
<1>2. SUFFICES ASSUME last = "none", last' = "done", NEW r \in absent \cap Ensured
               PROVE  r \in exists'
  BY <1>1 DEF EndsWell
<1>3. Advance /\ Steps[i] \in exists' /\ step = Len(Steps)
  BY <1>2 DEF EnsureStep, Found, NotFound, CheckRaises, Created, CreateRaises, Made, EndWalk, Advance
<1>4. PICK j \in DOMAIN Steps : r = Steps[j]
  BY StepsFacts
<1>5. ~(j < step)
  BY <1>1, <1>2, <1>4 DEF WalkInv, BehindTheWalk
<1>6. j = i
  BY <1>1, <1>3, <1>4, <1>5, StepsFacts
<1>. QED BY <1>3, <1>4, <1>6

\* The server starts only if nothing was noted, and then every step saw all it requires.
LEMMA ValidatedEndsWell ==
    ASSUME WalkInv, Seen \/ Unseen
    PROVE  EndsWell
<1>1. mode = "validate" /\ step > 0 /\ Len(Steps) \in Nat
  BY LooksAreNoted, StepsFacts
<1>2. PICK noted \in BOOLEAN : Noting(noted) /\ (~noted => Required(Steps[step]) \cap absent = {})
  BY LooksAreNoted
<1>3. SUFFICES ASSUME server = "starting", server' = "serving"
               PROVE  absent = {}
  BY <1>1 DEF EndsWell
<1>4. step = Len(Steps) /\ ~missing /\ ~noted
  BY <1>2, <1>3 DEF Noting, FailsFast
<1>5. ASSUME NEW i \in DOMAIN Steps
      PROVE  Made(Steps[i]) \cap absent = {}
  <2>1. i < step \/ i = step
    BY <1>1, <1>4, <1>5, StepsFacts
  <2>. QED BY <2>1, <1>1, <1>2, <1>4 DEF Required, WalkInv, BehindTheWalk
<1>6. \A r \in Ensured : Made(r) \cap absent = {}
  BY <1>5, StepsFacts
<1>7. absent \subseteq Resources
  BY DEF WalkInv, ProvisioningTypeOK
<1>. QED BY <1>6, <1>7, ResourcesFacts

LEMMA OthersEndNoWalk ==
    ASSUME WalkInv, Process \/ Environment \/ UNCHANGED provisioning
    PROVE  EndsWell
<1>1. CASE Process
  BY <1>1 DEF Process, Boot, WaitEnds, Reconcile, Stop, Exit, Crash, BeginWalk, walk, EndsWell
<1>2. CASE Environment
  <2>1. UNCHANGED <<server, last>>
    BY <1>2 DEF Environment, Outage, Recover, Disappear, Deployed, CreatedByRequest, walk
  <2>. QED BY <2>1 DEF EndsWell
<1>3. CASE UNCHANGED provisioning
  BY <1>3 DEF provisioning, walk, EndsWell
<1>. QED BY <1>1, <1>2, <1>3

\* A walk that ends well means what it says of every resource, for every list of tables.
THEOREM WalksMeanWhatTheySay == ProvisioningSpec => SuccessMeansEach
<1>1. WalkInv /\ [ProvisioningNext]_provisioning => EndsWell
  BY EnsuredEndsWell, ValidatedEndsWell, OthersEndNoWalk DEF ProvisioningNext
<1>. QED BY <1>1, WalkInvariance, PTL DEF ProvisioningSpec, SuccessMeansEach, EndsWell

\* A walk that fails, or cannot be finished, never ends the reconcile loop, for
\* every list of tables (main.py:88-96).
THEOREM LoopSurvives == ProvisioningSpec => []LoopGoesOn
<1>1. WalkInv => LoopGoesOn
  BY DEF WalkInv
<1>. QED BY <1>1, WalkInvariance, PTL

-----------------------------------------------------------------------------
(* The image workflow.                                                     *)


\* An invocation that has gone so far has read the image or notified of it, and
\* no invocation runs or notifies before its attempt.
HandlersInOrder ==
    \A i \in Images, k \in Attempts :
        /\ run[i][k] \in {"read", "published", "returned"} => i \in objects
        /\ run[i][k] \in {"published", "returned"} => <<i, k>> \in notes
        /\ run[i][k] # "none" \/ <<i, k>> \in notes => k <= attempt[i]

\* Where a request stands tells how many attempts it has made; a second one needs
\* an attempt that got no answer.
AttemptsInOrder ==
    \A i \in Images :
        /\ at[i] \in {"new", "upload", "list_topics", "create_topic"} => attempt[i] = 0
        /\ at[i] = "invoke" => attempt[i] < MaxAttempts
        /\ at[i] = "await" => attempt[i] >= 1
        /\ i \notin unanswered => attempt[i] <= 1
        /\ i \notin unanswered /\ at[i] = "invoke" => attempt[i] = 0

\* The inductive invariant.
Inv == TypeOK /\ HandlersInOrder /\ AttemptsInOrder /\ AnsweredIsNotified

-----------------------------------------------------------------------------
LEMMA InvInit == Init => Inv
<1> SUFFICES ASSUME Init PROVE Inv
  OBVIOUS
<1>1. 0 \in 0 .. MaxAttempts /\ MaxAttempts \in Nat /\ 0 < MaxAttempts
  BY AttemptsAssumption
<1>2. TypeOK
  <2>1. /\ topic \in BOOLEAN /\ arn \in BOOLEAN
        /\ at \in [Requests -> Calls \cup {"new", "ok", "error"}]
        /\ objects \subseteq Images /\ notes \subseteq Requests \X Attempts /\ unanswered \subseteq Images
    BY DEF Init
  <2>2. /\ attempt \in [Images -> 0 .. MaxAttempts] /\ processed \in [Images -> 0 .. MaxAttempts]
        /\ run \in [Images -> [Attempts -> Running \cup {"none", "returned", "failed"}]]
    BY <1>1 DEF Init
  <2>. QED BY <2>1, <2>2 DEF TypeOK
<1>3. HandlersInOrder
  BY DEF Init, HandlersInOrder
<1>4. AttemptsInOrder /\ AnsweredIsNotified
  BY <1>1 DEF Init, AttemptsInOrder, AnsweredIsNotified, Requests
<1>. QED BY <1>2, <1>3, <1>4 DEF Inv

\* A request that goes on without an attempt, a notification or a success.
LEMMA OnlyAtKeeps ==
    ASSUME Inv, NEW r \in Requests, at[r] # "ok", NEW there \in Calls \cup {"error"}, Goto(r, there),
           UNCHANGED <<attempt, run, notes, processed, unanswered>>,
           topic' \in BOOLEAN, arn' \in BOOLEAN, objects \subseteq objects', objects' \subseteq Images,
           r \in Images => /\ there # "await"
                           /\ there # "error" => attempt[r] = 0
    PROVE  Inv'
<1>1. /\ at' \in [Requests -> Calls \cup {"new", "ok", "error"}] /\ at'[r] = there
      /\ \A q \in Requests : q # r => at'[q] = at[q]
  BY DEF Goto, Inv, TypeOK
<1>2. there # "ok" /\ there # "new"
  BY DEF Calls
<1>3. MaxAttempts \in Nat /\ 0 < MaxAttempts
  BY AttemptsAssumption
<1>4. TypeOK'
  BY <1>1 DEF Inv, TypeOK
<1>5. HandlersInOrder'
  BY DEF Inv, HandlersInOrder
<1>6. AttemptsInOrder'
  BY <1>1, <1>2, <1>3 DEF Inv, AttemptsInOrder, Requests
<1>7. AnsweredIsNotified'
  BY <1>1, <1>2 DEF Inv, AnsweredIsNotified, Requests
<1>. QED BY <1>4, <1>5, <1>6, <1>7 DEF Inv

\* Before an image is sent to Lambda, and when its request fails.
LEMMA BeforeInvokeKeeps ==
    ASSUME Inv, NEW i \in Images,
           StartImage(i) \/ Uploaded(i) \/ UploadFails(i) \/ FunctionError(i) \/ InvokeRaises(i)
    PROVE  Inv'
<1>1. i \in Requests /\ objects \cup {i} \subseteq Images /\ objects \subseteq Images
  BY DEF Requests, Inv, TypeOK
<1>2. /\ at[i] # "ok" /\ UNCHANGED <<attempt, run, notes, processed, unanswered>>
      /\ topic' \in BOOLEAN /\ arn' \in BOOLEAN
      /\ objects \subseteq objects' /\ objects' \subseteq Images
  BY <1>1 DEF StartImage, Uploaded, UploadFails, FunctionError, InvokeRaises, awsVars, Inv, TypeOK
<1>3. CASE UploadFails(i) \/ FunctionError(i) \/ InvokeRaises(i)
  BY <1>1, <1>2, <1>3, OnlyAtKeeps DEF UploadFails, FunctionError, InvokeRaises
<1>4. CASE StartImage(i) \/ Uploaded(i)
  <2>1. attempt[i] = 0
    BY <1>4 DEF StartImage, Uploaded, Inv, AttemptsInOrder
  <2>2. PICK there \in Calls : Goto(i, there) /\ there # "await"
    BY <1>4 DEF StartImage, Uploaded, NeedTopic, AfterTopic, Calls
  <2>. QED BY <1>1, <1>2, <2>1, <2>2, OnlyAtKeeps
<1>. QED BY <1>3, <1>4

\* The topic's ARN is looked up, for an image or for a notice.
LEMMA TopicKeeps ==
    ASSUME Inv, NEW r \in Requests, TopicStep(r)
    PROVE  Inv'
<1>1. /\ at[r] \in {"list_topics", "create_topic"}
      /\ UNCHANGED <<attempt, run, notes, processed, unanswered, objects>>
      /\ topic' \in BOOLEAN /\ arn' \in BOOLEAN /\ objects \subseteq Images
  BY DEF TopicStep, TopicListed, TopicNotListed, ListRefused, TopicCreated, TopicCallFails, awsVars,
         Inv, TypeOK
<1>2. PICK there \in Calls \cup {"error"} : Goto(r, there) /\ there # "await"
  BY DEF TopicStep, TopicListed, TopicNotListed, ListRefused, TopicCreated, TopicCallFails,
         AfterTopic, Calls
<1>3. r \in Images => attempt[r] = 0
  BY <1>1 DEF Inv, AttemptsInOrder
<1>. QED BY <1>1, <1>2, <1>3, OnlyAtKeeps

LEMMA NoticeKeeps ==
    ASSUME Inv, NEW n \in Notices, NoticeStep(n)
    PROVE  Inv'
<1>1. n \in Requests /\ n \notin Images /\ 1 \in Attempts
  BY RequestsAssumption, AttemptsAssumption DEF Requests, Attempts
<1>2. CASE StartNotice(n)
  <2>1. /\ at[n] # "ok" /\ UNCHANGED <<topic, arn, attempt, run, notes, processed, unanswered, objects>>
        /\ objects \subseteq Images /\ topic \in BOOLEAN /\ arn \in BOOLEAN
    BY <1>2 DEF StartNotice, awsVars, Inv, TypeOK
  <2>2. PICK there \in Calls : Goto(n, there)
    BY <1>2 DEF StartNotice, NeedTopic, AfterTopic, Calls
  <2>. QED BY <1>1, <2>1, <2>2, OnlyAtKeeps
<1>3. CASE Published(n) \/ PublishFails(n)
  <2>1. /\ UNCHANGED <<topic, arn, objects, attempt, run, processed, unanswered>>
        /\ notes' \in {notes, notes \cup {<<n, 1>>}}
        /\ at' = [at EXCEPT ![n] = at'[n]] /\ at'[n] \in {"ok", "error"}
        /\ at'[n] = "ok" => <<n, 1>> \in notes'
    BY <1>1, <1>3 DEF Published, PublishFails, Goto, Inv, TypeOK
  <2>2. /\ notes \subseteq notes' /\ notes' \subseteq Requests \X Attempts
        /\ \A i \in Images, k \in Attempts : <<i, k>> \in notes' => <<i, k>> \in notes
    BY <1>1, <2>1 DEF Inv, TypeOK
  <2>3. \A q \in Requests : q # n => at'[q] = at[q]
    BY <2>1 DEF Inv, TypeOK
  <2>4. TypeOK'
    BY <1>1, <2>1, <2>2 DEF Inv, TypeOK
  <2>5. HandlersInOrder'
    BY <2>1, <2>2 DEF Inv, HandlersInOrder
  <2>6. AttemptsInOrder'
    BY <1>1, <2>1, <2>3 DEF Inv, AttemptsInOrder, Requests
  <2>7. AnsweredIsNotified'
    BY <1>1, <2>1, <2>2, <2>3 DEF Inv, AnsweredIsNotified, Requests
  <2>. QED BY <2>4, <2>5, <2>6, <2>7 DEF Inv
<1>. QED BY <1>2, <1>3 DEF NoticeStep
\* One cell of the invocations.
LEMMA HandlerCell ==
    ASSUME TypeOK, NEW i \in Images, NEW k \in Attempts,
           NEW state \in Running \cup {"none", "returned", "failed"}, Handler(i, k, state)
    PROVE  /\ run' \in [Images -> [Attempts -> Running \cup {"none", "returned", "failed"}]]
           /\ run'[i][k] = state
           /\ \A j \in Images, m \in Attempts : j # i \/ m # k => run'[j][m] = run[j][m]
BY DEF TypeOK, Handler

\* An attempt starts an invocation of its own, or none.
LEMMA InvokeKeeps ==
    ASSUME Inv, NEW i \in Images, Invoke(i)
    PROVE  Inv'
<1>1. /\ i \in Requests /\ at[i] = "invoke" /\ attempt[i] < MaxAttempts /\ attempt[i] \in Nat
      /\ MaxAttempts \in Nat /\ attempt[i] + 1 \in Attempts
      /\ UNCHANGED <<topic, arn, objects, notes, processed, unanswered>>
  BY AttemptsAssumption DEF Invoke, Inv, TypeOK, AttemptsInOrder, Requests, Attempts
<1>2. /\ attempt' \in [Images -> 0 .. MaxAttempts] /\ attempt'[i] = attempt[i] + 1
      /\ \A j \in Images : j # i => attempt'[j] = attempt[j]
  BY <1>1 DEF Invoke, Inv, TypeOK
<1>3. /\ at' \in [Requests -> Calls \cup {"new", "ok", "error"}] /\ at'[i] = "await"
      /\ \A q \in Requests : q # i => at'[q] = at[q]
  BY <1>1 DEF Invoke, Goto, Inv, TypeOK, Calls
<1>4. /\ run' \in [Images -> [Attempts -> Running \cup {"none", "returned", "failed"}]]
      /\ \A j \in Images, m \in Attempts :
            \/ run'[j][m] = run[j][m]
            \/ j = i /\ m = attempt[i] + 1 /\ run'[j][m] = "started"
  <2>1. CASE Handler(i, attempt[i] + 1, "started")
    BY <1>1, <2>1, HandlerCell DEF Inv, Running
  <2>2. CASE UNCHANGED run
    BY <2>2 DEF Inv, TypeOK
  <2>. QED BY <2>1, <2>2 DEF Invoke
<1>5. TypeOK'
  BY <1>1, <1>2, <1>3, <1>4 DEF Inv, TypeOK
<1>6. \A j \in Images : attempt[j] \in Nat /\ attempt'[j] \in Nat /\ attempt[j] <= attempt'[j]
  BY <1>1, <1>2 DEF Inv, TypeOK
<1>7. HandlersInOrder'
  <2> SUFFICES ASSUME NEW j \in Images, NEW k \in Attempts
               PROVE  /\ run'[j][k] \in {"read", "published", "returned"} => j \in objects
                      /\ run'[j][k] \in {"published", "returned"} => <<j, k>> \in notes
                      /\ run'[j][k] # "none" \/ <<j, k>> \in notes => k <= attempt'[j]
    BY <1>1 DEF HandlersInOrder
  <2>1. k \in Nat
    BY DEF Attempts
  <2>2. CASE run'[j][k] = run[j][k]
    BY <1>6, <2>1, <2>2 DEF Inv, HandlersInOrder
  <2>3. CASE j = i /\ k = attempt[i] + 1 /\ run'[j][k] = "started"
    BY <1>1, <1>2, <2>1, <2>3
  <2>. QED BY <1>4, <2>2, <2>3
<1>8. AttemptsInOrder'
  BY <1>1, <1>2, <1>3 DEF Inv, AttemptsInOrder, Requests
<1>9. AnsweredIsNotified'
  BY <1>1, <1>3 DEF Inv, AnsweredIsNotified, Requests
<1>. QED BY <1>5, <1>7, <1>8, <1>9 DEF Inv

\* The answer names the attempt that returned, which has notified.
LEMMA ReturnedKeeps ==
    ASSUME Inv, NEW i \in Images, Returned(i)
    PROVE  Inv'
<1>1. /\ i \in Requests /\ at[i] = "await" /\ run[i][attempt[i]] = "returned"
      /\ attempt[i] \in Attempts /\ attempt[i] \in 0 .. MaxAttempts
      /\ UNCHANGED <<topic, arn, objects, attempt, run, notes, unanswered>>
  BY AttemptsAssumption DEF Returned, awsVars, Inv, TypeOK, AttemptsInOrder, Requests, Attempts
<1>2. i \in objects /\ <<i, attempt[i]>> \in notes
  BY <1>1 DEF Inv, HandlersInOrder
<1>3. /\ processed' \in [Images -> 0 .. MaxAttempts] /\ processed'[i] = attempt[i]
      /\ \A j \in Images : j # i => processed'[j] = processed[j]
  BY <1>1 DEF Returned, Inv, TypeOK
<1>4. /\ at' \in [Requests -> Calls \cup {"new", "ok", "error"}] /\ at'[i] = "ok"
      /\ \A q \in Requests : q # i => at'[q] = at[q]
  BY <1>1 DEF Returned, Goto, Inv, TypeOK
<1>5. TypeOK'
  BY <1>1, <1>3, <1>4 DEF Inv, TypeOK
<1>6. HandlersInOrder' /\ AttemptsInOrder'
  BY <1>1, <1>4 DEF Inv, HandlersInOrder, AttemptsInOrder, Requests
<1>7. AnsweredIsNotified'
  <2>1. ASSUME NEW j \in Images, at'[j] = "ok"
        PROVE  j \in objects /\ <<j, processed'[j]>> \in notes
    <3>1. CASE j = i
      BY <1>2, <1>3, <3>1
    <3>2. CASE j # i
      BY <1>3, <1>4, <2>1, <3>2 DEF Inv, AnsweredIsNotified, Requests
    <3>. QED BY <3>1, <3>2
  <2>2. ASSUME NEW n \in Notices, at'[n] = "ok"
        PROVE  <<n, 1>> \in notes
    BY <1>1, RequestsAssumption, <1>4, <2>2 DEF Inv, AnsweredIsNotified, Requests
  <2>. QED BY <1>1, <2>1, <2>2 DEF AnsweredIsNotified
<1>. QED BY <1>5, <1>6, <1>7 DEF Inv

LEMMA NoAnswerKeeps ==
    ASSUME Inv, NEW i \in Images, NoAnswer(i)
    PROVE  Inv'
<1>1. /\ i \in Requests /\ at[i] = "await" /\ unanswered' = unanswered \cup {i}
      /\ attempt[i] \in Nat /\ MaxAttempts \in Nat
      /\ UNCHANGED <<topic, arn, objects, attempt, run, notes, processed>>
  BY AttemptsAssumption DEF NoAnswer, awsVars, Inv, TypeOK, Requests
<1>2. /\ at' \in [Requests -> Calls \cup {"new", "ok", "error"}] /\ at'[i] \in {"invoke", "error"}
      /\ at'[i] = "invoke" => attempt[i] < MaxAttempts
      /\ \A q \in Requests : q # i => at'[q] = at[q]
  BY <1>1 DEF NoAnswer, Goto, Inv, TypeOK, Calls
<1>3. TypeOK'
  BY <1>1, <1>2 DEF Inv, TypeOK
<1>4. HandlersInOrder'
  BY <1>1 DEF Inv, HandlersInOrder
<1>5. AttemptsInOrder'
  BY <1>1, <1>2 DEF Inv, AttemptsInOrder, Requests
<1>6. AnsweredIsNotified'
  BY <1>1, <1>2 DEF Inv, AnsweredIsNotified, Requests
<1>. QED BY <1>3, <1>4, <1>5, <1>6 DEF Inv

\* An invocation goes on, whether or not anybody waits for it.
LEMMA HandlerKeeps ==
    ASSUME Inv, NEW i \in Images, NEW k \in Attempts, HandlerStep(i, k)
    PROVE  Inv'
<1>1. UNCHANGED <<topic, arn, at, objects, attempt, processed, unanswered>>
  BY DEF HandlerStep, ImageRead, ResultPublished, HandlerReturns, HandlerFails
<1>2. PICK state \in {"read", "published", "returned", "failed"} : Handler(i, k, state)
  BY DEF HandlerStep, ImageRead, ResultPublished, HandlerReturns, HandlerFails
<1>3. /\ run' \in [Images -> [Attempts -> Running \cup {"none", "returned", "failed"}]]
      /\ run'[i][k] = state
      /\ \A j \in Images, m \in Attempts : j # i \/ m # k => run'[j][m] = run[j][m]
  BY <1>2, HandlerCell DEF Inv, Running
<1>4. /\ run[i][k] # "none"
      /\ run'[i][k] \in {"read", "published", "returned"} => i \in objects
      /\ run'[i][k] \in {"published", "returned"} => <<i, k>> \in notes'
  BY <1>3 DEF HandlerStep, ImageRead, ResultPublished, HandlerReturns, HandlerFails, Handler,
              Running, Inv, TypeOK, HandlersInOrder
<1>5. notes' \in {notes, notes \cup {<<i, k>>}}
  BY DEF HandlerStep, ImageRead, ResultPublished, HandlerReturns, HandlerFails
<1>6. /\ notes \subseteq notes' /\ notes' \subseteq Requests \X Attempts
      /\ \A j \in Images, m \in Attempts :
            <<j, m>> \in notes' => <<j, m>> \in notes \/ (j = i /\ m = k)
  BY <1>5 DEF Inv, TypeOK, Requests
<1>7. TypeOK'
  BY <1>1, <1>3, <1>6 DEF Inv, TypeOK
<1>8. HandlersInOrder'
  <2> SUFFICES ASSUME NEW j \in Images, NEW m \in Attempts
               PROVE  /\ run'[j][m] \in {"read", "published", "returned"} => j \in objects
                      /\ run'[j][m] \in {"published", "returned"} => <<j, m>> \in notes'
                      /\ run'[j][m] # "none" \/ <<j, m>> \in notes' => m <= attempt[j]
    BY <1>1 DEF HandlersInOrder
  <2>1. CASE j = i /\ m = k
    BY <1>4, <2>1 DEF Inv, HandlersInOrder
  <2>2. CASE j # i \/ m # k
    BY <1>3, <1>6, <2>2 DEF Inv, HandlersInOrder
  <2>. QED BY <2>1, <2>2
<1>9. AttemptsInOrder' /\ AnsweredIsNotified'
  BY <1>1, <1>6 DEF Inv, AttemptsInOrder, AnsweredIsNotified
<1>. QED BY <1>7, <1>8, <1>9 DEF Inv

LEMMA RestartKeeps ==
    ASSUME Inv, Restart
    PROVE  Inv'
<1>1. arn' = FALSE /\ UNCHANGED <<topic, objects, attempt, run, notes, processed, unanswered>>
  BY DEF Restart, awsVars
<1>2. /\ at' \in [Requests -> Calls \cup {"new", "ok", "error"}]
      /\ \A r \in Requests : at'[r] = "error" \/ (at'[r] = at[r] /\ at[r] \in {"new", "ok"})
  BY DEF Restart, Inv, TypeOK
<1>3. TypeOK'
  BY <1>1, <1>2 DEF Inv, TypeOK
<1>4. HandlersInOrder'
  BY <1>1 DEF Inv, HandlersInOrder
<1>5. AttemptsInOrder' /\ AnsweredIsNotified'
  BY <1>1, <1>2 DEF Inv, AttemptsInOrder, AnsweredIsNotified, Requests
<1>. QED BY <1>3, <1>4, <1>5 DEF Inv

LEMMA InvStep == Inv /\ [Next]_vars => Inv'
<1> SUFFICES ASSUME Inv, [Next]_vars PROVE Inv'
  OBVIOUS
<1>1. ASSUME NEW i \in Images, ImageStep(i)
      PROVE  Inv'
  BY <1>1, BeforeInvokeKeeps, InvokeKeeps, ReturnedKeeps, NoAnswerKeeps DEF ImageStep
<1>2. CASE TopicChanges
  BY <1>2 DEF TopicChanges, Inv, TypeOK, HandlersInOrder, AttemptsInOrder, AnsweredIsNotified
<1>3. CASE UNCHANGED vars
  BY <1>3 DEF vars, Inv, TypeOK, HandlersInOrder, AttemptsInOrder, AnsweredIsNotified
<1>. QED BY <1>1, <1>2, <1>3, NoticeKeeps, TopicKeeps, HandlerKeeps, RestartKeeps DEF Next

\* The inductive invariant of the workflow holds in every state
\* (lambda_service.py, sns_service.py).
THEOREM Invariance == Spec => []Inv
<1>1. Init => Inv
  BY InvInit
<1>2. Inv /\ [Next]_vars => Inv'
  BY InvStep
<1>. QED BY <1>1, <1>2, PTL DEF Spec

-----------------------------------------------------------------------------
\* The variables of the workflow keep their types (lambda_service.py, sns_service.py).
THEOREM TypeCorrectness == Spec => []TypeOK
<1>1. Inv => TypeOK
  BY DEF Inv
<1>. QED BY <1>1, Invariance, PTL

\* A request answered 200 was notified, with the processing_id of its answer
\* (lambda_service.py:35-55, sns_service.py:46-66).
THEOREM AnswersNotified == Spec => []AnsweredIsNotified
<1>1. Inv => AnsweredIsNotified
  BY DEF Inv
<1>. QED BY <1>1, Invariance, PTL

\* A second processing_id for one image needs a lost answer of Lambda
\* (lambda_service.py:48-52, 66-72, utils/aws.py:22).
THEOREM OneId == Spec => []OneIdUnlessUnanswered
<1>1. ASSUME Inv PROVE OneIdUnlessUnanswered
  <2> SUFFICES ASSUME NEW i \in Images, i \notin unanswered, NEW k \in Attempts, NEW m \in Attempts,
                      <<i, k>> \in notes, <<i, m>> \in notes
               PROVE  k = m
    BY DEF OneIdUnlessUnanswered
  <2>1. k <= attempt[i] /\ m <= attempt[i] /\ attempt[i] <= 1 /\ attempt[i] \in Nat
    BY <1>1 DEF Inv, TypeOK, HandlersInOrder, AttemptsInOrder
  <2>. QED BY <2>1 DEF Attempts
<1>. QED BY <1>1, Invariance, PTL
=============================================================================
