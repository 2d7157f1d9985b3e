--------------------------- MODULE FileStoreProofs ---------------------------
(***************************************************************************)
(* Proofs about FileStore for any threads, files and number of attempts.   *)
(*                                                                          *)
(* The inductive invariant says what each call relies on.  An upload is the *)
(* only one that works on its file until it has been answered; put_item     *)
(* finds the object in the bucket unless a delete took it; a delete that    *)
(* passed the get_item check works on a file that has, or had, its record,  *)
(* and it removes the record only after the object.                         *)
(***************************************************************************)
EXTENDS FileStore, TLAPS

Uploading(t) == pc[t] \in {"put_object", "put_item"}

FilesAreDrawn ==
    /\ objects \cup records \cup lagging \cup condemned \cup uploaded \subseteq used
    /\ \A t \in Threads : pc[t] # "idle" => file[t] \in used

UploadersAreAlone ==
    \A t, u \in Threads :
        Uploading(t) /\ Uploading(u) /\ file[t] = file[u] => t = u

CallsAreOrdered ==
    \A t \in Threads :
        /\ Uploading(t) => file[t] \notin uploaded
        /\ pc[t] = "put_object" => file[t] \notin records \cup condemned
        /\ pc[t] = "put_item" => file[t] \in objects \cup condemned
        /\ pc[t] = "delete_object" => file[t] \in records \cup condemned
        /\ pc[t] = "delete_item" => file[t] \in condemned
        /\ known[t] => /\ file[t] \in uploaded
                       /\ pc[t] \in {"get_item", "delete_object", "delete_item"}

HalvesAgree ==
    /\ records \subseteq objects \cup condemned
    /\ lagging \subseteq records \cup condemned
    /\ condemned \cap objects = {}
    /\ uploaded \ condemned \subseteq objects \cap records
    /\ erased \subseteq uploaded \cap condemned
    /\ erased \cap records = {}

Inv == /\ TypeOK
       /\ FilesAreDrawn
       /\ UploadersAreAlone
       /\ CallsAreOrdered
       /\ HalvesAgree

-----------------------------------------------------------------------------
\* An attempt that changed nothing.
LEMMA CallFailsKeeps ==
  ASSUME Inv, NEW t \in Threads, CallFails(t)
  PROVE  Inv'
<1>1. TypeOK'
  <2>1. attempts' \in [Threads -> Nat]
    BY DEF Inv, TypeOK, CallFails, NoAnswer, TryAgain, GiveUp, Leave, Goto
  <2>2. /\ pc' \in [Threads -> Calls \cup {"idle"}]
        /\ file' \in [Threads -> Files \cup {NoFile}]
        /\ known' \in [Threads -> BOOLEAN]
    BY DEF Inv, TypeOK, CallFails, NoAnswer, TryAgain, GiveUp, Leave, Goto
  <2>3. QED
    BY <2>1, <2>2 DEF Inv, TypeOK, CallFails, awsVars, ghostVars
<1>2. FilesAreDrawn'
  BY DEF Inv, TypeOK, FilesAreDrawn, CallsAreOrdered, CallFails, NoAnswer,
     TryAgain, GiveUp, Leave, Goto, awsVars, ghostVars
<1>3. UploadersAreAlone'
  BY DEF Inv, TypeOK, FilesAreDrawn, UploadersAreAlone, Uploading, CallFails,
     NoAnswer, TryAgain, GiveUp, Leave, Goto, awsVars, ghostVars
<1>4. CallsAreOrdered'
  BY DEF Inv, TypeOK, FilesAreDrawn, UploadersAreAlone, CallsAreOrdered,
     HalvesAgree, Uploading, CallFails, NoAnswer, TryAgain, GiveUp, Leave,
     Goto, awsVars, ghostVars
<1>5. HalvesAgree'
  BY DEF Inv, TypeOK, FilesAreDrawn, CallsAreOrdered, HalvesAgree, Uploading,
     CallFails, NoAnswer, TryAgain, GiveUp, Leave, Goto, awsVars, ghostVars
<1>6. QED
  BY <1>1, <1>2, <1>3, <1>4, <1>5 DEF Inv

\* An attempt that took effect without an answer: the call may be made again.
LEMMA AnswerLostKeeps ==
  ASSUME Inv, NEW t \in Threads, AnswerLost(t)
  PROVE  Inv'
<1>1. TypeOK'
  <2>1. attempts' \in [Threads -> Nat]
    BY DEF Inv, TypeOK, AnswerLost, NoAnswer, TryAgain, GiveUp, Leave, Goto
  <2>2. /\ pc' \in [Threads -> Calls \cup {"idle"}]
        /\ file' \in [Threads -> Files \cup {NoFile}]
        /\ known' \in [Threads -> BOOLEAN]
    BY DEF Inv, TypeOK, AnswerLost, NoAnswer, TryAgain, GiveUp, Leave, Goto
  <2>3. pc[t] # "idle" => file[t] \in Files
    BY DEF Inv, TypeOK, FilesAreDrawn
  <2>4. QED
    BY <2>1, <2>2, <2>3 DEF Inv, TypeOK, AnswerLost, Effect
<1>2. FilesAreDrawn'
  BY DEF Inv, TypeOK, FilesAreDrawn, CallsAreOrdered, AnswerLost, Effect,
     NoAnswer, TryAgain, GiveUp, Leave, Goto
<1>3. UploadersAreAlone'
  BY DEF Inv, TypeOK, FilesAreDrawn, UploadersAreAlone, Uploading,
     AnswerLost, Effect, NoAnswer, TryAgain, GiveUp, Leave, Goto
<1>4. CallsAreOrdered'
  BY DEF Inv, TypeOK, FilesAreDrawn, UploadersAreAlone, CallsAreOrdered,
     HalvesAgree, Uploading, AnswerLost, Effect, NoAnswer, TryAgain, GiveUp,
     Leave, Goto
<1>5. HalvesAgree'
  BY DEF Inv, TypeOK, FilesAreDrawn, CallsAreOrdered, HalvesAgree, Uploading,
     AnswerLost, Effect, NoAnswer, TryAgain, GiveUp, Leave, Goto
<1>6. QED
  BY <1>1, <1>2, <1>3, <1>4, <1>5 DEF Inv

\* The drawn file is new, so no other thread works on it.
LEMMA StartUploadKeeps ==
  ASSUME Inv, NEW t \in Threads, StartUpload(t)
  PROVE  Inv'
<1>1. TypeOK'
  BY DEF Inv, TypeOK, FilesAreDrawn, Calls, StartUpload, Goto, awsVars,
     ghostVars
<1>2. FilesAreDrawn'
  BY DEF Inv, TypeOK, FilesAreDrawn, CallsAreOrdered, StartUpload, Goto,
     awsVars, ghostVars
<1>3. UploadersAreAlone'
  BY DEF Inv, TypeOK, FilesAreDrawn, UploadersAreAlone, Uploading,
     StartUpload, Goto, awsVars, ghostVars
<1>4. CallsAreOrdered'
  <2>1. /\ file'[t] \notin used
        /\ \A u \in Threads \ {t} : file'[u] = file[u] /\ pc'[u] = pc[u]
        /\ pc'[t] = "put_object"
        /\ UNCHANGED <<objects, records, condemned, uploaded, known>>
    BY DEF Inv, TypeOK, StartUpload, Goto, awsVars, ghostVars
  <2>2. known[t] = FALSE
    BY DEF Inv, TypeOK, CallsAreOrdered, StartUpload
  <2>3. QED
    BY <2>1, <2>2 DEF Inv, FilesAreDrawn, CallsAreOrdered, Uploading
<1>5. HalvesAgree'
  BY DEF Inv, TypeOK, FilesAreDrawn, CallsAreOrdered, HalvesAgree, Uploading,
     StartUpload, Goto, awsVars, ghostVars
<1>6. QED
  BY <1>1, <1>2, <1>3, <1>4, <1>5 DEF Inv

LEMMA ObjectPutKeeps ==
  ASSUME Inv, NEW t \in Threads, ObjectPut(t)
  PROVE  Inv'
<1>1. TypeOK'
  BY DEF Inv, TypeOK, FilesAreDrawn, Calls, ObjectPut, Effect, Goto
<1>2. FilesAreDrawn'
  BY DEF Inv, TypeOK, FilesAreDrawn, CallsAreOrdered, ObjectPut, Effect, Goto
<1>3. UploadersAreAlone'
  BY DEF Inv, TypeOK, FilesAreDrawn, UploadersAreAlone, Uploading, ObjectPut,
     Effect, Goto
<1>4. CallsAreOrdered'
  BY DEF Inv, TypeOK, FilesAreDrawn, UploadersAreAlone, CallsAreOrdered,
     HalvesAgree, Uploading, ObjectPut, Effect, Goto
<1>5. HalvesAgree'
  BY DEF Inv, TypeOK, FilesAreDrawn, CallsAreOrdered, HalvesAgree, Uploading,
     ObjectPut, Effect, Goto
<1>6. QED
  BY <1>1, <1>2, <1>3, <1>4, <1>5 DEF Inv

LEMMA RecordPutKeeps ==
  ASSUME Inv, NEW t \in Threads, RecordPut(t)
  PROVE  Inv'
<1>1. TypeOK'
  BY DEF Inv, TypeOK, FilesAreDrawn, Calls, RecordPut, Effect, Leave, Goto
<1>2. FilesAreDrawn'
  BY DEF Inv, TypeOK, FilesAreDrawn, CallsAreOrdered, RecordPut, Effect,
     Leave, Goto
<1>3. UploadersAreAlone'
  BY DEF Inv, TypeOK, FilesAreDrawn, UploadersAreAlone, Uploading, RecordPut,
     Effect, Leave, Goto
<1>4. CallsAreOrdered'
  BY DEF Inv, TypeOK, FilesAreDrawn, UploadersAreAlone, CallsAreOrdered,
     HalvesAgree, Uploading, RecordPut, Effect, Leave, Goto
<1>5. HalvesAgree'
  BY DEF Inv, TypeOK, FilesAreDrawn, CallsAreOrdered, HalvesAgree, Uploading,
     RecordPut, Effect, Leave, Goto
<1>6. QED
  BY <1>1, <1>2, <1>3, <1>4, <1>5 DEF Inv

LEMMA StartDeleteKeeps ==
  ASSUME Inv, NEW t \in Threads, StartDelete(t)
  PROVE  Inv'
<1>1. TypeOK'
  BY DEF Inv, TypeOK, FilesAreDrawn, Calls, StartDelete, Goto, awsVars,
     ghostVars
<1>2. FilesAreDrawn'
  BY DEF Inv, TypeOK, FilesAreDrawn, CallsAreOrdered, StartDelete, Goto,
     awsVars, ghostVars
<1>3. UploadersAreAlone'
  BY DEF Inv, TypeOK, FilesAreDrawn, UploadersAreAlone, Uploading,
     StartDelete, Goto, awsVars, ghostVars
<1>4. CallsAreOrdered'
  BY DEF Inv, TypeOK, FilesAreDrawn, UploadersAreAlone, CallsAreOrdered,
     HalvesAgree, Uploading, StartDelete, Goto, awsVars, ghostVars
<1>5. HalvesAgree'
  BY DEF Inv, TypeOK, FilesAreDrawn, CallsAreOrdered, HalvesAgree, Uploading,
     StartDelete, Goto, awsVars, ghostVars
<1>6. QED
  BY <1>1, <1>2, <1>3, <1>4, <1>5 DEF Inv

\* A record that is found is there, or is one a delete has removed.
LEMMA RecordFoundKeeps ==
  ASSUME Inv, NEW t \in Threads, RecordFound(t)
  PROVE  Inv'
<1>1. TypeOK'
  BY DEF Inv, TypeOK, FilesAreDrawn, Calls, RecordFound, Goto, awsVars,
     ghostVars
<1>2. FilesAreDrawn'
  BY DEF Inv, TypeOK, FilesAreDrawn, CallsAreOrdered, RecordFound, Goto,
     awsVars, ghostVars
<1>3. UploadersAreAlone'
  BY DEF Inv, TypeOK, FilesAreDrawn, UploadersAreAlone, Uploading,
     RecordFound, Goto, awsVars, ghostVars
<1>4. CallsAreOrdered'
  BY DEF Inv, TypeOK, FilesAreDrawn, UploadersAreAlone, CallsAreOrdered,
     HalvesAgree, Uploading, RecordFound, Goto, awsVars, ghostVars
<1>5. HalvesAgree'
  BY DEF Inv, TypeOK, FilesAreDrawn, CallsAreOrdered, HalvesAgree, Uploading,
     RecordFound, Goto, awsVars, ghostVars
<1>6. QED
  BY <1>1, <1>2, <1>3, <1>4, <1>5 DEF Inv

LEMMA RecordMissingKeeps ==
  ASSUME Inv, NEW t \in Threads, RecordMissing(t)
  PROVE  Inv'
<1>1. TypeOK'
  BY DEF Inv, TypeOK, FilesAreDrawn, Calls, RecordMissing, Leave, Goto,
     awsVars, ghostVars
<1>2. FilesAreDrawn'
  BY DEF Inv, TypeOK, FilesAreDrawn, CallsAreOrdered, RecordMissing, Leave,
     Goto, awsVars, ghostVars
<1>3. UploadersAreAlone'
  BY DEF Inv, TypeOK, FilesAreDrawn, UploadersAreAlone, Uploading,
     RecordMissing, Leave, Goto, awsVars, ghostVars
<1>4. CallsAreOrdered'
  BY DEF Inv, TypeOK, FilesAreDrawn, UploadersAreAlone, CallsAreOrdered,
     HalvesAgree, Uploading, RecordMissing, Leave, Goto, awsVars, ghostVars
<1>5. HalvesAgree'
  BY DEF Inv, TypeOK, FilesAreDrawn, CallsAreOrdered, HalvesAgree, Uploading,
     RecordMissing, Leave, Goto, awsVars, ghostVars
<1>6. QED
  BY <1>1, <1>2, <1>3, <1>4, <1>5 DEF Inv

LEMMA ObjectDeletedKeeps ==
  ASSUME Inv, NEW t \in Threads, ObjectDeleted(t)
  PROVE  Inv'
<1>1. TypeOK'
  BY DEF Inv, TypeOK, FilesAreDrawn, Calls, ObjectDeleted, Effect, Goto
<1>2. FilesAreDrawn'
  BY DEF Inv, TypeOK, FilesAreDrawn, CallsAreOrdered, ObjectDeleted, Effect,
     Goto
<1>3. UploadersAreAlone'
  BY DEF Inv, TypeOK, FilesAreDrawn, UploadersAreAlone, Uploading,
     ObjectDeleted, Effect, Goto
<1>4. CallsAreOrdered'
  BY DEF Inv, TypeOK, FilesAreDrawn, UploadersAreAlone, CallsAreOrdered,
     HalvesAgree, Uploading, ObjectDeleted, Effect, Goto
<1>5. HalvesAgree'
  BY DEF Inv, TypeOK, FilesAreDrawn, CallsAreOrdered, HalvesAgree, Uploading,
     ObjectDeleted, Effect, Goto
<1>6. QED
  BY <1>1, <1>2, <1>3, <1>4, <1>5 DEF Inv

\* The file of a known delete was uploaded and its object is gone.
LEMMA RecordDeletedKeeps ==
  ASSUME Inv, NEW t \in Threads, RecordDeleted(t)
  PROVE  Inv'
<1>1. TypeOK'
  BY DEF Inv, TypeOK, FilesAreDrawn, Calls, RecordDeleted, Effect, Leave, Goto
<1>2. FilesAreDrawn'
  BY DEF Inv, TypeOK, FilesAreDrawn, CallsAreOrdered, RecordDeleted, Effect,
     Leave, Goto
<1>3. UploadersAreAlone'
  BY DEF Inv, TypeOK, FilesAreDrawn, UploadersAreAlone, Uploading,
     RecordDeleted, Effect, Leave, Goto
<1>4. CallsAreOrdered'
  BY DEF Inv, TypeOK, FilesAreDrawn, UploadersAreAlone, CallsAreOrdered,
     HalvesAgree, Uploading, RecordDeleted, Effect, Leave, Goto
<1>5. HalvesAgree'
  BY DEF Inv, TypeOK, FilesAreDrawn, CallsAreOrdered, HalvesAgree, Uploading,
     RecordDeleted, Effect, Leave, Goto
<1>6. QED
  BY <1>1, <1>2, <1>3, <1>4, <1>5 DEF Inv

\* A replica catches up.
LEMMA ReplicateKeeps == Inv /\ Replicate => Inv'
BY DEF Inv, TypeOK, FilesAreDrawn, UploadersAreAlone, CallsAreOrdered,
   HalvesAgree, Uploading, Replicate, localVars, ghostVars

\* After a restart no thread relies on anything.
LEMMA RestartKeeps == Inv /\ Restart => Inv'
BY DEF Inv, TypeOK, FilesAreDrawn, UploadersAreAlone, CallsAreOrdered,
   HalvesAgree, Uploading, Restart, awsVars, ghostVars

LEMMA StutterKeeps == Inv /\ UNCHANGED vars => Inv'
BY DEF Inv, TypeOK, FilesAreDrawn, UploadersAreAlone, CallsAreOrdered,
   HalvesAgree, Uploading, vars

-----------------------------------------------------------------------------
(* The theorems                                                             *)

\* Every reachable state satisfies the inductive invariant.
THEOREM Invariance == Spec => []Inv
<1>1. Init => Inv
  BY DEF Init, Inv, TypeOK, FilesAreDrawn, UploadersAreAlone, CallsAreOrdered,
     HalvesAgree, Uploading
<1>2. Inv /\ [Next]_vars => Inv'
  <2>1. ASSUME Inv, NEW t \in Threads, Step(t)
        PROVE  Inv'
    BY <2>1, CallFailsKeeps, AnswerLostKeeps, StartUploadKeeps, ObjectPutKeeps,
       RecordPutKeeps, StartDeleteKeeps, RecordFoundKeeps, RecordMissingKeeps,
       ObjectDeletedKeeps, RecordDeletedKeeps DEF Step
  <2>2. QED
    BY <2>1, ReplicateKeeps, RestartKeeps, StutterKeeps DEF Next
<1>3. QED
  BY <1>1, <1>2, PTL DEF Spec

\* All variables keep their types.
THEOREM TypeCorrectness == Spec => []TypeOK
<1>1. Inv => TypeOK
  BY DEF Inv
<1>2. QED
  BY <1>1, Invariance, PTL

\* No record loses its object except to a delete.
THEOREM NoDanglingUploads == Spec => []DanglingOnlyByDelete
<1>1. Inv => DanglingOnlyByDelete
  BY DEF Inv, HalvesAgree, DanglingOnlyByDelete
<1>2. QED
  BY <1>1, Invariance, PTL

\* An answered upload has both its halves until a delete.
THEOREM UploadDurability == Spec => []UploadsAreDurable
<1>1. Inv => UploadsAreDurable
  BY DEF Inv, HalvesAgree, UploadsAreDurable
<1>2. QED
  BY <1>1, Invariance, PTL

\* An object without a record belongs to an upload that was not answered.
THEOREM OrphanOrigin == Spec => []OrphansAreUnanswered
<1>1. Inv => OrphansAreUnanswered
  BY DEF Inv, TypeOK, HalvesAgree, OrphansAreUnanswered
<1>2. QED
  BY <1>1, Invariance, PTL

\* What an answered delete removed stays removed.
THEOREM DeletePermanence == Spec => []DeletedStaysDeleted
<1>1. Inv => DeletedStaysDeleted
  BY DEF Inv, HalvesAgree, DeletedStaysDeleted
<1>2. QED
  BY <1>1, Invariance, PTL

-----------------------------------------------------------------------------
(* Every step is a publication, a withdrawal or no change of the lifecycle. *)

LEMMA StatusUnchanged ==
  ASSUME UNCHANGED <<objects, records, condemned>>
  PROVE  UNCHANGED fileStatus
BY DEF fileStatus

\* put_object writes an object that has no record; put_item publishes a file
\* unless its object is gone; delete_object withdraws it; delete_item removes
\* the record of a file that is gone already.
LEMMA EffectRefines ==
  ASSUME Inv, NEW t \in Threads, Effect(t)
  PROVE  [Lifecycle!LifecycleNext]_fileStatus
<1> DEFINE f == file[t]
<1>1. f \in Files
  BY DEF Inv, TypeOK, FilesAreDrawn, Effect
<1>2. CASE pc[t] = "put_object"
  <2>1. f \notin records /\ f \notin condemned
    BY <1>2 DEF Inv, CallsAreOrdered
  <2>2. UNCHANGED fileStatus
    BY <1>2, <2>1 DEF Effect, fileStatus
  <2>3. QED
    BY <2>2
<1>3. CASE pc[t] = "put_item"
  <2>1. records' = records \cup {f} /\ UNCHANGED <<objects, condemned>>
    BY <1>3 DEF Effect
  <2>2. CASE f \in records \/ f \notin objects
    <3>1. UNCHANGED fileStatus
      BY <2>1, <2>2 DEF fileStatus
    <3>2. QED
      BY <3>1
  <2>3. CASE f \notin records /\ f \in objects
    <3>1. f \notin condemned
      BY <2>3 DEF Inv, HalvesAgree
    <3>2. fileStatus[f] = "new"
      BY <1>1, <2>3, <3>1 DEF fileStatus
    <3>3. fileStatus' = [fileStatus EXCEPT ![f] = "available"]
      BY <1>1, <2>1, <2>3 DEF fileStatus
    <3>4. QED
      BY <1>1, <3>2, <3>3 DEF Lifecycle!LifecycleNext, Lifecycle!Publish
  <2>4. QED
    BY <2>2, <2>3
<1>4. CASE pc[t] = "delete_object"
  <2>1. objects' = objects \ {f} /\ condemned' = condemned \cup {f}
        /\ UNCHANGED records
    BY <1>4 DEF Effect
  <2>2. CASE f \in condemned
    <3>1. UNCHANGED fileStatus
      BY <2>1, <2>2 DEF Inv, HalvesAgree, fileStatus
    <3>2. QED
      BY <3>1
  <2>3. CASE f \notin condemned
    <3>1. f \in records /\ f \in objects
      BY <1>4, <2>3 DEF Inv, CallsAreOrdered, HalvesAgree
    <3>2. fileStatus[f] = "available"
      BY <1>1, <3>1 DEF fileStatus
    <3>3. fileStatus' = [fileStatus EXCEPT ![f] = "gone"]
      BY <1>1, <2>1, <3>1 DEF fileStatus
    <3>4. QED
      BY <1>1, <3>2, <3>3 DEF Lifecycle!LifecycleNext, Lifecycle!Withdraw
  <2>4. QED
    BY <2>2, <2>3
<1>5. CASE pc[t] = "delete_item"
  <2>1. f \in condemned /\ f \notin objects
    BY <1>5 DEF Inv, CallsAreOrdered, HalvesAgree
  <2>2. UNCHANGED fileStatus
    BY <1>5, <2>1 DEF Effect, fileStatus
  <2>3. QED
    BY <2>2
<1>6. QED
  BY <1>2, <1>3, <1>4, <1>5 DEF Effect

\* The file routes implement the lifecycle, whatever fails, is repeated or
\* overtaken, and however often the process restarts.
THEOREM FileStoreImplementsLifecycle == Spec => ImplementsLifecycle
<1>1. Init => Lifecycle!LifecycleInit
  BY DEF Init, Lifecycle!LifecycleInit, fileStatus
<1>2. Inv /\ [Next]_vars => [Lifecycle!LifecycleNext]_fileStatus
  <2>1. ASSUME Inv, NEW t \in Threads, Step(t)
        PROVE  [Lifecycle!LifecycleNext]_fileStatus
    <3>1. CASE Effect(t)
      BY <2>1, <3>1, EffectRefines
    <3>2. CASE ~ Effect(t)
      <4>1. UNCHANGED <<objects, records, condemned>>
        BY <2>1, <3>2 DEF Step, CallFails, AnswerLost, StartUpload, ObjectPut,
           RecordPut, StartDelete, RecordFound, RecordMissing, ObjectDeleted,
           RecordDeleted, awsVars, ghostVars
      <4>2. QED
        BY <4>1, StatusUnchanged
    <3>3. QED
      BY <3>1, <3>2
  <2>2. ASSUME Replicate \/ Restart \/ UNCHANGED vars
        PROVE  UNCHANGED fileStatus
    <3>1. UNCHANGED <<objects, records, condemned>>
      BY <2>2 DEF Replicate, Restart, vars, awsVars, ghostVars
    <3>2. QED
      BY <3>1, StatusUnchanged
  <2>3. QED
    BY <2>1, <2>2 DEF Next
<1>3. QED
  BY <1>1, <1>2, Invariance, PTL DEF Spec, ImplementsLifecycle, Lifecycle!LifecycleSpec
=============================================================================
