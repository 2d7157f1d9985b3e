------------------------------ MODULE FileStore ------------------------------
(***************************************************************************)
(* The file routes (demo-app/app/routes/files.py): a file is an object in   *)
(* S3 and a metadata record in DynamoDB.  An upload writes the object, then *)
(* the record; a delete reads the record, removes the object, then the      *)
(* record.  Nothing ties the calls together: each may fail, the process may *)
(* die between two of them, and botocore repeats a call whose answer it did *)
(* not get, although the call may have taken effect.  (A call is taken to    *)
(* act, if at all, before botocore gives up waiting for its answer.)         *)
(*                                                                          *)
(* GET /files and GET /files/{file_id} only read: what they may return is   *)
(* what the properties say of records and objects.                          *)
(***************************************************************************)
EXTENDS Naturals, FiniteSets

CONSTANTS
    Threads,       \* worker threads that serve requests
    Files,         \* the file ids uploads may draw
    MaxAttempts,   \* attempts botocore makes per call (4 with _DEFAULT_RETRIES)
    NoFile

ASSUME AttemptAssumption == MaxAttempts \in Nat \ {0}
ASSUME FileAssumption == NoFile \notin Files

VARIABLES
    objects,    \* external: the objects in the bucket
    records,    \* external: the records in the files table
    lagging,    \* external: records whose last change some replica has not seen
    used,       \* the file ids drawn so far: every new_id is a new one
    pc,         \* the call each thread makes next
    file,       \* the file each thread works on
    attempts,   \* attempts made so far of that call
    known,      \* ghost: the upload was answered before this delete arrived
    uploaded,   \* ghost: files whose upload was answered 201
    condemned,  \* ghost: files whose object a delete has removed
    erased      \* ghost: known files whose delete was answered 200

awsVars   == <<objects, records, lagging>>
localVars == <<pc, file, attempts, known>>
ghostVars == <<uploaded, condemned, erased>>
vars == <<objects, records, lagging, used, pc, file, attempts, known,
          uploaded, condemned, erased>>

Calls == {"put_object", "put_item", "get_item", "delete_object", "delete_item"}

TypeOK ==
    /\ objects \subseteq Files
    /\ records \subseteq Files
    /\ lagging \subseteq Files
    /\ used \subseteq Files
    /\ pc \in [Threads -> Calls \cup {"idle"}]
    /\ file \in [Threads -> Files \cup {NoFile}]
    /\ attempts \in [Threads -> Nat]
    /\ known \in [Threads -> BOOLEAN]
    /\ uploaded \subseteq Files
    /\ condemned \subseteq Files
    /\ erased \subseteq Files

Init ==
    /\ objects = {}
    /\ records = {}
    /\ lagging = {}
    /\ used = {}
    /\ pc = [t \in Threads |-> "idle"]
    /\ file = [t \in Threads |-> NoFile]
    /\ attempts = [t \in Threads |-> 0]
    /\ known = [t \in Threads |-> FALSE]
    /\ uploaded = {}
    /\ condemned = {}
    /\ erased = {}

-----------------------------------------------------------------------------
(* A boto3 call takes effect or not, and its answer arrives or not.  Without *)
(* an answer it is made again, until the attempts are used up and the        *)
(* exception ends the request.                                               *)

Goto(t, call) ==
    /\ pc' = [pc EXCEPT ![t] = call]
    /\ attempts' = [attempts EXCEPT ![t] = 0]

Leave(t) ==
    /\ Goto(t, "idle")
    /\ file' = [file EXCEPT ![t] = NoFile]
    /\ known' = [known EXCEPT ![t] = FALSE]

TryAgain(t) ==
    /\ attempts[t] + 1 < MaxAttempts
    /\ attempts' = [attempts EXCEPT ![t] = @ + 1]
    /\ UNCHANGED <<pc, file, known>>

GiveUp(t) ==
    /\ attempts[t] + 1 >= MaxAttempts
    /\ Leave(t)

NoAnswer(t) == TryAgain(t) \/ GiveUp(t)

\* What each call does to AWS when it takes effect.
Effect(t) ==
    LET f == file[t] IN
      \/ /\ pc[t] = "put_object"
         /\ objects' = objects \cup {f}
         /\ UNCHANGED <<records, lagging, condemned>>
      \/ /\ pc[t] = "put_item"
         /\ records' = records \cup {f}
         /\ lagging' = lagging \cup {f}
         /\ UNCHANGED <<objects, condemned>>
      \/ /\ pc[t] = "delete_object"
         /\ objects' = objects \ {f}
         /\ condemned' = condemned \cup {f}
         /\ UNCHANGED <<records, lagging>>
      \/ /\ pc[t] = "delete_item"
         /\ records' = records \ {f}
         /\ lagging' = lagging \cup {f}
         /\ UNCHANGED <<objects, condemned>>

\* Mutant of CallFails: an upload goes on when put_object has failed for good.
CallFailsIgnored(t) ==
    /\ pc[t] # "idle"
    /\ IF pc[t] = "put_object" /\ attempts[t] + 1 >= MaxAttempts
       THEN Goto(t, "put_item") /\ UNCHANGED <<file, known>>
       ELSE NoAnswer(t)
    /\ UNCHANGED <<awsVars, used, ghostVars>>

CallFails(t) ==
    /\ pc[t] # "idle"
    /\ NoAnswer(t)
    /\ UNCHANGED <<awsVars, used, ghostVars>>

AnswerLost(t) ==
    /\ Effect(t)
    /\ NoAnswer(t)
    /\ UNCHANGED <<used, uploaded, erased>>

-----------------------------------------------------------------------------
(* upload_file                                                              *)

StartUpload(t) ==
    /\ pc[t] = "idle"
    /\ \E f \in Files \ used :
         /\ used' = used \cup {f}
         /\ file' = [file EXCEPT ![t] = f]
    /\ Goto(t, "put_object")
    /\ UNCHANGED <<awsVars, known, ghostVars>>

ObjectPut(t) ==
    /\ pc[t] = "put_object"
    /\ Effect(t)
    /\ Goto(t, "put_item")
    /\ UNCHANGED <<used, file, known, uploaded, erased>>

\* Mutant of RecordPut: 201 is answered without waiting for put_item.
RecordPutUnawaited(t) ==
    /\ pc[t] = "put_item"
    /\ uploaded' = uploaded \cup {file[t]}
    /\ Leave(t)
    /\ UNCHANGED <<awsVars, used, condemned, erased>>

RecordPut(t) ==
    /\ pc[t] = "put_item"
    /\ Effect(t)
    /\ uploaded' = uploaded \cup {file[t]}
    /\ Leave(t)
    /\ UNCHANGED <<used, erased>>

-----------------------------------------------------------------------------
(* delete_file                                                              *)

StartDelete(t) ==
    /\ pc[t] = "idle"
    /\ \E f \in used :
         /\ file' = [file EXCEPT ![t] = f]
         /\ known' = [known EXCEPT ![t] = (f \in uploaded)]
    /\ Goto(t, "get_item")
    /\ UNCHANGED <<awsVars, used, ghostVars>>

\* Mutants of RecordFound: the object is forgotten, or the check for an item.
RecordFoundKeepsObject(t) ==
    /\ pc[t] = "get_item"
    /\ file[t] \in records \cup lagging
    /\ Goto(t, "delete_item")
    /\ UNCHANGED <<awsVars, used, file, known, ghostVars>>

RecordFoundUnchecked(t) ==
    /\ pc[t] = "get_item"
    /\ Goto(t, "delete_object")
    /\ UNCHANGED <<awsVars, used, file, known, ghostVars>>

\* get_item reads any replica: an old one may still have a deleted record, or
\* not yet have a new one.
RecordFound(t) ==
    /\ pc[t] = "get_item"
    /\ file[t] \in records \cup lagging
    /\ Goto(t, "delete_object")
    /\ UNCHANGED <<awsVars, used, file, known, ghostVars>>

\* Mutant of RecordMissing: a missing record is answered as a deleted one.
RecordMissingIsDeleted(t) ==
    /\ pc[t] = "get_item"
    /\ file[t] \notin records \/ file[t] \in lagging
    /\ erased' = IF known[t] THEN erased \cup {file[t]} ELSE erased
    /\ Leave(t)
    /\ UNCHANGED <<awsVars, used, uploaded, condemned>>

RecordMissing(t) ==
    /\ pc[t] = "get_item"
    /\ file[t] \notin records \/ file[t] \in lagging
    /\ Leave(t)
    /\ UNCHANGED <<awsVars, used, ghostVars>>

ObjectDeleted(t) ==
    /\ pc[t] = "delete_object"
    /\ Effect(t)
    /\ Goto(t, "delete_item")
    /\ UNCHANGED <<used, file, known, uploaded, erased>>

RecordDeleted(t) ==
    /\ pc[t] = "delete_item"
    /\ Effect(t)
    /\ erased' = IF known[t] THEN erased \cup {file[t]} ELSE erased
    /\ Leave(t)
    /\ UNCHANGED <<used, uploaded>>

-----------------------------------------------------------------------------
Replicate == \E f \in lagging :
    /\ lagging' = lagging \ {f}
    /\ UNCHANGED <<objects, records, used, localVars, ghostVars>>

\* The process dies with every request in it; AWS keeps what it has.
Restart ==
    /\ pc' = [t \in Threads |-> "idle"]
    /\ file' = [t \in Threads |-> NoFile]
    /\ attempts' = [t \in Threads |-> 0]
    /\ known' = [t \in Threads |-> FALSE]
    /\ UNCHANGED <<awsVars, used, ghostVars>>

Step(t) == \/ CallFails(t) \/ AnswerLost(t)
           \/ StartUpload(t) \/ ObjectPut(t) \/ RecordPut(t)
           \/ StartDelete(t) \/ RecordFound(t) \/ RecordMissing(t)
           \/ ObjectDeleted(t) \/ RecordDeleted(t)

Next == (\E t \in Threads : Step(t)) \/ Replicate \/ Restart

Spec == Init /\ [][Next]_vars

-----------------------------------------------------------------------------
(* Properties                                                               *)

\* A record without its object, whose download link leads nowhere, is left
\* only by a delete: the upload writes the object before the record.
DanglingOnlyByDelete == records \ objects \subseteq condemned

\* An upload that was answered stays complete until somebody deletes it.
UploadsAreDurable == uploaded \ condemned \subseteq objects \cap records

\* Storage leaks, as objects no record leads to, only through uploads that
\* were never answered: a delete that stops half-way leaves the record, so
\* the file is still listed and can be deleted again.
OrphansAreUnanswered == objects \ records \subseteq Files \ uploaded

\* Once a file whose upload had been answered is deleted with an answer, both
\* its halves stay away for good.
DeletedStaysDeleted == erased \cap (objects \cup records) = {}

\* A file is available while it has both its halves; what withdraws it is
\* the removal of its object.
fileStatus ==
    [f \in Files |-> IF f \in records \cap objects THEN "available"
                     ELSE IF f \in condemned THEN "gone" ELSE "new"]

Lifecycle == INSTANCE FileLifecycle WITH status <- fileStatus

\* No file comes back to life as a whole, even one whose upload was still
\* repeating a call when a delete overtook it.
ImplementsLifecycle == Lifecycle!LifecycleSpec
=============================================================================
