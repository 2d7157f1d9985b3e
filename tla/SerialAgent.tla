---------------------------- MODULE SerialAgent ----------------------------
(***************************************************************************)
(* What the lock of the security agent makes of its threads: one agent     *)
(* that does one job at a time.  A job is a scan, or the fixes of findings *)
(* that failed in a retained scan followed by a scan; nothing else is      *)
(* read, fixed or stored before the job is done, given up or lost.         *)
(***************************************************************************)
EXTENDS Naturals, Sequences

CONSTANTS Checks, Driftable, Settings, Unread, HistoryLimit

VARIABLES
    aws,      \* the setting of every control
    history,  \* the retained scans, oldest first
    created,  \* scans so far
    job       \* the job under way, its findings and the fixes it has to make

Rest == [at |-> "rest", found |-> Unread, todo |-> {}]

SerialInit == aws \in [Checks -> Settings] /\ history = <<>> /\ created = 0 /\ job = Rest

Begin(next) == job' = next /\ UNCHANGED <<aws, history, created>>

BeginScan == job = Rest /\ Begin([Rest EXCEPT !.at = "reading"])

\* The fixes rest on one retained scan.
BeginFixes(F) ==
    /\ job = Rest
    /\ \E i \in DOMAIN history : \A c \in F : history[i].findings[c] = "fail"
    /\ Begin([at |-> "fixing", found |-> Unread, todo |-> F])

Read(c) ==
    /\ job.at = "reading"
    /\ \E v \in {IF aws[c] = "insecure" THEN "fail" ELSE "pass", "error"} :
        Begin([job EXCEPT !.found = [@ EXCEPT ![c] = v]])

GiveUp == job.at = "reading" /\ Begin(Rest)

Newest(h) ==
    IF Len(h) > HistoryLimit THEN SubSeq(h, Len(h) - HistoryLimit + 1, Len(h)) ELSE h

Publish ==
    /\ job.at = "reading" /\ \A c \in Checks : job.found[c] # "unread"
    /\ created' = created + 1
    /\ history' = Newest(Append(history, [id |-> created', findings |-> job.found]))
    /\ job' = Rest
    /\ UNCHANGED aws

\* Each fix once, and with effect or not.
Fix(c) ==
    /\ job.at = "fixing" /\ c \in job.todo
    /\ job' = [job EXCEPT !.todo = @ \ {c}]
    /\ aws' \in {aws, [aws EXCEPT ![c] = "baseline"]}
    /\ UNCHANGED <<history, created>>

ScanAgain == job.at = "fixing" /\ job.todo = {} /\ Begin([Rest EXCEPT !.at = "reading"])

Changed ==
    /\ \E c \in Driftable, s \in Settings : aws' = [aws EXCEPT ![c] = s]
    /\ UNCHANGED <<history, created, job>>

Forgotten == job' = Rest /\ history' = <<>> /\ UNCHANGED <<aws, created>>

SerialNext ==
    \/ BeginScan \/ GiveUp \/ Publish \/ ScanAgain
    \/ \E F \in SUBSET Checks : BeginFixes(F)
    \/ \E c \in Checks : Read(c) \/ Fix(c)
    \/ Changed \/ Forgotten

SerialSpec == SerialInit /\ [][SerialNext]_<<aws, history, created, job>>
=============================================================================
