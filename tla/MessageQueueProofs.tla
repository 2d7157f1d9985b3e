------------------------- MODULE MessageQueueProofs -------------------------
(***************************************************************************)
(* What holds of the queue's routes for any number of sends, receives,     *)
(* attempts and messages in a batch.                                       *)
(***************************************************************************)
EXTENDS MessageQueue, TLAPS

\* A copy leaves the queue with the queue itself, or by the delete of a
\* receive that was handed it and is over.
DeletedForAReason ==
    \A c \in Copies : copy[c] = "deleted" =>
        \/ c[1] \in purged
        \/ \E r \in Receives : c \in got[r] /\ at[r] \in {"ok", "error"}

\* A send that is still under way has not used its later attempts, and one
\* that was answered has put a copy into the queue.
AttemptsInOrder ==
    /\ \A m \in Messages, k \in 1 .. MaxAttempts :
        at[m] \notin {"ok", "error"} /\ tries[m] < k => copy[<<m, k>>] = "none"
    /\ \A m \in Messages : at[m] = "ok" => \E k \in 1 .. MaxAttempts : copy[<<m, k>>] # "none"

\* The answer of a receive is what it was handed.
AnswersAreHanded ==
    \A r \in Receives :
        /\ at[r] \in {"delete", "ok"} => out[r] = got[r]
        /\ at[r] \notin {"delete", "ok", "error"} => got[r] = {}

\* What was handed to a receive is not in sight until it is deleted, unless
\* SQS shows it again; so two receives that will both answer it are excused.
HandedOnce ==
    /\ \A r \in Receives : \A c \in got[r] :
        /\ copy[c] # "none"
        /\ at[r] = "delete" => copy[c] \in {"hidden", "deleted"} \/ c \in excused
        /\ at[r] = "ok" => copy[c] = "deleted" \/ c \in excused
    /\ \A r, q \in Receives :
        r # q /\ {at[r], at[q]} \subseteq {"delete", "ok"} => got[r] \cap got[q] \subseteq excused

\* The inductive invariant.
Inv == TypeOK /\ DeletedForAReason /\ AttemptsInOrder /\ AnswersAreHanded /\ HandedOnce

-----------------------------------------------------------------------------
LEMMA CopyPairs ==
    ASSUME NEW m \in Messages, NEW k \in 1 .. MaxAttempts
    PROVE  <<m, k>> \in Copies
BY DEF Copies

\* Become changes the state of the copies in S and no other.
LEMMA Becomes ==
    ASSUME TypeOK, NEW S, NEW state \in {"visible", "hidden", "deleted"}, Become(S, state)
    PROVE  /\ copy' \in [Copies -> {"none", "visible", "hidden", "deleted"}]
           /\ \A c \in Copies : copy'[c] = IF c \in S THEN state ELSE copy[c]
BY DEF Become, TypeOK

LEMMA InvInit == Init => Inv
<1> SUFFICES ASSUME Init PROVE Inv
  OBVIOUS
<1>1. TypeOK
  <2>1. queue \in BOOLEAN /\ url \in BOOLEAN
    BY DEF Init
  <2>2. at \in [Requests -> Calls \cup {"new", "ok", "error"}]
    BY DEF Init
  <2>3. 0 \in 0 .. MaxAttempts - 1
    BY BoundsAssumption
  <2>4. /\ tries \in [Messages -> 0 .. MaxAttempts - 1]
        /\ copy \in [Copies -> {"none", "visible", "hidden", "deleted"}]
    BY <2>3 DEF Init
  <2>5. /\ got \in [Receives -> SUBSET Copies] /\ out \in [Receives -> SUBSET Copies]
        /\ purged \subseteq Messages /\ excused \subseteq Copies
    BY DEF Init
  <2>. QED BY <2>1, <2>2, <2>4, <2>5 DEF TypeOK
<1>2. DeletedForAReason
  BY DEF Init, DeletedForAReason
<1>3. AttemptsInOrder
  BY CopyPairs DEF Init, AttemptsInOrder, Requests
<1>4. AnswersAreHanded /\ HandedOnce
  BY DEF Init, AnswersAreHanded, HandedOnce, Requests
<1>. QED BY <1>1, <1>2, <1>3, <1>4 DEF Inv

\* The calls that resolve the queue's URL touch no copy and answer nobody.
LEMMA UrlKeeps ==
    ASSUME Inv, NEW r \in Requests,
           Start(r) \/ UrlFound(r) \/ UrlNotFound(r) \/ QueueCreated(r) \/ UrlCallFails(r)
    PROVE  Inv'
<1>1. /\ UNCHANGED <<copy, tries, got, out, purged, excused>>
      /\ at[r] \in {"new", "get_queue_url", "create_queue"}
      /\ at' = [at EXCEPT ![r] = at'[r]]
      /\ at'[r] \in {"get_queue_url", "create_queue", "send", "receive", "error"}
      /\ r \in Messages => at'[r] # "receive"
      /\ queue' \in BOOLEAN /\ url' \in BOOLEAN
  BY DEF Inv, TypeOK, Start, UrlFound, UrlNotFound, QueueCreated, UrlCallFails, Goto, AfterUrl,
         ghosts, sqs
<1>2. TypeOK'
  BY <1>1 DEF Inv, TypeOK, Calls
<1>3. DeletedForAReason'
  BY <1>1 DEF Inv, TypeOK, DeletedForAReason, Requests
<1>4. AttemptsInOrder'
  BY <1>1 DEF Inv, TypeOK, AttemptsInOrder, Requests
<1>5. AnswersAreHanded'
  BY <1>1 DEF Inv, TypeOK, AnswersAreHanded, Requests
<1>6. HandedOnce'
  BY <1>1 DEF Inv, TypeOK, HandedOnce, Requests
<1>. QED BY <1>2, <1>3, <1>4, <1>5, <1>6 DEF Inv

\* A send puts the copy of its attempt, which was not there, into the queue or
\* does not.
LEMMA SendKeeps ==
    ASSUME Inv, NEW m \in Messages, Sent(m) \/ NoAnswer(m) \/ SendRefused(m)
    PROVE  Inv'
<1> DEFINE c == <<m, tries[m] + 1>>
<1>1. /\ at[m] = "send" /\ tries[m] \in Nat /\ tries[m] + 1 \in 1 .. MaxAttempts
      /\ c \in Copies /\ copy[c] = "none" /\ MaxAttempts \in Nat
      /\ m \notin Receives /\ m \in Requests
  <2>1. at[m] = "send" /\ tries[m] \in Nat /\ tries[m] + 1 \in 1 .. MaxAttempts
    BY BoundsAssumption DEF Inv, TypeOK, Sent, NoAnswer, SendRefused
  <2>2. copy[<<m, tries[m] + 1>>] = "none"
    BY <2>1 DEF Inv, AttemptsInOrder
  <2>. QED BY <2>1, <2>2, CopyPairs, BoundsAssumption, RequestsAssumption DEF Requests
<1> HIDE DEF c
<1>2. UNCHANGED <<queue, url, got, out, purged, excused>>
  BY DEF Sent, NoAnswer, SendRefused, ghosts, sqs
<1>3. /\ copy' \in [Copies -> {"none", "visible", "hidden", "deleted"}]
      /\ \A d \in Copies : d # c => copy'[d] = copy[d]
      /\ copy'[c] \in {"none", "visible"}
      /\ \A d \in Copies : copy[d] # "none" => copy'[d] = copy[d]
  <2>1. Become({c}, "visible") \/ UNCHANGED copy
    BY DEF Sent, NoAnswer, SendRefused, sqs, c
  <2>. QED BY <2>1, <1>1, Becomes DEF Inv, TypeOK
<1>4. /\ at' = [at EXCEPT ![m] = at'[m]] /\ at'[m] \in {"send", "ok", "error"}
      /\ tries' = [tries EXCEPT ![m] = tries'[m]] /\ tries'[m] \in 0 .. MaxAttempts - 1
      /\ at'[m] = "send" => tries'[m] = tries[m] + 1
      /\ at'[m] = "ok" => copy'[c] = "visible"
  <2>1. CASE Sent(m)
    BY <2>1, <1>1, Becomes DEF Sent, Goto, Inv, TypeOK, c
  <2>2. CASE NoAnswer(m)
    BY <2>2, <1>1 DEF NoAnswer, Goto, Inv, TypeOK
  <2>3. CASE SendRefused(m)
    BY <2>3, <1>1 DEF SendRefused, Goto, Inv, TypeOK
  <2>. QED BY <2>1, <2>2, <2>3
<1>5. \A r \in Receives : at'[r] = at[r]
  BY <1>1, <1>4 DEF Inv, TypeOK, Requests
<1>6. TypeOK'
  BY <1>1, <1>2, <1>3, <1>4 DEF Inv, TypeOK, Calls
<1>7. DeletedForAReason'
  BY <1>1, <1>2, <1>3, <1>5 DEF Inv, DeletedForAReason
<1>8. AttemptsInOrder'
  <2>1. ASSUME NEW n \in Messages, NEW k \in 1 .. MaxAttempts,
               at'[n] \notin {"ok", "error"}, tries'[n] < k
        PROVE  copy'[<<n, k>>] = "none"
    <3>1. CASE n = m
      <4>1. tries[m] < k /\ k # tries[m] + 1
        BY <1>1, <1>4, <2>1, <3>1
      <4>2. copy[<<m, k>>] = "none" /\ <<m, k>> # c /\ <<m, k>> \in Copies
        BY <1>1, <4>1, CopyPairs DEF Inv, AttemptsInOrder, c
      <4>. QED BY <1>3, <3>1, <4>2
    <3>2. CASE n # m
      <4>1. copy[<<n, k>>] = "none" /\ <<n, k>> # c /\ <<n, k>> \in Copies
        BY <1>4, <2>1, <3>2, CopyPairs DEF Inv, TypeOK, AttemptsInOrder, c, Requests
      <4>. QED BY <1>3, <4>1
    <3>. QED BY <3>1, <3>2
  <2>2. ASSUME NEW n \in Messages, at'[n] = "ok"
        PROVE  \E k \in 1 .. MaxAttempts : copy'[<<n, k>>] # "none"
    <3>1. CASE n = m
      BY <1>1, <1>4, <2>2, <3>1 DEF c
    <3>2. CASE n # m
      <4>1. PICK k \in 1 .. MaxAttempts : copy[<<n, k>>] # "none"
        BY <1>4, <2>2, <3>2 DEF Inv, TypeOK, AttemptsInOrder, Requests
      <4>. QED BY <1>3, <4>1, CopyPairs
    <3>. QED BY <3>1, <3>2
  <2>. QED BY <2>1, <2>2 DEF AttemptsInOrder
<1>9. AnswersAreHanded'
  BY <1>2, <1>5 DEF Inv, AnswersAreHanded
<1>10. HandedOnce'
  BY <1>2, <1>3, <1>5 DEF Inv, TypeOK, HandedOnce
<1>. QED BY <1>6, <1>7, <1>8, <1>9, <1>10 DEF Inv

\* A receive is handed copies in sight only.
LEMMA ReceivedKeeps ==
    ASSUME Inv, NEW r \in Receives, Received(r)
    PROVE  Inv'
<1>1. PICK S \in SUBSET CopiesIn("visible"), L \in SUBSET CopiesIn("visible") :
        /\ Become(S \cup L, "hidden")
        /\ got' = [got EXCEPT ![r] = S]
        /\ out' = [out EXCEPT ![r] = S]
        /\ Goto(r, AfterReceive(S))
  BY DEF Received, Answer
<1>2. /\ at[r] = "receive" /\ r \in Requests /\ r \notin Messages
      /\ UNCHANGED <<queue, url, tries, purged, excused>>
  BY RequestsAssumption DEF Received, ghosts, Requests
<1>3. /\ S \subseteq Copies /\ L \subseteq Copies
      /\ \A c \in S \cup L : copy[c] = "visible"
  BY <1>1 DEF CopiesIn
<1>4. /\ copy' \in [Copies -> {"none", "visible", "hidden", "deleted"}]
      /\ \A c \in Copies : copy'[c] = IF c \in S \cup L THEN "hidden" ELSE copy[c]
  BY <1>1, Becomes DEF Inv
<1>5. /\ at' = [at EXCEPT ![r] = at'[r]] /\ at'[r] \in {"ok", "delete"}
      /\ at'[r] = "ok" => S = {}
  BY <1>1, <1>2 DEF Goto, AfterReceive, Inv, TypeOK
<1>6. TypeOK'
  BY <1>1, <1>2, <1>3, <1>4, <1>5 DEF Inv, TypeOK, Calls
<1>7. DeletedForAReason'
  <2>1. ASSUME NEW c \in Copies, copy'[c] = "deleted", c[1] \notin purged
        PROVE  \E q \in Receives : c \in got'[q] /\ at'[q] \in {"ok", "error"}
    <3>1. copy[c] = "deleted"
      BY <1>4, <2>1
    <3>2. PICK q \in Receives : c \in got[q] /\ at[q] \in {"ok", "error"}
      BY <2>1, <3>1 DEF Inv, DeletedForAReason
    <3>. QED BY <1>1, <1>2, <1>5, <3>2 DEF Inv, TypeOK, Requests
  <2>. QED BY <1>2, <2>1 DEF DeletedForAReason
<1>8. AttemptsInOrder'
  <2>1. \A m \in Messages : at'[m] = at[m]
    BY <1>2, <1>5 DEF Inv, TypeOK, Requests
  <2>2. \A c \in Copies : (copy'[c] = "none") = (copy[c] = "none")
    BY <1>3, <1>4
  <2>. QED BY <1>2, <2>1, <2>2, CopyPairs DEF Inv, AttemptsInOrder
<1>9. AnswersAreHanded'
  BY <1>1, <1>2, <1>5 DEF Inv, TypeOK, AnswersAreHanded, Requests
<1>10. HandedOnce'
  <2>1. ASSUME NEW q \in Receives, q # r
        PROVE  got'[q] = got[q] /\ at'[q] = at[q]
    BY <1>1, <1>5, <2>1 DEF Inv, TypeOK, Requests
  <2>2. got'[r] = S
    BY <1>1 DEF Inv, TypeOK
  <2>3. ASSUME NEW q \in Receives, NEW c \in got'[q]
        PROVE  /\ copy'[c] # "none"
               /\ at'[q] = "delete" => copy'[c] \in {"hidden", "deleted"} \/ c \in excused
               /\ at'[q] = "ok" => copy'[c] = "deleted" \/ c \in excused
    <3>1. CASE q = r
      BY <1>3, <1>4, <1>5, <2>2, <2>3, <3>1
    <3>2. CASE q # r
      <4>1. c \in Copies /\ c \in got[q]
        BY <2>1, <2>3, <3>2 DEF Inv, TypeOK
      <4>. QED BY <1>3, <1>4, <2>1, <3>2, <4>1 DEF Inv, HandedOnce
    <3>. QED BY <3>1, <3>2
  <2>4. ASSUME NEW q \in Receives, q # r, at'[q] \in {"delete", "ok"}
        PROVE  got'[q] \cap S \subseteq excused
    BY <1>3, <2>1, <2>4 DEF Inv, HandedOnce
  <2>. QED BY <1>2, <2>1, <2>2, <2>3, <2>4 DEF Inv, HandedOnce
<1>. QED BY <1>6, <1>7, <1>8, <1>9, <1>10 DEF Inv

\* A receive that fails has only hidden copies that were in sight.
LEMMA ReceiveFailsKeeps ==
    ASSUME Inv, NEW r \in Receives, ReceiveFails(r)
    PROVE  Inv'
<1>1. PICK L \in SUBSET CopiesIn("visible") : Become(L, "hidden")
  BY DEF ReceiveFails
<1>2. /\ at[r] = "receive" /\ r \in Requests /\ r \notin Messages
      /\ UNCHANGED <<queue, url, tries, got, out, purged, excused>>
  BY RequestsAssumption DEF ReceiveFails, ghosts, Requests
<1>3. \A c \in L : c \in Copies /\ copy[c] = "visible"
  BY <1>1 DEF CopiesIn
<1>4. /\ copy' \in [Copies -> {"none", "visible", "hidden", "deleted"}]
      /\ \A c \in Copies : copy'[c] = IF c \in L THEN "hidden" ELSE copy[c]
  BY <1>1, Becomes DEF Inv
<1>5. at' = [at EXCEPT ![r] = "error"]
  BY DEF ReceiveFails, Goto
<1>6. TypeOK'
  BY <1>2, <1>4, <1>5 DEF Inv, TypeOK, Calls
<1>7. DeletedForAReason'
  BY <1>2, <1>4, <1>5 DEF Inv, TypeOK, DeletedForAReason, Requests
<1>8. AttemptsInOrder'
  <2>1. \A m \in Messages : at'[m] = at[m]
    BY <1>2, <1>5 DEF Inv, TypeOK, Requests
  <2>2. \A c \in Copies : (copy'[c] = "none") = (copy[c] = "none")
    BY <1>3, <1>4
  <2>. QED BY <1>2, <2>1, <2>2, CopyPairs DEF Inv, AttemptsInOrder
<1>9. AnswersAreHanded'
  BY <1>2, <1>5 DEF Inv, TypeOK, AnswersAreHanded, Requests
<1>10. HandedOnce'
  BY <1>2, <1>3, <1>4, <1>5 DEF Inv, TypeOK, HandedOnce, Requests
<1>. QED BY <1>6, <1>7, <1>8, <1>9, <1>10 DEF Inv

\* A delete of D, part of what r was handed, changes nothing else; the copies of
\* D have been handed to r, which is over with the call.
LEMMA DeleteOf ==
    ASSUME Inv, NEW r \in Receives, at[r] = "delete", NEW D \in SUBSET got[r], Become(D, "deleted"),
           UNCHANGED <<queue, url, tries, got, out, purged>>,
           NEW there \in {"ok", "error"}, at' = [at EXCEPT ![r] = there],
           excused' \in SUBSET Copies, excused \subseteq excused',
           there = "ok" => got[r] \ D \subseteq excused'
    PROVE  Inv'
<1>1. r \in Requests /\ r \notin Messages
  BY RequestsAssumption DEF Requests
<1>2. /\ copy' \in [Copies -> {"none", "visible", "hidden", "deleted"}]
      /\ \A c \in Copies : copy'[c] = IF c \in D THEN "deleted" ELSE copy[c]
  BY Becomes DEF Inv
<1>3. \A c \in D : c \in Copies /\ copy[c] # "none"
  BY DEF Inv, TypeOK, HandedOnce
<1>4. \A c \in Copies : (copy'[c] = "none") = (copy[c] = "none")
  BY <1>2, <1>3
<1>5. at'[r] = there /\ \A q \in Requests : q # r => at'[q] = at[q]
  BY <1>1 DEF Inv, TypeOK
<1>6. TypeOK'
  BY <1>1, <1>2 DEF Inv, TypeOK, Calls
<1>7. DeletedForAReason'
  <2>1. ASSUME NEW c \in Copies, copy'[c] = "deleted", c[1] \notin purged
        PROVE  \E q \in Receives : c \in got[q] /\ at'[q] \in {"ok", "error"}
    <3>1. CASE c \in D
      BY <1>5, <3>1
    <3>2. CASE c \notin D
      <4>1. PICK q \in Receives : c \in got[q] /\ at[q] \in {"ok", "error"}
        BY <1>2, <2>1, <3>2 DEF Inv, DeletedForAReason
      <4>. QED BY <1>5, <4>1 DEF Requests
    <3>. QED BY <3>1, <3>2
  <2>. QED BY <2>1 DEF DeletedForAReason
<1>8. AttemptsInOrder'
  <2>1. \A m \in Messages : at'[m] = at[m]
    BY <1>1, <1>5 DEF Requests
  <2>. QED BY <1>4, <2>1, CopyPairs DEF Inv, AttemptsInOrder
<1>9. AnswersAreHanded'
  BY <1>5 DEF Inv, AnswersAreHanded, Requests
<1>10. HandedOnce'
  <2>1. ASSUME NEW q \in Receives, NEW c \in got[q]
        PROVE  /\ copy'[c] # "none"
               /\ at'[q] = "delete" => copy'[c] \in {"hidden", "deleted"} \/ c \in excused'
               /\ at'[q] = "ok" => copy'[c] = "deleted" \/ c \in excused'
    <3>1. c \in Copies
      BY DEF Inv, TypeOK
    <3>2. CASE q = r
      BY <1>2, <1>4, <1>5, <3>1, <3>2 DEF Inv, HandedOnce
    <3>3. CASE q # r
      BY <1>2, <1>4, <1>5, <3>1, <3>3 DEF Inv, HandedOnce, Requests
    <3>. QED BY <3>2, <3>3
  <2>2. ASSUME NEW p \in Receives, NEW q \in Receives, p # q, {at'[p], at'[q]} \subseteq {"delete", "ok"}
        PROVE  got[p] \cap got[q] \subseteq excused'
    <3>1. {at[p], at[q]} \subseteq {"delete", "ok"}
      BY <1>5, <2>2 DEF Requests
    <3>. QED BY <2>2, <3>1 DEF Inv, HandedOnce
  <2>. QED BY <2>1, <2>2 DEF HandedOnce
<1>. QED BY <1>6, <1>7, <1>8, <1>9, <1>10 DEF Inv

\* A batch that is deleted in part is answered whole, and what is left of it is
\* excused; a delete that raises answers nothing.
LEMMA DeleteKeeps ==
    ASSUME Inv, NEW r \in Receives, Deleted(r) \/ DeleteFails(r)
    PROVE  Inv'
<1>1. excused \subseteq Copies /\ got[r] \subseteq Copies
  BY DEF Inv, TypeOK
<1>2. CASE Deleted(r)
  <2>1. PICK D \in SUBSET got[r] :
          Become(D, "deleted") /\ excused' = excused \cup (got[r] \ D)
    BY <1>2 DEF Deleted
  <2>2. /\ at[r] = "delete" /\ UNCHANGED <<queue, url, tries, got, out, purged>>
        /\ at' = [at EXCEPT ![r] = "ok"]
    BY <1>2 DEF Deleted, Goto
  <2>3. excused' \in SUBSET Copies /\ excused \subseteq excused' /\ got[r] \ D \subseteq excused'
    BY <1>1, <2>1
  <2>. QED BY <2>1, <2>2, <2>3, DeleteOf
<1>3. CASE DeleteFails(r)
  <2>1. PICK D \in SUBSET got[r] : Become(D, "deleted")
    BY <1>3 DEF DeleteFails
  <2>2. /\ at[r] = "delete" /\ UNCHANGED <<queue, url, tries, got, out, purged, excused>>
        /\ at' = [at EXCEPT ![r] = "error"]
    BY <1>3 DEF DeleteFails, Goto, ghosts
  <2>. QED BY <1>1, <2>1, <2>2, DeleteOf
<1>. QED BY <1>2, <1>3

\* A copy that comes into sight while its delete is outstanding is excused.
LEMMA VisibilityKeeps ==
    ASSUME Inv, NEW c \in Copies, VisibilityEnds(c)
    PROVE  Inv'
<1>1. copy[c] = "hidden" /\ UNCHANGED <<queue, url, at, tries, got, out, purged>>
  BY DEF VisibilityEnds
<1>2. /\ copy' \in [Copies -> {"none", "visible", "hidden", "deleted"}]
      /\ \A d \in Copies : copy'[d] = IF d = c THEN "visible" ELSE copy[d]
  BY Becomes DEF Inv, VisibilityEnds
<1>3. /\ excused' \subseteq Copies /\ excused \subseteq excused'
      /\ \A r \in Receives : at[r] = "delete" /\ c \in got[r] => c \in excused'
  BY DEF Inv, TypeOK, VisibilityEnds
<1>4. TypeOK'
  BY <1>1, <1>2, <1>3 DEF Inv, TypeOK
<1>5. DeletedForAReason'
  BY <1>1, <1>2 DEF Inv, DeletedForAReason
<1>6. AttemptsInOrder'
  <2>1. \A d \in Copies : (copy'[d] = "none") = (copy[d] = "none")
    BY <1>1, <1>2
  <2>. QED BY <1>1, <2>1, CopyPairs DEF Inv, AttemptsInOrder
<1>7. AnswersAreHanded'
  BY <1>1 DEF Inv, AnswersAreHanded
<1>8. HandedOnce'
  <2>1. ASSUME NEW r \in Receives, NEW d \in got[r]
        PROVE  /\ copy'[d] # "none"
               /\ at[r] = "delete" => copy'[d] \in {"hidden", "deleted"} \/ d \in excused'
               /\ at[r] = "ok" => copy'[d] = "deleted" \/ d \in excused'
    <3>1. d \in Copies
      BY DEF Inv, TypeOK
    <3>2. /\ copy[d] # "none"
          /\ at[r] = "delete" => copy[d] \in {"hidden", "deleted"} \/ d \in excused
          /\ at[r] = "ok" => copy[d] = "deleted" \/ d \in excused
      BY DEF Inv, HandedOnce
    <3>. QED BY <1>1, <1>2, <1>3, <3>1, <3>2
  <2>2. \A p, q \in Receives :
          p # q /\ {at[p], at[q]} \subseteq {"delete", "ok"} => got[p] \cap got[q] \subseteq excused'
    BY <1>3 DEF Inv, HandedOnce
  <2>. QED BY <1>1, <2>1, <2>2 DEF HandedOnce
<1>. QED BY <1>4, <1>5, <1>6, <1>7, <1>8 DEF Inv

\* A queue that is deleted takes along what is in it, and remembers whose it was.
LEMMA QueueGoes ==
    ASSUME Inv, QueueDisappears
    PROVE  Inv'
<1> DEFINE S == CopiesIn("visible") \cup CopiesIn("hidden")
<1>1. queue' = FALSE /\ UNCHANGED <<url, at, tries, got, out, excused>>
  BY DEF QueueDisappears
<1>2. /\ copy' \in [Copies -> {"none", "visible", "hidden", "deleted"}]
      /\ \A c \in Copies : copy'[c] = IF c \in S THEN "deleted" ELSE copy[c]
  BY Becomes DEF Inv, QueueDisappears
<1>3. \A c \in Copies : (c \in S) = (copy[c] \in {"visible", "hidden"})
  BY DEF CopiesIn
<1> HIDE DEF S
<1>4. /\ purged' \subseteq Messages /\ purged \subseteq purged'
      /\ \A m \in Messages, k \in 1 .. MaxAttempts : copy[<<m, k>>] # "none" => m \in purged'
  BY DEF Inv, TypeOK, QueueDisappears
<1>5. \A c \in Copies : copy[c] # "none" => c[1] \in purged'
  BY <1>4 DEF Copies
<1>6. \A c \in Copies : (copy'[c] = "none") = (copy[c] = "none")
  BY <1>2, <1>3
<1>7. TypeOK'
  BY <1>1, <1>2, <1>4 DEF Inv, TypeOK
<1>8. DeletedForAReason'
  BY <1>5, <1>6 DEF DeletedForAReason
<1>9. AttemptsInOrder'
  BY <1>1, <1>6, CopyPairs DEF Inv, AttemptsInOrder
<1>10. AnswersAreHanded'
  BY <1>1 DEF Inv, AnswersAreHanded
<1>11. HandedOnce'
  <2>1. ASSUME NEW r \in Receives, NEW c \in got[r]
        PROVE  c \in Copies /\ copy[c] # "none"
    BY DEF Inv, TypeOK, HandedOnce
  <2>. QED BY <1>1, <1>2, <1>3, <1>6, <2>1 DEF Inv, HandedOnce
<1>. QED BY <1>7, <1>8, <1>9, <1>10, <1>11 DEF Inv

LEMMA QueueComes ==
    ASSUME Inv, QueueAppears
    PROVE  Inv'
BY DEF QueueAppears, ghosts, Inv, TypeOK, DeletedForAReason, AttemptsInOrder, AnswersAreHanded,
       HandedOnce

\* A restart fails the requests that are under way.
LEMMA RestartKeeps ==
    ASSUME Inv, Restart
    PROVE  Inv'
<1>1. url' = FALSE /\ UNCHANGED <<queue, copy, tries, got, out, purged, excused>>
  BY DEF Restart, sqs, ghosts
<1>2. at' = [r \in Requests |-> IF at[r] \in Calls THEN "error" ELSE at[r]]
  BY DEF Restart
<1>3. at' \in [Requests -> Calls \cup {"new", "ok", "error"}]
  BY <1>2 DEF Inv, TypeOK
<1>4. \A r \in Requests : at'[r] = at[r] \/ at'[r] = "error"
  BY <1>2
<1>5. \A r \in Requests : at[r] \in {"ok", "error"} => at'[r] = at[r]
  BY <1>2 DEF Calls
<1>6. TypeOK'
  BY <1>1, <1>3 DEF Inv, TypeOK
<1>7. DeletedForAReason'
  BY <1>1, <1>5 DEF Inv, DeletedForAReason, Requests
<1>8. AttemptsInOrder'
  BY <1>1, <1>4 DEF Inv, AttemptsInOrder, Requests
<1>9. AnswersAreHanded'
  BY <1>1, <1>4 DEF Inv, AnswersAreHanded, Requests
<1>10. HandedOnce'
  <2>1. \A r \in Receives : at'[r] \in {"delete", "ok"} => at'[r] = at[r]
    BY <1>4 DEF Requests
  <2>. QED BY <1>1, <2>1 DEF Inv, HandedOnce
<1>. QED BY <1>6, <1>7, <1>8, <1>9, <1>10 DEF Inv

LEMMA InvStep == Inv /\ [Next]_vars => Inv'
<1> SUFFICES ASSUME Inv, [Next]_vars PROVE Inv'
  OBVIOUS
<1>1. ASSUME NEW r \in Requests,
             Start(r) \/ UrlFound(r) \/ UrlNotFound(r) \/ QueueCreated(r) \/ UrlCallFails(r)
      PROVE  Inv'
  BY <1>1, UrlKeeps
<1>2. ASSUME NEW m \in Messages, Sent(m) \/ NoAnswer(m) \/ SendRefused(m)
      PROVE  Inv'
  BY <1>2, SendKeeps
<1>3. ASSUME NEW r \in Receives, Received(r) \/ ReceiveFails(r) \/ Deleted(r) \/ DeleteFails(r)
      PROVE  Inv'
  BY <1>3, ReceivedKeeps, ReceiveFailsKeeps, DeleteKeeps
<1>4. ASSUME NEW c \in Copies, VisibilityEnds(c)
      PROVE  Inv'
  BY <1>4, VisibilityKeeps
<1>5. CASE UNCHANGED vars
  BY <1>5 DEF Inv, TypeOK, DeletedForAReason, AttemptsInOrder, AnswersAreHanded, HandedOnce,
              vars, sqs, ghosts
<1>. QED BY <1>1, <1>2, <1>3, <1>4, <1>5, QueueGoes, QueueComes, RestartKeeps DEF Next

\* The inductive invariant of sends and receives holds in every state
\* (services/sqs_service.py).
THEOREM Invariance == Spec => []Inv
<1>1. Init => Inv
  BY InvInit
<1>2. Inv /\ [Next]_vars => Inv'
  BY InvStep
<1>. QED BY <1>1, <1>2, PTL DEF Spec

-----------------------------------------------------------------------------
\* The variables of the queue's routes keep their types (routes/queue.py,
\* services/sqs_service.py).
THEOREM TypeCorrectness == Spec => []TypeOK
<1>1. Inv => TypeOK
  BY DEF Inv
<1>. QED BY <1>1, Invariance, PTL

\* A message whose send was answered is in the queue, was answered to a receiver,
\* went with the queue, or was handed to a receive that failed
\* (sqs_service.py:30-49).
THEOREM SilentLoss == Spec => []NoSilentLoss
<1>1. ASSUME Inv PROVE NoSilentLoss
  <2> SUFFICES ASSUME NEW m \in Messages, at[m] = "ok", ~InQueue(m), m \notin purged
               PROVE  \E r \in Receives : \/ at[r] = "ok" /\ In(m, out[r])
                                          \/ at[r] = "error" /\ In(m, got[r])
    BY DEF NoSilentLoss
  <2>1. PICK k \in 1 .. MaxAttempts : copy[<<m, k>>] # "none"
    BY <1>1 DEF Inv, AttemptsInOrder
  <2>2. <<m, k>> \in Copies /\ copy[<<m, k>>] = "deleted"
    BY <1>1, <2>1, CopyPairs DEF Inv, TypeOK, InQueue
  <2>3. <<m, k>>[1] = m
    OBVIOUS
  <2>4. PICK r \in Receives : <<m, k>> \in got[r] /\ at[r] \in {"ok", "error"}
    BY <1>1, <2>2, <2>3 DEF Inv, DeletedForAReason
  <2>5. at[r] = "ok" => <<m, k>> \in out[r]
    BY <1>1, <2>4 DEF Inv, AnswersAreHanded
  <2>. QED BY <2>4, <2>5 DEF In
<1>. QED BY <1>1, Invariance, PTL

\* Two receives are answered the same copy only when SQS handed it out twice
\* (sqs_service.py:34-49).
THEOREM Repeats == Spec => []RepeatsAreExcused
<1>1. Inv => RepeatsAreExcused
  BY DEF Inv, AnswersAreHanded, HandedOnce, RepeatsAreExcused
<1>. QED BY <1>1, Invariance, PTL

-----------------------------------------------------------------------------
(* The routes implement an at-least-once queue.                            *)

Held == {m \in Messages : InQueue(m)}
Accepted == {m \in Messages : at[m] = "ok"}
Delivered == {m \in Messages : \E r \in Receives : at[r] = "ok" /\ In(m, out[r])}
Dropped == purged \cup {m \in Messages : \E r \in Receives : at[r] = "error" /\ In(m, got[r])}
Entered == Held \cup Delivered \cup Dropped

abstract == <<Held, Accepted, Delivered, Dropped>>

\* Whatever has a copy has entered: one that was deleted was delivered or dropped.
LEMMA CopiesHaveEntered ==
    ASSUME Inv, NEW m \in Messages, NEW k \in 1 .. MaxAttempts, copy[<<m, k>>] # "none"
    PROVE  m \in Entered
<1>1. <<m, k>> \in Copies /\ copy[<<m, k>>] \in {"visible", "hidden", "deleted"}
  BY CopyPairs DEF Inv, TypeOK
<1>2. CASE copy[<<m, k>>] \in {"visible", "hidden"}
  BY <1>2 DEF Entered, Held, InQueue
<1>3. CASE copy[<<m, k>>] = "deleted"
  <2>1. <<m, k>>[1] = m
    OBVIOUS
  <2>2. CASE m \in purged
    BY <2>2 DEF Entered, Dropped
  <2>3. CASE m \notin purged
    <3>1. PICK r \in Receives : <<m, k>> \in got[r] /\ at[r] \in {"ok", "error"}
      BY <1>1, <1>3, <2>1, <2>3 DEF Inv, DeletedForAReason
    <3>2. at[r] = "ok" => out[r] = got[r]
      BY DEF Inv, AnswersAreHanded
    <3>. QED BY <3>1, <3>2 DEF Entered, Delivered, Dropped, In
  <2>. QED BY <2>2, <2>3
<1>. QED BY <1>1, <1>2, <1>3

LEMMA HandedHaveEntered ==
    ASSUME Inv, NEW m \in Messages, NEW r \in Receives, In(m, got[r])
    PROVE  m \in Entered
<1>1. PICK k \in 1 .. MaxAttempts : <<m, k>> \in got[r]
  BY DEF In
<1>2. copy[<<m, k>>] # "none"
  BY <1>1 DEF Inv, HandedOnce
<1>. QED BY <1>2, CopiesHaveEntered

\* As long as copies stay in the queue or out of it, so do the messages.
LEMMA HeldStays ==
    ASSUME \A c \in Copies :
            (copy'[c] \in {"visible", "hidden"}) = (copy[c] \in {"visible", "hidden"})
    PROVE  Held' = Held
BY CopyPairs DEF Held, InQueue

LEMMA UrlStutters ==
    ASSUME Inv, NEW r \in Requests,
           Start(r) \/ UrlFound(r) \/ UrlNotFound(r) \/ QueueCreated(r) \/ UrlCallFails(r)
    PROVE  UNCHANGED abstract
<1>1. /\ UNCHANGED <<copy, got, out, purged>>
      /\ at[r] \notin {"ok", "error", "delete"} /\ at'[r] # "ok"
      /\ \A q \in Requests : q # r => at'[q] = at[q]
  BY DEF Inv, TypeOK, Start, UrlFound, UrlNotFound, QueueCreated, UrlCallFails, Goto, AfterUrl,
         ghosts, sqs
<1>2. r \in Receives => got[r] = {}
  BY <1>1 DEF Inv, AnswersAreHanded
<1>3. Held' = Held
  BY <1>1, HeldStays
<1>4. Accepted' = Accepted /\ Delivered' = Delivered
  BY <1>1 DEF Accepted, Delivered, Requests
<1>5. Dropped' = Dropped
  BY <1>1, <1>2 DEF Dropped, In, Requests
<1>. QED BY <1>3, <1>4, <1>5 DEF abstract

\* A send that has put a copy into the queue is an Enter; it has not been answered before.
LEMMA SendEnters ==
    ASSUME Inv, NEW m \in Messages, Sent(m) \/ NoAnswer(m) \/ SendRefused(m)
    PROVE  Promised!Enter(m) \/ UNCHANGED abstract
<1> DEFINE c == <<m, tries[m] + 1>>
<1>1. /\ at[m] = "send" /\ c \in Copies /\ copy[c] = "none" /\ m \notin Receives
      /\ tries[m] + 1 \in 1 .. MaxAttempts
      /\ UNCHANGED <<got, out, purged>>
  <2>1. at[m] = "send" /\ tries[m] \in Nat /\ tries[m] + 1 \in 1 .. MaxAttempts /\ tries[m] < tries[m] + 1
    BY BoundsAssumption DEF Inv, TypeOK, Sent, NoAnswer, SendRefused
  <2>2. copy[<<m, tries[m] + 1>>] = "none" /\ <<m, tries[m] + 1>> \in Copies
    BY <2>1, CopyPairs DEF Inv, AttemptsInOrder
  <2>3. UNCHANGED <<got, out, purged>>
    BY DEF Sent, NoAnswer, SendRefused, ghosts
  <2>. QED BY <2>1, <2>2, <2>3, RequestsAssumption
<1>2. \A n \in Requests : n # m => at'[n] = at[n]
  BY DEF Inv, TypeOK, Sent, NoAnswer, SendRefused, Goto, Requests
<1>3. Delivered' = Delivered /\ Dropped' = Dropped
  BY <1>1, <1>2 DEF Delivered, Dropped, In, Requests
<1>4. CASE Become({c}, "visible")
  <2>1. copy'[c] = "visible" /\ \A d \in Copies : d # c => copy'[d] = copy[d]
    BY <1>1, <1>4, Becomes DEF Inv
  <2>2. Held' = Held \cup {m}
    <3>1. m \in Held'
      BY <1>1, <2>1 DEF Held, InQueue
    <3>2. \A n \in Messages : n # m => (n \in Held') = (n \in Held)
      BY <2>1, CopyPairs DEF Held, InQueue
    <3>. QED BY <3>1, <3>2 DEF Held
  <2>3. Accepted' \in {Accepted, Accepted \cup {m}} /\ m \notin Accepted
    BY <1>1, <1>2 DEF Accepted, Requests
  <2>. QED BY <1>3, <2>2, <2>3 DEF Promised!Enter, Held, Accepted, Delivered, Dropped
<1>5. CASE ~Become({c}, "visible")
  <2>1. UNCHANGED copy /\ at'[m] # "ok"
    BY <1>1, <1>5 DEF Sent, NoAnswer, SendRefused, sqs, Goto, Inv, TypeOK, Requests
  <2>2. Held' = Held
    BY <2>1, HeldStays
  <2>3. Accepted' = Accepted
    BY <1>1, <1>2, <2>1 DEF Accepted, Requests
  <2>. QED BY <1>3, <2>2, <2>3 DEF abstract
<1>. QED BY <1>4, <1>5

\* Handing messages out hides them, which is not to say that they have left.
LEMMA ReceiveStutters ==
    ASSUME Inv, NEW r \in Receives, Received(r) \/ ReceiveFails(r)
    PROVE  UNCHANGED abstract
<1>1. /\ at[r] = "receive" /\ r \notin Messages /\ UNCHANGED purged
      /\ \A q \in Requests : q # r => at'[q] = at[q]
      /\ \A q \in Receives : q # r => got'[q] = got[q] /\ out'[q] = out[q]
  BY RequestsAssumption DEF Received, ReceiveFails, Goto, ghosts, Inv, TypeOK, Requests
<1>2. got[r] = {} /\ (at'[r] = "ok" => out'[r] = {}) /\ (at'[r] = "error" => got'[r] = {})
  BY <1>1 DEF Received, ReceiveFails, Goto, Answer, AfterReceive, Inv, TypeOK, AnswersAreHanded,
              Requests
<1>3. Held' = Held
  <2>1. PICK H \in SUBSET CopiesIn("visible") : Become(H, "hidden")
    BY DEF Received, ReceiveFails
  <2>2. \A c \in Copies : copy'[c] = IF c \in H THEN "hidden" ELSE copy[c]
    BY <2>1, Becomes DEF Inv
  <2>3. \A c \in H : copy[c] = "visible"
    BY <2>1 DEF CopiesIn
  <2>. QED BY <2>2, <2>3, HeldStays
<1>4. Accepted' = Accepted
  BY <1>1 DEF Accepted, Requests
<1>5. Delivered' = Delivered
  BY <1>1, <1>2 DEF Delivered, In, Requests
<1>6. Dropped' = Dropped
  BY <1>1, <1>2 DEF Dropped, In, Requests
<1>. QED BY <1>3, <1>4, <1>5, <1>6 DEF abstract

\* What leaves with a delete is part of what its receive was handed.
LEMMA DeletesLeave ==
    ASSUME Inv, NEW r \in Receives, NEW D \in SUBSET got[r], Become(D, "deleted")
    PROVE  /\ Held' \subseteq Held
           /\ \A m \in Held \ Held' : In(m, got[r])
<1>1. \A c \in Copies : copy'[c] = IF c \in D THEN "deleted" ELSE copy[c]
  BY Becomes DEF Inv
<1>2. Held' \subseteq Held
  BY <1>1, CopyPairs DEF Held, InQueue
<1>3. ASSUME NEW m \in Held, m \notin Held'
      PROVE  In(m, got[r])
  <2>1. PICK k \in 1 .. MaxAttempts : copy[<<m, k>>] \in {"visible", "hidden"}
    BY DEF Held, InQueue
  <2>2. m \in Messages /\ <<m, k>> \in Copies
    BY CopyPairs DEF Held
  <2>3. <<m, k>> \in D
    BY <1>1, <1>3, <2>1, <2>2 DEF Held, InQueue
  <2>. QED BY <2>3 DEF In
<1>. QED BY <1>2, <1>3

\* A delete that is answered delivers the whole batch, also what it has left in the
\* queue; one that raises drops it.
LEMMA DeleteDeliversOrDrops ==
    ASSUME Inv, NEW r \in Receives, Deleted(r) \/ DeleteFails(r)
    PROVE  Promised!Deliver \/ Promised!Drop
<1> DEFINE batch == {m \in Messages : In(m, got[r])}
<1>1. /\ at[r] = "delete" /\ r \notin Messages /\ UNCHANGED <<got, out, purged>>
      /\ \A q \in Requests : q # r => at'[q] = at[q]
      /\ at'[r] = IF Deleted(r) THEN "ok" ELSE "error"
      /\ out[r] = got[r]
  <2>1. at[r] = "delete" /\ r \notin Messages /\ UNCHANGED <<got, out, purged>>
    BY RequestsAssumption DEF Deleted, DeleteFails, ghosts
  <2>2. at' = [at EXCEPT ![r] = "ok"] \/ (~Deleted(r) /\ at' = [at EXCEPT ![r] = "error"])
    BY DEF Deleted, DeleteFails, Goto
  <2>3. Deleted(r) => at' = [at EXCEPT ![r] = "ok"]
    BY DEF Deleted, Goto
  <2>4. ~Deleted(r) => at' = [at EXCEPT ![r] = "error"]
    BY DEF DeleteFails, Goto
  <2>. QED BY <2>1, <2>3, <2>4 DEF Inv, TypeOK, AnswersAreHanded, Requests
<1>2. Held' \subseteq Held /\ Held \ Held' \subseteq batch
  <2>1. PICK D \in SUBSET got[r] : Become(D, "deleted")
    BY DEF Deleted, DeleteFails
  <2>. QED BY <2>1, DeletesLeave DEF Held
<1>3. batch \subseteq Entered
  BY HandedHaveEntered
<1>4. Accepted' = Accepted
  BY <1>1 DEF Accepted, Requests
<1>5. CASE Deleted(r)
  <2>1. Dropped' = Dropped
    BY <1>1, <1>5 DEF Dropped, Requests
  <2>2. Delivered' = Delivered \cup batch
    BY <1>1, <1>5 DEF Delivered, Requests
  <2>. QED BY <1>2, <1>3, <1>4, <2>1, <2>2
           DEF Promised!Deliver, Promised!Leave, Promised!Entered, Entered, Held, Accepted, Delivered, Dropped
<1>6. CASE ~Deleted(r)
  <2>1. Delivered' = Delivered
    BY <1>1, <1>6 DEF Delivered, Requests
  <2>2. Dropped' = Dropped \cup batch
    BY <1>1, <1>6 DEF Dropped, Requests
  <2>. QED BY <1>2, <1>3, <1>4, <2>1, <2>2
           DEF Promised!Drop, Promised!Leave, Promised!Entered, Entered, Held, Accepted, Delivered, Dropped
<1>. QED BY <1>5, <1>6

LEMMA VisibilityStutters ==
    ASSUME Inv, NEW c \in Copies, VisibilityEnds(c)
    PROVE  UNCHANGED abstract
<1>1. copy[c] = "hidden" /\ UNCHANGED <<at, got, out, purged>>
  BY DEF VisibilityEnds
<1>2. \A d \in Copies : copy'[d] = IF d \in {c} THEN "visible" ELSE copy[d]
  BY Becomes DEF Inv, VisibilityEnds
<1>3. Held' = Held
  BY <1>1, <1>2, HeldStays
<1>. QED BY <1>1, <1>3 DEF abstract, Accepted, Delivered, Dropped

\* With the queue go all that it held, and purged counts them as dropped.
LEMMA QueueDrops ==
    ASSUME Inv, QueueDisappears
    PROVE  Promised!Drop
<1> DEFINE sent == {m \in Messages : \E k \in 1 .. MaxAttempts : copy[<<m, k>>] # "none"}
<1>1. UNCHANGED <<at, got, out>> /\ purged' = purged \cup sent
  BY DEF QueueDisappears
<1>2. Held' = {}
  <2>1. \A c \in Copies : copy'[c] \notin {"visible", "hidden"}
    BY Becomes DEF Inv, QueueDisappears, CopiesIn
  <2>. QED BY <2>1, CopyPairs DEF Held, InQueue
<1>3. Held \subseteq sent
  BY DEF Held, InQueue
<1>4. sent \subseteq Entered
  BY CopiesHaveEntered
<1>5. Accepted' = Accepted /\ Delivered' = Delivered
  BY <1>1 DEF Accepted, Delivered
<1>6. Dropped' = Dropped \cup sent
  BY <1>1 DEF Dropped
<1>. HIDE DEF sent
<1>. QED BY <1>2, <1>3, <1>4, <1>5, <1>6
     DEF Promised!Drop, Promised!Leave, Promised!Entered, Entered, Held, Accepted, Delivered, Dropped

\* A restart drops what the receives it interrupts have been handed; none of it has
\* left the queue yet.
LEMMA RestartDrops ==
    ASSUME Inv, Restart
    PROVE  Promised!Drop
<1> DEFINE lost == {m \in Messages : \E r \in Receives : at[r] \in Calls /\ In(m, got[r])}
<1>1. UNCHANGED <<copy, got, out, purged>>
  BY DEF Restart, sqs, ghosts
<1>2. \A r \in Requests : at'[r] = IF at[r] \in Calls THEN "error" ELSE at[r]
  BY DEF Restart
<1>3. "ok" \notin Calls /\ "error" \notin Calls
  BY DEF Calls
<1>4. Held' = Held
  BY <1>1, HeldStays
<1>5. Accepted' = Accepted /\ Delivered' = Delivered
  BY <1>1, <1>2, <1>3 DEF Accepted, Delivered, Requests
<1>6. Dropped' = Dropped \cup lost
  BY <1>1, <1>2, <1>3 DEF Dropped, Requests
<1>7. lost \subseteq Entered
  BY HandedHaveEntered
<1>. HIDE DEF lost
<1>. QED BY <1>4, <1>5, <1>6, <1>7
     DEF Promised!Drop, Promised!Leave, Promised!Entered, Entered, Held, Accepted, Delivered, Dropped

LEMMA StepRefines ==
    ASSUME Inv, [Next]_vars
    PROVE  Promised!QueueNext \/ UNCHANGED abstract
<1>1. CASE \E r \in Requests :
            Start(r) \/ UrlFound(r) \/ UrlNotFound(r) \/ QueueCreated(r) \/ UrlCallFails(r)
  BY <1>1, UrlStutters
<1>2. CASE \E m \in Messages : Sent(m) \/ NoAnswer(m) \/ SendRefused(m)
  BY <1>2, SendEnters DEF Promised!QueueNext
<1>3. CASE \E r \in Receives : Received(r) \/ ReceiveFails(r)
  BY <1>3, ReceiveStutters
<1>4. CASE \E r \in Receives : Deleted(r) \/ DeleteFails(r)
  BY <1>4, DeleteDeliversOrDrops DEF Promised!QueueNext
<1>5. CASE \E c \in Copies : VisibilityEnds(c)
  BY <1>5, VisibilityStutters
<1>6. CASE QueueDisappears
  BY <1>6, QueueDrops DEF Promised!QueueNext
<1>7. CASE QueueAppears
  <2>1. UNCHANGED <<copy, at, got, out, purged>>
    BY <1>7 DEF QueueAppears, ghosts
  <2>. QED BY <2>1, HeldStays DEF abstract, Accepted, Delivered, Dropped
<1>8. CASE Restart
  BY <1>8, RestartDrops DEF Promised!QueueNext
<1>9. CASE UNCHANGED vars
  <2>1. UNCHANGED <<copy, at, got, out, purged>>
    BY <1>9 DEF vars, sqs, ghosts
  <2>. QED BY <2>1, HeldStays DEF abstract, Accepted, Delivered, Dropped
<1>. QED BY <1>1, <1>2, <1>3, <1>4, <1>5, <1>6, <1>7, <1>8, <1>9 DEF Next

(* Every behaviour of the two routes is one of an at-least-once queue: each  *)
(* step is an attempt to send, a delivery, a loss that the specification     *)
(* names, or no step at all (routes/queue.py, sqs_service.py:18-62).         *)
THEOREM ImplementsQueue == Spec => ImplementsAtLeastOnce
<1>1. Init => Promised!QueueInit
  BY CopyPairs DEF Init, Promised!QueueInit, InQueue, In, Requests
<1>2. Inv /\ [Next]_vars => [Promised!QueueNext]_abstract
  BY StepRefines
<1>. QED BY <1>1, <1>2, Invariance, PTL
     DEF Spec, ImplementsAtLeastOnce, Promised!QueueSpec, abstract, Held, Accepted, Delivered, Dropped
=============================================================================
