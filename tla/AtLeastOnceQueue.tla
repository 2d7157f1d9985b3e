-------------------------- MODULE AtLeastOnceQueue --------------------------
(***************************************************************************)
(* What the queue routes promise about messages, whatever fails or is      *)
(* repeated on the way: a message enters the queue only while its send is  *)
(* under way, an accepted one has entered it, and it leaves the queue only *)
(* with a receive that was handed it or with the queue itself.  Receives   *)
(* may hand it out more than once.                                         *)
(***************************************************************************)
CONSTANT Messages
VARIABLES
    held,       \* the messages in the queue
    accepted,   \* those whose send was answered
    delivered,  \* those that were answered to a receiver
    dropped     \* those handed to a receive that failed, or gone with the queue

QueueInit == held = {} /\ accepted = {} /\ delivered = {} /\ dropped = {}

Entered == held \cup delivered \cup dropped

\* An attempt to send m, which is answered or not.
Enter(m) ==
    /\ m \notin accepted
    /\ held' = held \cup {m}
    /\ accepted' \in {accepted, accepted \cup {m}}
    /\ UNCHANGED <<delivered, dropped>>

\* Messages leave the queue, or stay in it to be handed out again.
Leave == held' \subseteq held /\ UNCHANGED accepted

\* Whatever leaves has been delivered, now or before, and what is delivered has entered.
Deliver ==
    /\ Leave /\ held \ held' \subseteq delivered'
    /\ delivered \subseteq delivered' /\ delivered' \subseteq Entered
    /\ UNCHANGED dropped

Drop ==
    /\ Leave /\ held \ held' \subseteq dropped'
    /\ dropped \subseteq dropped' /\ dropped' \subseteq Entered
    /\ UNCHANGED delivered

QueueNext ==
    \/ \E m \in Messages : Enter(m)
    \/ Deliver
    \/ Drop

QueueSpec == QueueInit /\ [][QueueNext]_<<held, accepted, delivered, dropped>>
=============================================================================
