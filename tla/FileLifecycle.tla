---------------------------- MODULE FileLifecycle ----------------------------
(***************************************************************************)
(* What the file routes promise about one uploaded file: it becomes         *)
(* available once, as a whole, and once it is withdrawn it stays withdrawn, *)
(* whatever fails or is repeated on the way.                                *)
(***************************************************************************)
CONSTANT Files
VARIABLE status    \* the stage every file is in

LifecycleInit == status = [f \in Files |-> "new"]

Publish(f) ==
    /\ status[f] = "new"
    /\ status' = [status EXCEPT ![f] = "available"]

Withdraw(f) ==
    /\ status[f] = "available"
    /\ status' = [status EXCEPT ![f] = "gone"]

LifecycleNext == \E f \in Files : Publish(f) \/ Withdraw(f)

LifecycleSpec == LifecycleInit /\ [][LifecycleNext]_status
=============================================================================
