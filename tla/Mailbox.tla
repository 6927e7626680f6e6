------------------------------ MODULE Mailbox ------------------------------
(***************************************************************************)
(* What the notification dispatcher promises: every item (a message for a  *)
(* provider) is acknowledged by its provider at most once, or given up,    *)
(* and neither verdict is ever taken back.                                 *)
(***************************************************************************)
EXTENDS Naturals

CONSTANT Items
VARIABLES received, abandoned

Init == received = [i \in Items |-> 0] /\ abandoned = {}

Open(i) == received[i] = 0 /\ i \notin abandoned

Deliver(i) == Open(i) /\ received' = [received EXCEPT ![i] = 1] /\ UNCHANGED abandoned

GiveUp(i) == Open(i) /\ abandoned' = abandoned \cup {i} /\ UNCHANGED received

Next == \E i \in Items : Deliver(i) \/ GiveUp(i)

Spec == Init /\ [][Next]_<<received, abandoned>>
=============================================================================
