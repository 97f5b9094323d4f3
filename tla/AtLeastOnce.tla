---------------------------- MODULE AtLeastOnce ----------------------------
(* What the upload queues of git-ai promise: an item that was accepted for  *)
(* upload is held until the server has it.  It may arrive more than once,   *)
(* and the copy in the queue may be given up only after it has arrived (or  *)
(* when it can never be sent).                                              *)
CONSTANTS Item,       \* what is uploaded
          Unsendable  \* the items that are found to be unreadable

VARIABLES held,       \* items the queue holds
          arrived     \* items the server has stored

(* Unreadable items may have been left by an earlier version.              *)
Init == held \subseteq Unsendable /\ arrived = {}

Accept(i) == held' = held \cup {i} /\ UNCHANGED arrived

Arrive(S) ==
    /\ S \subseteq held
    /\ arrived' = arrived \cup S
    /\ UNCHANGED held

Release(S) ==
    /\ S \subseteq arrived \cup Unsendable
    /\ held' = held \ S
    /\ UNCHANGED arrived

Next == \/ \E i \in Item : Accept(i)
        \/ \E S \in SUBSET Item : Arrive(S) \/ Release(S)

Spec == Init /\ [][Next]_<<held, arrived>>

=============================================================================
