---------------------------- MODULE DeltaOutbox ----------------------------
(***************************************************************************)
(* What dgraph-proxy promises about its delta queue, in the words of its   *)
(* README: "All changes are buffered locally - nothing is lost"            *)
(* (dgraph-proxy/README.md, "Cloud Sync Protocol").                        *)
(*                                                                         *)
(* An outbox holds the changes made locally, hands them to the cloud as    *)
(* often as it likes (at least once), and drops a change only when the     *)
(* cloud has it.  ProxySync implements this specification.                 *)
(***************************************************************************)
CONSTANT Delta      \* every change that can ever be made

VARIABLES
    made,           \* changes made locally, ever
    held,           \* changes still held locally
    received        \* changes the cloud has received

vars == <<made, held, received>>

Init == made = {} /\ held = {} /\ received = {}

(* A local change is made and buffered in one step. *)
Make(d) == /\ d \in Delta \ made
           /\ made' = made \cup {d}
           /\ held' = held \cup {d}
           /\ UNCHANGED received

(* Some of the changes reach the cloud, perhaps not for the first time. *)
Deliver(D) == /\ D \subseteq made
              /\ received' = received \cup D
              /\ UNCHANGED <<made, held>>

(* The outbox forgets changes, but only what the cloud has. *)
Forget(D) == /\ D \subseteq held \cap received
             /\ held' = held \ D
             /\ UNCHANGED <<made, received>>

Next == \/ \E d \in Delta : Make(d)
        \/ \E D \in SUBSET made : Deliver(D)
        \/ \E D \in SUBSET held : Forget(D)

Spec == Init /\ [][Next]_vars
=============================================================================
