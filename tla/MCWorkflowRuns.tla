--------------------------- MODULE MCWorkflowRuns ---------------------------
(* Templates for TLC: two approvals before an action; an action whose       *)
(* errors send the run back to its approval; a condition on approvals that  *)
(* ends the run before a step of an unknown kind; and one that goes to the  *)
(* last step but one, counted from the end, so that the run starts over     *)
(* after it.                                                                *)
EXTENDS WorkflowRuns, TLC

Approval  == [kind |-> "approval"]
Action    == [kind |-> "action", dry |-> FALSE]
DryRun    == [kind |-> "action", dry |-> TRUE]
Notice    == [kind |-> "notify"]
Unknown   == [kind |-> "webhook"]
If(e, to) == [kind |-> "condition", expr |-> e, else |-> to]

TwoKeys  == <<Approval, Notice, Approval, Action>>
Again    == <<Approval, Action, If("error_count == 0", {0})>>
Counting == <<DryRun, Approval, If("approval_count >= 1", {}), Unknown>>
Around   == <<If("approval_count >= 1", {-2}), Approval, Action>>

MCTemplates == {TwoKeys, Again, Counting, Around}
TwoKeysOnly == {TwoKeys}

\* Runs and requests are told apart by nothing but what happens to them.
Alike == Permutations(Runs) \cup Permutations(Requests)
=============================================================================
