---------------------------- MODULE ApprovedRuns ----------------------------
(***************************************************************************)
(* The state machine the workflow engine promises for a run: "running ->   *)
(* (approved/rejected at each step) -> complete/rejected", where an        *)
(* approval step waits "for human approval before proceeding"              *)
(* (src/dgraphai/workflows/engine.py, its header).                         *)
(*                                                                         *)
(* Once it is started a run moves when a human decides the gate it stands  *)
(* at, and then to any step its template sends it to.  Who comes to a gate *)
(* again is asked again; each is decided once, and nobody takes a decision *)
(* back.  WorkflowRuns implements this specification.                      *)
(***************************************************************************)
EXTENDS Integers

CONSTANT Runs

VARIABLES
    run,    \* of each run its status and the step it is at
    gate    \* the approvals asked for so far, by id, and how they were decided

vars == <<run, gate>>

Gate(r, n, d) == [run |-> r, step |-> n, decision |-> d]

Init == /\ run = [r \in Runs |-> [status |-> "none", step |-> 0]]
        /\ gate = [g \in {} |-> Gate("", 0, "")]

(* The run stops somewhere: it is complete, or waits at a new gate, or is   *)
(* at a step that nobody knows how to take.                                 *)
Asked(gates, r, n) ==
    \E new \in DOMAIN gate' \ DOMAIN gates :
        gate' = [g \in DOMAIN gates \cup {new} |->
                   IF g = new THEN Gate(r, n, "pending") ELSE gates[g]]

GoesOn(r, gates) ==
    LET stop == run'[r]
    IN  /\ run' = [run EXCEPT ![r] = stop]
        /\ stop \in [status : {"running", "complete"}, step : Int]
        /\ \/ gate' = gates
           \/ stop.status = "running" /\ Asked(gates, r, stop.step)

(* A new run. *)
Start(r) == /\ run[r].status = "none"
            /\ GoesOn(r, gate)

(* A human decides the gate the run stands at. *)
StandsAt(r, g) == /\ run[r].status = "running"
                  /\ gate[g] = Gate(r, run[r].step, "pending")
Decided(g, d)  == [gate EXCEPT ![g].decision = d]

Approve(r, g) == /\ StandsAt(r, g)
                 /\ GoesOn(r, Decided(g, "approved"))
Reject(r, g)  == /\ StandsAt(r, g)
                 /\ run' = [run EXCEPT ![r].status = "rejected"]
                 /\ gate' = Decided(g, "rejected")

Next == \E r \in Runs : \/ Start(r)
                        \/ \E g \in DOMAIN gate : Approve(r, g) \/ Reject(r, g)

Spec == Init /\ [][Next]_vars

(* What it is for: a run that has been asked for stands at the one gate of  *)
(* its own that is not approved, waiting or rejected.                       *)
GateRows == [run : Runs, step : Int, decision : {"pending", "approved", "rejected"}]
Open(g)  == gate[g].decision # "approved"

Held ==
    /\ \A g \in DOMAIN gate :
          /\ gate[g] \in GateRows
          /\ run[gate[g].run].status # "none"
          /\ Open(g) =>
                /\ run[gate[g].run].step = gate[g].step
                /\ run[gate[g].run].status = IF gate[g].decision = "pending" THEN "running" ELSE "rejected"
    /\ \A g, h \in DOMAIN gate : Open(g) /\ Open(h) /\ gate[g].run = gate[h].run => g = h
=============================================================================
