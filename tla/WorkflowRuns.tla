---------------------------- MODULE WorkflowRuns ----------------------------
(***************************************************************************)
(* Approval workflows: the engine (src/dgraphai/workflows/engine.py), its  *)
(* API (src/dgraphai/api/workflows.py) and the database transaction each   *)
(* request runs in (src/dgraphai/db/session.py).                           *)
(*                                                                         *)
(* A request starts a run or decides an approval.  It reads and writes in  *)
(* a READ COMMITTED transaction, executes steps until one waits for a      *)
(* human, and commits when it has returned.  File actions take effect at   *)
(* once; everything else only with the commit.                             *)
(***************************************************************************)
EXTENDS Integers, Sequences, FiniteSets

CONSTANTS
    Runs,         \* ids of workflow runs
    Requests,     \* requests served at the same time
    Templates,    \* workflow templates, each a sequence of steps
    MaxRollbacks, \* bound: transactions that fail
    MaxJumps      \* bound: how often a run is sent back

Kinds == {"approval", "action", "notify", "condition"}

(* A step is a record: kind; for an action dry (config dry_run); for a      *)
(* condition expr and else, the step to go to when expr does not hold, if   *)
(* there is one.  A template is any JSON a client sends.                    *)
TemplateSteps == [kind : STRING \ {"action", "condition"}]
                 \cup [kind : {"action"}, dry : BOOLEAN]
                 \cup [kind : {"condition"}, expr : STRING, else : SUBSET Int]

ASSUME WorkflowAssumption ==
    /\ Templates \subseteq Seq(TemplateSteps)
    /\ MaxRollbacks \in Nat
    /\ MaxJumps \in Nat

(* steps[n]: Python counts the steps from 0, and from the end when n is     *)
(* negative.                                                                *)
Index(tmpl, n)  == IF n >= 0 THEN n ELSE n + Len(tmpl)
StepAt(tmpl, n) == tmpl[Index(tmpl, n) + 1]

VARIABLES
    runs,       \* workflow_runs: status, template and current_step; "none" before the INSERT
    approvals,  \* approval_requests: run, step, status, and whether expires_at is past
    txn,        \* the transaction of each request
    acts,       \* action steps of each run that touched its files, in order (history)
    jumps,      \* how often each run was sent back (history)
    rollbacks   \* transactions that failed

vars == <<runs, approvals, txn, acts, jumps, rollbacks>>

NoTxn == [phase |-> "idle"]

Init ==
    /\ runs = [r \in Runs |-> [status |-> "none", tmpl |-> <<>>, cur |-> 0]]
    /\ approvals = <<>>
    /\ txn = [q \in Requests |-> NoTxn]
    /\ acts = [r \in Runs |-> <<>>]
    /\ jumps = [r \in Runs |-> 0]
    /\ rollbacks = 0

Known(r) == \/ runs[r].status # "none"
            \/ acts[r] # <<>>
            \/ \E q \in Requests : txn[q].phase \notin {"idle", "read", "expired"} /\ txn[q].run = r

(* What a request does with a run it has just loaded or created. *)
Load(q, r, row, cur, status, a, d, phase) ==
    txn' = [txn EXCEPT ![q] =
              [phase |-> phase, run |-> r, row |-> row, cur |-> cur, status |-> status,
               failed |-> FALSE, asks |-> FALSE, approval |-> a, decision |-> d]]

(* A run goes from one step to another.  An else_step may send it back, and *)
(* so does a step after the last one counted from the end.  In a request    *)
(* _advance recurses, so that Python's limit ends what jumps for ever: in a *)
(* Rollback, as at the bound here.                                          *)
Moves(r, tmpl, from, to) ==
    IF Index(tmpl, to) > Index(tmpl, from) THEN UNCHANGED jumps
    ELSE /\ jumps[r] < MaxJumps
         /\ jumps' = [jumps EXCEPT ![r] = @ + 1]

----------------------------------------------------------------------------
(* Requests *)

(* start_run: a new run of an active template, at its first step. *)
StartRun(q, r, t) ==
    /\ txn[q].phase = "idle"
    /\ ~Known(r)
    /\ LET row == [status |-> "running", tmpl |-> t, cur |-> 0]
       IN  Load(q, r, row, 0, "running", 0, "none", "advancing")
    /\ UNCHANGED <<runs, approvals, acts, jumps, rollbacks>>

(* Variant: any approval of the run can be decided, decided ones too. *)
ReadAnyApproval(q, a, d) ==
    /\ txn[q].phase = "idle"
    /\ txn' = [txn EXCEPT ![q] = [phase |-> IF approvals[a].expired THEN "expired" ELSE "read",
                                  approval |-> a, decision |-> d]]
    /\ UNCHANGED <<runs, approvals, acts, jumps, rollbacks>>

(* process_approval selects the approval if it is pending, and checks       *)
(* whether it has expired.                                                  *)
ReadApproval(q, a, d) ==
    /\ txn[q].phase = "idle"
    /\ approvals[a].status = "pending"
    /\ txn' = [txn EXCEPT ![q] = [phase |-> IF approvals[a].expired THEN "expired" ELSE "read",
                                  approval |-> a, decision |-> d]]
    /\ UNCHANGED <<runs, approvals, acts, jumps, rollbacks>>

(* list_pending_approvals, and the approvals get_run shows with a run. *)
ListPendingApprovals == {a \in DOMAIN approvals : approvals[a].status = "pending"}
GetRun(r) == [status |-> runs[r].status, approvals |-> {a \in DOMAIN approvals : approvals[a].run = r}]

(* The approval has expired: the row is marked, ValueError becomes an HTTP  *)
(* 400, and get_db rolls the mark back.                                     *)
RefuseExpired(q) ==
    /\ txn[q].phase = "expired"
    /\ txn' = [txn EXCEPT ![q] = NoTxn]
    /\ UNCHANGED <<runs, approvals, acts, jumps, rollbacks>>

(* The approval's row is locked by a transaction that has updated it. *)
Locked(a) == \E q \in Requests : /\ txn[q].phase \in {"advancing", "finished"}
                                 /\ txn[q].approval = a

(* Variant: a rejected run advances like an approved one. *)
WriteDecisionAdvancingAlways(q) ==
    /\ txn[q].phase = "read"
    /\ ~Locked(txn[q].approval)
    /\ LET a == txn[q].approval
           r == approvals[a].run
       IN  /\ Load(q, r, runs[r], runs[r].cur + 1, runs[r].status, a, txn[q].decision, "advancing")
           /\ Moves(r, runs[r].tmpl, runs[r].cur, runs[r].cur + 1)
    /\ UNCHANGED <<runs, approvals, acts, rollbacks>>

(* The decision is flushed by the query that loads the run.  The UPDATE     *)
(* waits for a transaction that has updated the row, and does not look at   *)
(* its status again; the run is read after that.                            *)
WriteDecision(q) ==
    /\ txn[q].phase = "read"
    /\ ~Locked(txn[q].approval)
    /\ LET a == txn[q].approval
           d == txn[q].decision
           r == approvals[a].run
       IN  IF d = "rejected"
           THEN /\ Load(q, r, runs[r], runs[r].cur, "rejected", a, d, "finished")
                /\ UNCHANGED jumps
           ELSE /\ Load(q, r, runs[r], runs[r].cur + 1, runs[r].status, a, d, "advancing")
                /\ Moves(r, runs[r].tmpl, runs[r].cur, runs[r].cur + 1)
    /\ UNCHANGED <<runs, approvals, acts, rollbacks>>

----------------------------------------------------------------------------
(* _advance, one step at a time *)

Steps(q) == txn[q].row.tmpl

Step(q) == StepAt(Steps(q), txn[q].cur)

(* Before the first step there is an IndexError, and a Rollback.            *)
AtSomeStep(q) == /\ txn[q].phase = "advancing"
                 /\ txn[q].cur \in -Len(Steps(q)) .. Len(Steps(q)) - 1

AtStep(q, kind) == AtSomeStep(q) /\ Step(q).kind = kind

MovesOn(q, to) == Moves(txn[q].run, Steps(q), txn[q].cur, to)

Goto(q, n) == /\ txn' = [txn EXCEPT ![q].cur = n]
              /\ MovesOn(q, n)

(* The run is past its last step. *)
EndOfSteps(q) ==
    /\ txn[q].phase = "advancing"
    /\ txn[q].cur >= Len(Steps(q))
    /\ txn' = [txn EXCEPT ![q].status = "complete", ![q].phase = "finished"]
    /\ UNCHANGED <<runs, approvals, acts, jumps, rollbacks>>

(* Variant: the request for approval is forgotten. *)
AskNobody(q) ==
    /\ AtStep(q, "approval")
    /\ txn' = [txn EXCEPT ![q].phase = "finished"]
    /\ UNCHANGED <<runs, approvals, acts, jumps, rollbacks>>

(* An approval request is added; the run waits. *)
Ask(q) ==
    /\ AtStep(q, "approval")
    /\ txn' = [txn EXCEPT ![q].asks = TRUE, ![q].phase = "finished"]
    /\ UNCHANGED <<runs, approvals, acts, jumps, rollbacks>>

(* Variant: current_step is advanced only when no action failed. *)
ActRetrying(q, failed) ==
    /\ AtStep(q, "action")
    /\ Step(q).dry => ~failed
    /\ acts' = IF Step(q).dry THEN acts
               ELSE [acts EXCEPT ![txn[q].run] = Append(@, Index(Steps(q), txn[q].cur))]
    /\ txn' = [txn EXCEPT ![q].cur = IF failed THEN @ ELSE @ + 1, ![q].failed = failed]
    /\ IF failed THEN UNCHANGED jumps ELSE MovesOn(q, txn[q].cur + 1)
    /\ UNCHANGED <<runs, approvals, rollbacks>>

(* The files of the run are moved or deleted, unless it is a dry run.  The  *)
(* results replace those of the last action, in this request's copy of the  *)
(* context only: SQLAlchemy does not see a JSON column change in place.     *)
Act(q, failed) ==
    /\ AtStep(q, "action")
    /\ Step(q).dry => ~failed
    /\ acts' = IF Step(q).dry THEN acts
               ELSE [acts EXCEPT ![txn[q].run] = Append(@, Index(Steps(q), txn[q].cur))]
    /\ txn' = [txn EXCEPT ![q].cur = @ + 1, ![q].failed = failed]
    /\ MovesOn(q, txn[q].cur + 1)
    /\ UNCHANGED <<runs, approvals, rollbacks>>

(* Notifications are sent; a failed one is ignored. *)
Notify(q) ==
    /\ AtStep(q, "notify")
    /\ Goto(q, txn[q].cur + 1)
    /\ UNCHANGED <<runs, approvals, acts, rollbacks>>

(* _evaluate_condition.  No code fills context["approvals"], so a condition *)
(* that asks for approvals is false.                                        *)
Holds(q, expr) == CASE expr = "error_count == 0"    -> ~txn[q].failed
                    [] expr = "approval_count >= 1" -> FALSE
                    [] OTHER                        -> TRUE

Condition(q) ==
    /\ AtStep(q, "condition")
    /\ \/ Holds(q, Step(q).expr) /\ Goto(q, txn[q].cur + 1)
       \/ ~Holds(q, Step(q).expr) /\ \E n \in Step(q).else : Goto(q, n)
       \/ /\ ~Holds(q, Step(q).expr) /\ Step(q).else = {}
          /\ txn' = [txn EXCEPT ![q].status = "complete", ![q].phase = "finished"]
          /\ UNCHANGED jumps
    /\ UNCHANGED <<runs, approvals, acts, rollbacks>>

(* A step of a kind the engine does not know: the run stays where it is.    *)
Stall(q) ==
    /\ AtSomeStep(q)
    /\ Step(q).kind \notin Kinds
    /\ txn' = [txn EXCEPT ![q].phase = "finished"]
    /\ UNCHANGED <<runs, approvals, acts, jumps, rollbacks>>

----------------------------------------------------------------------------
(* The end of a transaction *)

(* The columns of the run that the request changed, the decision, and the   *)
(* new approval request are written.                                        *)
Commit(q) ==
    /\ txn[q].phase = "finished"
    /\ LET t == txn[q]
           new == t.row.status = "running" /\ runs[t.run].status = "none"
           decided == IF t.approval = 0 THEN approvals
                      ELSE [approvals EXCEPT ![t.approval].status = t.decision]
       IN  /\ runs' = [runs EXCEPT ![t.run] =
                         [status |-> IF new \/ t.status # t.row.status THEN t.status ELSE @.status,
                          cur    |-> IF new \/ t.cur # t.row.cur THEN t.cur ELSE @.cur,
                          tmpl   |-> t.row.tmpl]]
           /\ approvals' = IF t.asks
                           THEN Append(decided, [run |-> t.run, step |-> t.cur,
                                                 status |-> "pending", expired |-> FALSE])
                           ELSE decided
    /\ txn' = [txn EXCEPT ![q] = NoTxn]
    /\ UNCHANGED <<acts, jumps, rollbacks>>

(* The process dies, the database or the commit fails, or the request is    *)
(* cancelled: everything but the file actions is undone.                    *)
Rollback(q) ==
    /\ txn[q].phase \in {"read", "advancing", "finished"}
    /\ rollbacks < MaxRollbacks
    /\ rollbacks' = rollbacks + 1
    /\ txn' = [txn EXCEPT ![q] = NoTxn]
    /\ UNCHANGED <<runs, approvals, acts, jumps>>

(* Time passes an approval's expires_at; nobody asks of a decided one. *)
Expire(a) ==
    /\ approvals[a].status = "pending" /\ ~approvals[a].expired
    /\ approvals' = [approvals EXCEPT ![a].expired = TRUE]
    /\ UNCHANGED <<runs, txn, acts, jumps, rollbacks>>

Next ==
    \/ \E q \in Requests :
          \/ \E r \in Runs, t \in Templates : StartRun(q, r, t)
          \/ \E a \in DOMAIN approvals, d \in {"approved", "rejected"} : ReadApproval(q, a, d)
          \/ RefuseExpired(q) \/ WriteDecision(q)
          \/ EndOfSteps(q) \/ Ask(q) \/ Notify(q) \/ Condition(q) \/ Stall(q)
          \/ \E failed \in BOOLEAN : Act(q, failed)
          \/ Commit(q) \/ Rollback(q)
    \/ \E a \in DOMAIN approvals : Expire(a)

Spec == Init /\ [][Next]_vars

(* Nothing in the code keeps two requests from working on one run at the    *)
(* same time.  The specification in which they do not: those of different   *)
(* runs overlap as they like.                                               *)
Busy(q) == txn[q].phase \in {"read", "advancing", "finished"}

RunOf(q) == IF txn[q].phase = "read" THEN approvals[txn[q].approval].run ELSE txn[q].run

Apart == \A p, q \in Requests : p # q /\ Busy(p) /\ Busy(q) => RunOf(p) # RunOf(q)

ApartSpec == Init /\ [][Next /\ Apart']_vars

----------------------------------------------------------------------------
(* Properties *)

(* Every variable has its type; no row is ever committed as "expired".      *)
RunRow == [status : {"none", "running", "complete", "rejected"},
           tmpl : Templates \cup {<<>>}, cur : Int]

ApprovalRow == [run : Runs, step : Int, expired : BOOLEAN,
                status : {"pending", "approved", "rejected"}]

Reading == [phase : {"read", "expired"}, approval : DOMAIN approvals,
            decision : {"approved", "rejected"}]

Working == [phase : {"advancing", "finished"}, run : Runs, row : RunRow, cur : Int,
            status : {"running", "complete", "rejected"}, failed : BOOLEAN,
            asks : BOOLEAN, approval : {0} \cup DOMAIN approvals,
            decision : {"none", "approved", "rejected"}]

TypeOK ==
    /\ runs \in [Runs -> RunRow]
    /\ approvals \in Seq(ApprovalRow)
    /\ txn \in [Requests -> {NoTxn} \cup Reading \cup Working]
    /\ acts \in [Runs -> Seq(Nat)]
    /\ jumps \in [Runs -> 0 .. MaxJumps]
    /\ rollbacks \in 0 .. MaxRollbacks

(* "approval: wait for human approval before proceeding": a run has not     *)
(* gone past an approval step that is undecided or rejected.                *)
GateHeld ==
    \A a \in DOMAIN approvals :
        approvals[a].status # "approved" =>
            LET r == approvals[a].run
            IN  /\ runs[r].cur = approvals[a].step
                /\ runs[r].status = IF approvals[a].status = "pending" THEN "running" ELSE "rejected"

(* A run that is shown running, and is not at a step of an unknown kind, is  *)
(* shown with exactly one approval that is in the list of pending ones:     *)
(* without it nobody could move the run again (unless it has expired, which *)
(* the code leaves pending for ever).                                       *)
RunningHasGate ==
    \A r \in Runs :
        GetRun(r).status = "running" =>
            \/ StepAt(runs[r].tmpl, runs[r].cur).kind \notin Kinds
            \/ \E a \in ListPendingApprovals : GetRun(r).approvals \cap ListPendingApprovals = {a}

(* "All destructive actions require an approval step": no file is touched   *)
(* for a run while an approval of it is undecided or rejected, but by the   *)
(* request that is approving it.                                            *)
BeingApproved(a) == \E q \in Requests : /\ txn[q].phase \in {"advancing", "finished"}
                                        /\ txn[q].approval = a
                                        /\ txn[q].decision = "approved"

NoneOpen(r) ==
    \A a \in DOMAIN approvals :
        approvals[a].run = r => approvals[a].status = "approved" \/ BeingApproved(a)

TouchedWhenApproved == [][\A r \in Runs : acts'[r] # acts[r] => NoneOpen(r)]_vars

Times(s, i) == Cardinality({m \in DOMAIN s : s[m] = i})

(* An action touches the files once, and once more for every transaction    *)
(* that was rolled back after it and every time the run was sent back.      *)
ActionOnce ==
    \A r \in Runs : \A n \in DOMAIN acts[r] :
        Times(acts[r], acts[r][n]) <= 1 + rollbacks + jumps[r]

(* What is committed of a run and its approvals follows the engine's state  *)
(* machine (engine.py:16): a run moves, forward or back, when the approval  *)
(* it waits for is decided and by that commit, whatever else was in between.*)
ShownRuns  == [r \in Runs |-> [status |-> runs[r].status, step |-> runs[r].cur]]
ShownGate(a) == [run |-> approvals[a].run, step |-> approvals[a].step,
                 decision |-> approvals[a].status]
ShownGates == [a \in DOMAIN approvals |-> ShownGate(a)]
Shown == INSTANCE ApprovedRuns WITH run <- ShownRuns, gate <- ShownGates
StateMachine == Shown!Spec
=============================================================================
