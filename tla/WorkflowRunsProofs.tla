------------------------- MODULE WorkflowRunsProofs -------------------------
(* Theorems about WorkflowRuns for any number of runs and requests and any   *)
(* templates that WorkflowAssumption allows, as long as no two requests      *)
(* work on the same run at the same time (ApartSpec).                        *)
EXTENDS WorkflowRuns, FiniteSetTheorems, TLAPS

Works(q) == txn[q].phase \in {"advancing", "finished"}

(* A transaction starts a run that no one sees yet, or decides an approval   *)
(* that is pending, on the run as it is in the database.                     *)
Starting(q) ==
    /\ txn[q].approval = 0 /\ txn[q].decision = "none"
    /\ runs[txn[q].run].status = "none" /\ txn[q].row.status = "running"

Deciding(q) ==
    /\ txn[q].approval \in DOMAIN approvals /\ txn[q].decision \in {"approved", "rejected"}
    /\ approvals[txn[q].approval].run = txn[q].run
    /\ approvals[txn[q].approval].status = "pending"
    /\ txn[q].row = runs[txn[q].run]

(* How _advance or a rejection has left the run.                             *)
Outcome(t) ==
    \/ t.status = "complete" /\ ~t.asks /\ t.decision # "rejected"
    \/ t.status = "rejected" /\ ~t.asks /\ t.decision = "rejected" /\ t.cur = t.row.cur
    \/ t.status = "running" /\ t.asks /\ t.decision # "rejected"
    \/ t.status = "running" /\ ~t.asks /\ t.decision # "rejected"
       /\ StepAt(t.row.tmpl, t.cur).kind \notin Kinds

(* What a transaction knows is still true, and where it stands.              *)
TxnsAreTrue ==
    \A q \in Requests :
        /\ txn[q].phase = "read" => approvals[txn[q].approval].status = "pending"
        /\ Works(q) =>
              /\ Starting(q) \/ Deciding(q)
              /\ txn[q].row.tmpl \in Templates
        /\ txn[q].phase = "advancing" =>
              txn[q].status = "running" /\ ~txn[q].asks /\ txn[q].decision # "rejected"
        /\ txn[q].phase = "finished" => Outcome(txn[q])

(* Runs that no one sees have no approvals.                                  *)
UnseenIsNew ==
    /\ \A r \in Runs : /\ runs[r].status = "none" => runs[r].cur = 0
                       /\ runs[r].status # "none" => runs[r].tmpl \in Templates
    /\ \A a \in DOMAIN approvals : runs[approvals[a].run].status # "none"

(* A run has at most one approval that is not approved, and a running one    *)
(* has one.                                                                  *)
Open(a) == approvals[a].status # "approved"

OneGate ==
    \A a, b \in DOMAIN approvals : Open(a) /\ Open(b) /\ approvals[a].run = approvals[b].run => a = b

SomeGate ==
    \A r \in Runs :
        runs[r].status = "running" =>
            \/ StepAt(runs[r].tmpl, runs[r].cur).kind \notin Kinds
            \/ \E a \in DOMAIN approvals : approvals[a].run = r /\ approvals[a].status = "pending"

(* No action was repeated but after a rollback or a jump back, and those     *)
(* from the step bound on were only touched before one of the two.           *)
Spent(r, bound) ==
    \A i \in Nat : Times(acts[r], i) <= rollbacks + jumps[r] + (IF i < bound THEN 1 ELSE 0)

StandsIn(q) == Index(txn[q].row.tmpl, txn[q].cur)
LeftAt(r)   == Index(runs[r].tmpl, runs[r].cur)

ActsAreSpent ==
    /\ \A q \in Requests : Works(q) => Spent(txn[q].run, StandsIn(q))
    /\ \A r \in Runs : Spent(r, LeftAt(r)) \/ \E q \in Requests : Works(q) /\ txn[q].run = r

(* The inductive invariant.                                                  *)
IInv ==
    /\ TypeOK /\ Apart
    /\ TxnsAreTrue /\ UnseenIsNew
    /\ GateHeld /\ OneGate /\ SomeGate
    /\ ActsAreSpent

----------------------------------------------------------------------------
(* Lemmas *)

(* What a transaction is follows from its phase.                             *)
LEMMA PhaseTells ==
    ASSUME TypeOK, NEW q \in Requests
    PROVE  /\ txn[q].phase \in {"idle", "read", "expired", "advancing", "finished"}
           /\ txn[q].phase = "idle" => txn[q] = NoTxn
           /\ txn[q].phase \in {"read", "expired"} => txn[q] \in Reading
           /\ Works(q) => txn[q] \in Working
<1>1. txn[q] \in {NoTxn} \cup Reading \cup Working
    BY DEF TypeOK
<1>2. CASE txn[q] = NoTxn
    BY <1>2 DEF NoTxn, Works
<1>3. CASE txn[q] \in Reading
    <2>1. txn[q].phase \in {"read", "expired"}
        BY <1>3 DEF Reading
    <2> QED
        BY <1>3, <2>1 DEF Works
<1>4. CASE txn[q] \in Working
    <2>1. txn[q].phase \in {"advancing", "finished"}
        BY <1>4 DEF Working
    <2> QED
        BY <1>4, <2>1 DEF Works
<1> QED
    BY <1>1, <1>2, <1>3, <1>4

(* An action is done a number of times.                                      *)
LEMMA TimesType ==
    ASSUME NEW s \in Seq(Nat), NEW i
    PROVE  IsFiniteSet({m \in DOMAIN s : s[m] = i}) /\ Times(s, i) \in Nat
<1>1. DOMAIN s = 1 .. Len(s) /\ Len(s) \in Nat
    OBVIOUS
<1>2. IsFiniteSet(1 .. Len(s))
    BY <1>1, FS_Interval
<1>3. IsFiniteSet({m \in DOMAIN s : s[m] = i})
    BY <1>1, <1>2, FS_Subset
<1> QED
    BY <1>3, FS_CardinalityType DEF Times

(* Appending an entry counts it once.                                        *)
LEMMA TimesAppend ==
    ASSUME NEW s \in Seq(Nat), NEW e \in Nat, NEW i
    PROVE  Times(Append(s, e), i) = Times(s, i) + (IF i = e THEN 1 ELSE 0)
<1> DEFINE more == Append(s, e)
           at == {m \in DOMAIN s : s[m] = i}
<1>1. /\ Len(s) \in Nat /\ DOMAIN s = 1 .. Len(s) /\ DOMAIN more = 1 .. Len(s) + 1
      /\ \A m \in 1 .. Len(s) : more[m] = s[m]
      /\ more[Len(s) + 1] = e
    OBVIOUS
<1> HIDE DEF more
<1>2. IsFiniteSet(at) /\ Cardinality(at) \in Nat /\ Len(s) + 1 \notin at
    <2>1. IsFiniteSet(at) /\ Cardinality(at) \in Nat
        BY TimesType DEF Times
    <2> QED
        BY <1>1, <2>1
<1>3. CASE i = e
    <2>1. {m \in DOMAIN more : more[m] = i} = at \cup {Len(s) + 1}
        BY <1>1, <1>3
    <2> QED
        BY <1>2, <1>3, <2>1, FS_AddElement DEF Times, more
<1>4. CASE i # e
    <2>1. {m \in DOMAIN more : more[m] = i} = at
        BY <1>1, <1>4
    <2> QED
        <3>1. Times(more, i) = Times(s, i)
            BY <2>1 DEF Times
        <3> QED
            BY <1>2, <1>4, <3>1, TimesType DEF more
<1> QED
    BY <1>3, <1>4

(* An entry of a sequence is counted.                                        *)
LEMMA TimesOfEntry ==
    ASSUME NEW s \in Seq(Nat), NEW n \in DOMAIN s
    PROVE  Times(s, s[n]) >= 1
<1> DEFINE at == {m \in DOMAIN s : s[m] = s[n]}
<1>1. n \in at /\ IsFiniteSet(at) /\ Cardinality(at) \in Nat
    BY TimesType DEF Times
<1>2. Cardinality(at) # 0
    BY <1>1, FS_EmptySet
<1> QED
    BY <1>1, <1>2 DEF Times

(* Nothing was done before the first entry.                                  *)
LEMMA NothingSpent ==
    ASSUME NEW i
    PROVE  Times(<<>>, i) = 0
<1>1. {m \in DOMAIN <<>> : <<>>[m] = i} = {}
    OBVIOUS
<1> QED
    BY <1>1, FS_EmptySet DEF Times

(* What is spent stays so when the run moves: forward, or back and counted.  *)
LEMMA SpentGrows ==
    ASSUME TypeOK, NEW r \in Runs, NEW bound \in Int, NEW more \in Int, Spent(r, bound),
           UNCHANGED <<acts, rollbacks>>,
           \/ jumps'[r] = jumps[r] /\ bound <= more
           \/ jumps'[r] = jumps[r] + 1
    PROVE  \A i \in Nat : Times(acts'[r], i) <= rollbacks' + jumps'[r] + (IF i < more THEN 1 ELSE 0)
<1>1. rollbacks \in Nat /\ acts[r] \in Seq(Nat) /\ jumps[r] \in Nat
    BY WorkflowAssumption DEF TypeOK
<1>2. \A i \in Nat : Times(acts[r], i) \in Nat
    BY <1>1, TimesType
<1>3. ASSUME NEW i \in Nat
      PROVE  Times(acts'[r], i) <= rollbacks' + jumps'[r] + (IF i < more THEN 1 ELSE 0)
    <2>1. Times(acts[r], i) <= rollbacks + jumps[r] + (IF i < bound THEN 1 ELSE 0)
        BY DEF Spent
    <2>2. Times(acts[r], i) \in Nat /\ rollbacks \in Nat /\ jumps[r] \in Nat
        BY <1>1, <1>2
    <2>3. CASE i < bound
        BY <2>1, <2>2, <2>3
    <2>4. CASE ~(i < bound)
        BY <2>1, <2>2, <2>4
    <2> QED
        BY <2>3, <2>4
<1> QED
    BY <1>3

(* Where a run stands counts from the first step.                            *)
LEMMA IndexType ==
    ASSUME NEW tmpl \in Templates \cup {<<>>}, NEW n \in Int
    PROVE  Index(tmpl, n) \in Int
<1>1. Len(tmpl) \in Nat
    <2>1. CASE tmpl = <<>>
        BY <2>1
    <2>2. CASE tmpl \in Templates
        <3>1. tmpl \in Seq(TemplateSteps)
            BY <2>2, WorkflowAssumption
        <3> QED
            BY <3>1
    <2> QED
        BY <2>1, <2>2
<1> QED
    BY <1>1 DEF Index

LEMMA WhereRunsStand ==
    ASSUME TypeOK
    PROVE  /\ \A r \in Runs : LeftAt(r) \in Int
           /\ \A q \in Requests : Works(q) => StandsIn(q) \in Int
<1>1. ASSUME NEW r \in Runs PROVE LeftAt(r) \in Int
    <2>1. runs[r] \in RunRow
        BY DEF TypeOK
    <2> QED
        BY <2>1, IndexType DEF LeftAt, RunRow
<1>2. ASSUME NEW q \in Requests, Works(q) PROVE StandsIn(q) \in Int
    <2>1. txn[q] \in Working
        BY <1>2, PhaseTells
    <2>2. txn[q].row.tmpl \in Templates \cup {<<>>} /\ txn[q].cur \in Int
        BY <2>1 DEF Working, RunRow
    <2> QED
        BY <2>2, IndexType DEF StandsIn
<1> QED
    BY <1>1, <1>2

(* Only requests at other runs are left when one has a run.                  *)
LEMMA OthersElsewhere ==
    ASSUME Apart, NEW p \in Requests, NEW q \in Requests, p # q, Works(q), Busy(p)
    PROVE  /\ txn[p].phase = "read" => approvals[txn[p].approval].run # txn[q].run
           /\ Works(p) => txn[p].run # txn[q].run
<1>1. Busy(q) /\ RunOf(q) = txn[q].run
    BY DEF Works, Busy, RunOf
<1>2. RunOf(p) # RunOf(q)
    BY <1>1 DEF Apart
<1> QED
    BY <1>1, <1>2 DEF RunOf, Works

(* Nothing is known at the start.                                            *)
LEMMA InitIInv == Init => IInv
<1> SUFFICES ASSUME Init PROVE IInv
    OBVIOUS
<1>1. /\ \A q \in Requests : txn[q].phase = "idle"
      /\ approvals = <<>> /\ DOMAIN approvals = {} /\ rollbacks = 0
      /\ \A r \in Runs : jumps[r] = 0
      /\ \A r \in Runs : runs[r].status = "none" /\ runs[r].cur = 0 /\ acts[r] = <<>>
    BY DEF Init, NoTxn
<1>2. TypeOK
    <2>1. runs \in [Runs -> RunRow]
        BY DEF Init, RunRow
    <2>2. txn \in [Requests -> {NoTxn} \cup Reading \cup Working]
        BY DEF Init
    <2>3. acts \in [Runs -> Seq(Nat)] /\ approvals \in Seq(ApprovalRow)
        BY DEF Init
    <2>4. rollbacks \in 0 .. MaxRollbacks /\ jumps \in [Runs -> 0 .. MaxJumps]
        BY WorkflowAssumption DEF Init
    <2> QED
        BY <2>1, <2>2, <2>3, <2>4 DEF TypeOK
<1>3. Apart /\ TxnsAreTrue
    BY <1>1 DEF Apart, Busy, TxnsAreTrue, Works
<1>4. UnseenIsNew /\ GateHeld /\ OneGate /\ SomeGate
    BY <1>1 DEF UnseenIsNew, GateHeld, OneGate, SomeGate
<1>5. ActsAreSpent
    BY <1>1, NothingSpent DEF ActsAreSpent, Spent, Works
<1> QED
    BY <1>2, <1>3, <1>4, <1>5 DEF IInv

----------------------------------------------------------------------------
(* Steps that only move transactions *)

(* Runs, approvals and files stay as they are: what is known of them holds.  *)
LEMMA RowsStay ==
    ASSUME IInv, UNCHANGED <<runs, approvals>>
    PROVE  UnseenIsNew' /\ GateHeld' /\ OneGate' /\ SomeGate'
BY DEF IInv, UnseenIsNew, GateHeld, OneGate, Open, SomeGate

(* One transaction becomes t: what the others know stays true.               *)
LEMMA OneTxnMoves ==
    ASSUME IInv, NEW q \in Requests, NEW t, txn' = [txn EXCEPT ![q] = t],
           UNCHANGED <<runs, approvals>>, t \in {NoTxn} \cup Reading \cup Working,
           /\ t.phase = "read" => approvals[t.approval].status = "pending"
           /\ t.phase \in {"advancing", "finished"} =>
                 /\ Starting(q)' \/ Deciding(q)'
                 /\ t.row.tmpl \in Templates
           /\ t.phase = "advancing" =>
                 t.status = "running" /\ ~t.asks /\ t.decision # "rejected"
           /\ t.phase = "finished" => Outcome(t)
    PROVE  TxnsAreTrue' /\ txn' \in [Requests -> ({NoTxn} \cup Reading \cup Working)']
<1>1. /\ txn'[q] = t
      /\ \A p \in Requests : p # q => txn'[p] = txn[p]
    BY DEF IInv, TypeOK
<1>2. Reading' = Reading /\ Working' = Working
    BY DEF Reading, Working
<1>3. txn' \in [Requests -> ({NoTxn} \cup Reading \cup Working)']
    BY <1>2 DEF IInv, TypeOK, NoTxn
<1>4. ASSUME NEW p \in Requests
      PROVE  /\ txn'[p].phase = "read" => approvals'[txn'[p].approval].status = "pending"
             /\ Works(p)' => /\ Starting(p)' \/ Deciding(p)'
                             /\ txn'[p].row.tmpl \in Templates
             /\ txn'[p].phase = "advancing" =>
                   txn'[p].status = "running" /\ ~txn'[p].asks /\ txn'[p].decision # "rejected"
             /\ txn'[p].phase = "finished" => Outcome(txn'[p])
    <2>1. CASE p = q
        BY <1>1, <2>1 DEF Works
    <2>2. CASE p # q
        BY <1>1, <2>2 DEF IInv, TxnsAreTrue, Works, Starting, Deciding
    <2> QED
        BY <2>1, <2>2
<1> QED
    BY <1>3, <1>4 DEF TxnsAreTrue

(* Transaction q becomes t in a step of _advance: the same run on the same   *)
(* row.                                                                      *)
SameWork(q, t) ==
    /\ t \in Working /\ txn' = [txn EXCEPT ![q] = t]
    /\ t.run = txn[q].run /\ t.row = txn[q].row
    /\ t.approval = txn[q].approval /\ t.decision = txn[q].decision
    /\ t.phase = "advancing" => t.status = "running" /\ ~t.asks
    /\ t.phase = "finished" => Outcome(t)

(* It touches files at most at the step it leaves, and goes forward or is    *)
(* counted as sent back.                                                     *)
Touches(q) == /\ StandsIn(q) \in Nat
              /\ acts' = [acts EXCEPT ![txn[q].run] = Append(@, StandsIn(q))]

GoesForward(q, t) ==
    LET to == Index(t.row.tmpl, t.cur)
    IN  /\ jumps' = jumps
        /\ \/ acts' = acts /\ to >= StandsIn(q)
           \/ Touches(q) /\ to > StandsIn(q)

GoesBack(q) ==
    /\ jumps[txn[q].run] < MaxJumps
    /\ jumps' = [jumps EXCEPT ![txn[q].run] = @ + 1]
    /\ acts' = acts \/ Touches(q)

Goes(q, t) == SameWork(q, t) /\ (GoesForward(q, t) \/ GoesBack(q))

(* What is spent at a step of _advance.                                      *)
LEMMA SpentByGoing ==
    ASSUME IInv, NEW q \in Requests, txn[q].phase = "advancing", NEW t, Goes(q, t),
           UNCHANGED rollbacks
    PROVE  /\ acts' \in [Runs -> Seq(Nat)] /\ jumps' \in [Runs -> 0 .. MaxJumps]
           /\ \A x \in Runs : x # txn[q].run => acts'[x] = acts[x] /\ jumps'[x] = jumps[x]
           /\ Spent(t.run, StandsIn(q))'
<1> DEFINE r == txn[q].run
           from == StandsIn(q)
           to == Index(t.row.tmpl, t.cur)
<1>1. /\ txn[q] \in Working /\ Works(q) /\ r \in Runs /\ from \in Int /\ t \in Working
      /\ t.run = r /\ StandsIn(q)' = to
    <2>1. txn[q] \in Working /\ Works(q) /\ t \in Working /\ t.run = r
        BY PhaseTells DEF IInv, Works, Goes, SameWork
    <2>2. txn'[q] = t
        BY DEF Goes, SameWork, IInv, TypeOK
    <2> QED
        BY <2>1, <2>2, WhereRunsStand DEF IInv, Working, StandsIn
<1>2. to \in Int
    <2>1. t.row.tmpl \in Templates \cup {<<>>} /\ t.cur \in Int
        BY <1>1 DEF Working, RunRow
    <2> QED
        BY <2>1, IndexType
<1>3. /\ acts \in [Runs -> Seq(Nat)] /\ acts[r] \in Seq(Nat) /\ rollbacks \in Nat
      /\ jumps \in [Runs -> 0 .. MaxJumps] /\ jumps[r] \in Nat /\ MaxJumps \in Nat
      /\ \A i \in Nat : Times(acts[r], i) <= rollbacks + jumps[r] + (IF i < from THEN 1 ELSE 0)
    BY <1>1, WorkflowAssumption DEF IInv, TypeOK, ActsAreSpent, Spent
<1>4. \A i \in Nat : Times(acts[r], i) \in Nat
    BY <1>3, TimesType
<1> HIDE DEF r, from, to
<1>5. /\ jumps' \in [Runs -> 0 .. MaxJumps]
      /\ \A x \in Runs : x # r => jumps'[x] = jumps[x]
      /\ \/ jumps'[r] = jumps[r] /\ to >= from /\ (acts' = acts \/ to > from)
         \/ jumps'[r] = jumps[r] + 1
    <2>1. CASE GoesForward(q, t)
        BY <1>1, <1>2, <1>3, <2>1 DEF GoesForward, from, to
    <2>2. CASE GoesBack(q)
        <3>1. jumps[r] < MaxJumps /\ jumps' = [jumps EXCEPT ![r] = jumps[r] + 1]
            BY <2>2 DEF GoesBack, r
        <3>2. jumps[r] + 1 \in 0 .. MaxJumps
            BY <1>3, <3>1
        <3> QED
            BY <1>1, <1>3, <3>1, <3>2
    <2> QED
        BY <2>1, <2>2 DEF Goes
<1>6. \/ acts' = acts
      \/ from \in Nat /\ acts' = [acts EXCEPT ![r] = Append(acts[r], from)]
    BY DEF Goes, GoesForward, GoesBack, Touches, r, from
<1>7. /\ acts' \in [Runs -> Seq(Nat)]
      /\ \A x \in Runs : x # r => acts'[x] = acts[x]
      /\ \/ acts' = acts
         \/ from \in Nat /\ acts'[r] = Append(acts[r], from)
    <2>1. CASE acts' = acts
        BY <1>3, <2>1
    <2>2. CASE from \in Nat /\ acts' = [acts EXCEPT ![r] = Append(acts[r], from)]
        <3>1. Append(acts[r], from) \in Seq(Nat)
            BY <1>3, <2>2
        <3> QED
            BY <1>1, <1>3, <2>2, <3>1
    <2> QED
        BY <1>6, <2>1, <2>2
<1>8. ASSUME NEW i \in Nat
      PROVE  Times(acts'[r], i) <= rollbacks + jumps'[r] + (IF i < to THEN 1 ELSE 0)
    <2>1. /\ Times(acts[r], i) <= rollbacks + jumps[r] + (IF i < from THEN 1 ELSE 0)
          /\ Times(acts[r], i) \in Nat
        BY <1>3, <1>4
    <2>2. CASE acts' = acts
        BY <1>1, <1>2, <1>3, <1>5, <2>1, <2>2
    <2>3. CASE acts' # acts
        <3>1. from \in Nat /\ acts'[r] = Append(acts[r], from)
            BY <1>7, <2>3
        <3>2. acts[r] \in Seq(Nat)
            BY <1>3
        <3>3. Times(acts'[r], i) = Times(acts[r], i) + (IF i = from THEN 1 ELSE 0)
            BY <3>1, <3>2, TimesAppend
        <3>4. CASE jumps'[r] = jumps[r] /\ to > from
            <4>1. CASE i < from
                BY <1>2, <1>3, <2>1, <3>1, <3>3, <3>4, <4>1
            <4>2. CASE i = from
                BY <1>2, <1>3, <2>1, <3>1, <3>3, <3>4, <4>2
            <4>3. CASE i > from
                BY <1>2, <1>3, <2>1, <3>1, <3>3, <3>4, <4>3
            <4> QED
                BY <3>1, <4>1, <4>2, <4>3
        <3>5. CASE jumps'[r] = jumps[r] + 1
            <4>1. Times(acts'[r], i) <= rollbacks + jumps[r] + 1
                <5>1. CASE i < from
                    BY <1>3, <2>1, <3>1, <3>3, <5>1
                <5>2. CASE ~(i < from)
                    BY <1>3, <2>1, <3>1, <3>3, <5>2
                <5> QED
                    BY <5>1, <5>2
            <4>2. Times(acts'[r], i) \in Nat
                BY <2>1, <3>3
            <4> QED
                BY <1>2, <1>3, <3>5, <4>1, <4>2
        <3> QED
            BY <1>5, <2>3, <3>4, <3>5
    <2> QED
        BY <2>2, <2>3
<1>9. Spent(t.run, StandsIn(q))'
    BY <1>1, <1>8 DEF Spent
<1> QED
    BY <1>5, <1>7, <1>9 DEF r

(* A transaction goes on with its run.                                       *)
LEMMA WorkGoesOn ==
    ASSUME IInv, Apart', NEW q \in Requests, txn[q].phase = "advancing", NEW t, Goes(q, t),
           UNCHANGED <<runs, approvals, rollbacks>>
    PROVE  IInv'
<1>0. PICK r \in Runs : r = txn[q].run
    BY PhaseTells DEF IInv, Works, Working
<1>1. txn[q] \in Working /\ Works(q) /\ t \in Working
    BY PhaseTells DEF IInv, Works, Goes, SameWork
<1>2. /\ txn'[q] = t /\ \A p \in Requests : p # q => txn'[p] = txn[p]
      /\ t.phase \in {"advancing", "finished"} /\ Works(q)' /\ t.run = r
    BY <1>0, <1>1 DEF IInv, TypeOK, Working, Works, Goes, SameWork
<1>3. TxnsAreTrue' /\ txn' \in [Requests -> ({NoTxn} \cup Reading \cup Working)']
    <2>1. Starting(q)' \/ Deciding(q)'
        <3>1. /\ txn'[q].approval = txn[q].approval /\ txn'[q].decision = txn[q].decision
              /\ txn'[q].run = txn[q].run /\ txn'[q].row = txn[q].row
              /\ runs' = runs /\ approvals' = approvals
            BY <1>2 DEF Goes, SameWork
        <3>2. Starting(q) \/ Deciding(q)
            BY <1>1 DEF IInv, TxnsAreTrue
        <3> QED
            BY <3>1, <3>2 DEF Starting, Deciding
    <2>2. txn[q].decision # "rejected" /\ txn[q].row.tmpl \in Templates
        BY <1>1 DEF IInv, TxnsAreTrue
    <2>3. /\ txn' = [txn EXCEPT ![q] = t] /\ t.row = txn[q].row /\ t.decision = txn[q].decision
          /\ t.phase = "advancing" => t.status = "running" /\ ~t.asks
          /\ t.phase = "finished" => Outcome(t)
        BY DEF Goes, SameWork
    <2> QED
        BY <1>1, <1>2, <2>1, <2>2, <2>3, OneTxnMoves
<1>4. /\ acts' \in [Runs -> Seq(Nat)] /\ jumps' \in [Runs -> 0 .. MaxJumps]
      /\ \A x \in Runs : x # r => acts'[x] = acts[x] /\ jumps'[x] = jumps[x]
      /\ Spent(t.run, StandsIn(q))'
    BY <1>0, SpentByGoing
<1>5. TypeOK'
    BY <1>3, <1>4 DEF IInv, TypeOK, RunRow, ApprovalRow
<1>7. ActsAreSpent'
    <2>1. ASSUME NEW p \in Requests, Works(p)' PROVE Spent(txn[p].run, StandsIn(p))'
        <3>1. CASE p = q
            BY <1>2, <1>4, <3>1
        <3>2. CASE p # q
            <4>1. txn'[p] = txn[p] /\ Works(p)
                BY <1>2, <2>1, <3>2 DEF Works
            <4>2. txn[p].run \in Runs /\ txn[p].run # r
                BY <1>0, <1>1, <3>2, <4>1, OthersElsewhere, PhaseTells DEF IInv, Working, Works, Busy
            <4>3. Spent(txn[p].run, StandsIn(p))
                BY <4>1 DEF IInv, ActsAreSpent
            <4> QED
                BY <1>4, <4>1, <4>2, <4>3 DEF Spent, StandsIn
        <3> QED
            BY <3>1, <3>2
    <2>2. ASSUME NEW x \in Runs PROVE Spent(x, LeftAt(x))' \/ \E p \in Requests : Works(p)' /\ txn'[p].run = x
        <3>1. CASE x = r
            BY <1>2, <3>1
        <3>2. CASE x # r /\ Spent(x, LeftAt(x))
            BY <1>4, <3>2 DEF Spent, LeftAt
        <3>3. CASE x # r /\ \E p \in Requests : Works(p) /\ txn[p].run = x
            BY <1>0, <1>2, <3>3 DEF Works
        <3> QED
            BY <3>1, <3>2, <3>3 DEF IInv, ActsAreSpent
    <2> QED
        BY <2>1, <2>2 DEF ActsAreSpent
<1> QED
    BY <1>3, <1>5, <1>7, RowsStay DEF IInv

(* How a run is moved, in the terms of Goes.                                 *)
LEMMA GoesBy ==
    ASSUME TypeOK, NEW q \in Requests, txn[q] \in Working, Works(q), NEW t, SameWork(q, t),
           acts' = acts \/ Touches(q),
           \/ t.cur = txn[q].cur /\ acts' = acts /\ UNCHANGED jumps
           \/ MovesOn(q, t.cur)
    PROVE  Goes(q, t)
<1> DEFINE from == StandsIn(q)
           to == Index(t.row.tmpl, t.cur)
<1>1. from \in Int /\ to \in Int /\ t.row = txn[q].row
    <2>1. t.row = txn[q].row /\ t.row.tmpl \in Templates \cup {<<>>} /\ t.cur \in Int
        BY DEF SameWork, Working, RunRow
    <2> QED
        BY <2>1, IndexType, WhereRunsStand
<1>2. CASE t.cur = txn[q].cur /\ acts' = acts /\ UNCHANGED jumps
    <2>1. to = from
        BY <1>1, <1>2 DEF StandsIn
    <2> QED
        BY <1>1, <1>2, <2>1 DEF Goes, GoesForward
<1>3. CASE MovesOn(q, t.cur)
    <2>1. IF to > from THEN UNCHANGED jumps
          ELSE jumps[txn[q].run] < MaxJumps /\ jumps' = [jumps EXCEPT ![txn[q].run] = @ + 1]
        BY <1>1, <1>3 DEF MovesOn, Moves, Steps, StandsIn
    <2>2. CASE to > from
        BY <1>1, <2>1, <2>2 DEF Goes, GoesForward
    <2>3. CASE ~(to > from)
        BY <2>1, <2>3 DEF Goes, GoesBack
    <2> QED
        BY <2>2, <2>3
<1> QED
    BY <1>2, <1>3

(* What the steps of _advance have in common: past the last step, a request  *)
(* for approval, a notification, a condition, an unknown step, and an action.*)
LEMMA AdvanceGoes ==
    ASSUME IInv, NEW q \in Requests,
           \/ EndOfSteps(q) \/ Ask(q) \/ Notify(q) \/ Condition(q) \/ Stall(q)
           \/ \E failed \in BOOLEAN : Act(q, failed)
    PROVE  /\ txn[q].phase = "advancing" /\ UNCHANGED <<runs, approvals, rollbacks>>
           /\ \E t : Goes(q, t)
<1>1. txn[q].phase = "advancing" /\ UNCHANGED <<runs, approvals, rollbacks>>
    BY DEF EndOfSteps, Ask, Notify, Condition, Stall, Act, AtStep, AtSomeStep
<1>2. /\ txn[q] \in Working /\ txn[q].cur \in Int /\ txn[q].row.tmpl \in Templates
      /\ Works(q) /\ TypeOK
      /\ txn[q].status = "running" /\ ~txn[q].asks /\ txn[q].decision # "rejected"
    BY <1>1, PhaseTells DEF IInv, TxnsAreTrue, Works, Working
<1>3. ASSUME txn' = [txn EXCEPT ![q].status = "complete", ![q].phase = "finished"],
             UNCHANGED <<acts, jumps>>
      PROVE  \E t : Goes(q, t)
    <2> DEFINE t == [txn[q] EXCEPT !.status = "complete", !.phase = "finished"]
    <2>1. t \in Working
        BY <1>2 DEF Working
    <2>2. /\ t.status = "complete" /\ t.phase = "finished" /\ ~t.asks
          /\ t.decision = txn[q].decision /\ t.run = txn[q].run /\ t.row = txn[q].row
          /\ t.cur = txn[q].cur /\ t.approval = txn[q].approval
        BY <1>2 DEF Working
    <2>3. txn' = [txn EXCEPT ![q] = t]
        BY <1>3
    <2> HIDE DEF t
    <2>4. SameWork(q, t)
        BY <1>2, <2>1, <2>2, <2>3 DEF SameWork, Outcome
    <2> QED
        BY <1>2, <1>3, <2>2, <2>4, GoesBy
<1>4. CASE Ask(q)
    <2> DEFINE t == [txn[q] EXCEPT !.asks = TRUE, !.phase = "finished"]
    <2>1. t \in Working
        BY <1>2 DEF Working
    <2>2. /\ t.status = "running" /\ t.phase = "finished" /\ t.asks
          /\ t.decision = txn[q].decision /\ t.run = txn[q].run /\ t.row = txn[q].row
          /\ t.cur = txn[q].cur /\ t.approval = txn[q].approval
        BY <1>2 DEF Working
    <2>3. txn' = [txn EXCEPT ![q] = t] /\ UNCHANGED <<acts, jumps>>
        BY <1>4 DEF Ask
    <2> HIDE DEF t
    <2>4. SameWork(q, t)
        BY <1>2, <2>1, <2>2, <2>3 DEF SameWork, Outcome
    <2> QED
        BY <1>1, <1>2, <2>2, <2>3, <2>4, GoesBy
<1>5. ASSUME NEW n \in Int, Goto(q, n), UNCHANGED acts PROVE \E t : Goes(q, t)
    <2> DEFINE t == [txn[q] EXCEPT !.cur = n]
    <2>1. t \in Working
        BY <1>2 DEF Working
    <2>2. /\ t.status = "running" /\ t.phase = "advancing" /\ ~t.asks
          /\ t.decision = txn[q].decision /\ t.run = txn[q].run /\ t.row = txn[q].row
          /\ t.cur = n /\ t.approval = txn[q].approval
        BY <1>1, <1>2 DEF Working
    <2>3. txn' = [txn EXCEPT ![q] = t] /\ MovesOn(q, n)
        BY <1>5 DEF Goto
    <2> HIDE DEF t
    <2>4. SameWork(q, t)
        BY <2>1, <2>2, <2>3 DEF SameWork
    <2> QED
        BY <1>2, <1>5, <2>2, <2>3, <2>4, GoesBy
<1>6. CASE Stall(q)
    <2> DEFINE t == [txn[q] EXCEPT !.phase = "finished"]
    <2>1. t \in Working
        BY <1>2 DEF Working
    <2>2. /\ t.status = "running" /\ t.phase = "finished" /\ ~t.asks
          /\ t.decision = txn[q].decision /\ t.run = txn[q].run /\ t.row = txn[q].row
          /\ t.cur = txn[q].cur /\ t.approval = txn[q].approval
        BY <1>2 DEF Working
    <2>3. /\ txn' = [txn EXCEPT ![q] = t] /\ UNCHANGED <<acts, jumps>>
          /\ StepAt(txn[q].row.tmpl, txn[q].cur).kind \notin Kinds
        BY <1>6 DEF Stall, Step, Steps
    <2> HIDE DEF t
    <2>4. SameWork(q, t)
        BY <1>2, <2>1, <2>2, <2>3 DEF SameWork, Outcome
    <2> QED
        BY <1>1, <1>2, <2>2, <2>3, <2>4, GoesBy
<1>7. /\ txn[q].row.tmpl \in Seq(TemplateSteps)
      /\ AtSomeStep(q) => /\ StandsIn(q) \in Nat
                          /\ StandsIn(q) + 1 \in DOMAIN txn[q].row.tmpl
                          /\ Step(q) \in TemplateSteps
    <2>1. txn[q].row.tmpl \in Seq(TemplateSteps)
        BY <1>2, WorkflowAssumption
    <2> DEFINE tmpl == txn[q].row.tmpl
    <2>2. ASSUME AtSomeStep(q)
          PROVE  StandsIn(q) \in Nat /\ StandsIn(q) + 1 \in DOMAIN tmpl
        <3>1. /\ -Len(tmpl) <= txn[q].cur /\ txn[q].cur <= Len(tmpl) - 1
              /\ Len(tmpl) \in Nat /\ DOMAIN tmpl = 1 .. Len(tmpl)
            BY <1>2, <2>1, <2>2 DEF AtSomeStep, Steps
        <3>2. CASE txn[q].cur >= 0
            BY <1>2, <3>1, <3>2 DEF StandsIn, Index
        <3>3. CASE ~(txn[q].cur >= 0)
            <4>1. StandsIn(q) = txn[q].cur + Len(tmpl)
                BY <3>3 DEF StandsIn, Index
            <4>2. txn[q].cur + Len(tmpl) \in 0 .. Len(tmpl) - 1
                BY <1>2, <3>1, <3>3
            <4> QED
                BY <3>1, <4>1, <4>2
        <3> QED
            BY <3>2, <3>3
    <2>3. ASSUME AtSomeStep(q) PROVE Step(q) \in TemplateSteps
        <3>1. Step(q) = tmpl[StandsIn(q) + 1]
            BY DEF Step, StepAt, Steps, StandsIn
        <3> QED
            BY <2>1, <2>2, <2>3, <3>1
    <2> QED
        BY <2>1, <2>2, <2>3
<1>8. CASE Condition(q)
    <2>1. Step(q) \in TemplateSteps /\ Step(q).kind = "condition" /\ UNCHANGED acts
        BY <1>7, <1>8 DEF Condition, AtStep
    <2>2. ASSUME NEW n \in Step(q).else, ~Holds(q, Step(q).expr), Goto(q, n)
          PROVE  \E t : Goes(q, t)
        <3>1. CASE Step(q).else \subseteq Int
            BY <1>5, <2>1, <2>2, <3>1
        <3> QED
            BY <2>1, <3>1 DEF TemplateSteps
    <2>3. CASE Goto(q, txn[q].cur + 1)
        BY <1>1, <1>2, <1>5, <2>1, <2>3
    <2>4. CASE /\ txn' = [txn EXCEPT ![q].status = "complete", ![q].phase = "finished"]
               /\ UNCHANGED jumps
        BY <1>1, <1>3, <2>1, <2>4
    <2> QED
        BY <1>1, <1>8, <2>2, <2>3, <2>4 DEF Condition
<1>9. ASSUME NEW failed \in BOOLEAN, Act(q, failed) PROVE \E t : Goes(q, t)
    <2> DEFINE t == [txn[q] EXCEPT !.cur = txn[q].cur + 1, !.failed = failed]
    <2>1. t \in Working
        <3> DEFINE moved == [txn[q] EXCEPT !.cur = txn[q].cur + 1]
        <3>1. moved \in Working
            BY <1>2 DEF Working
        <3> HIDE DEF moved
        <3>2. [moved EXCEPT !.failed = failed] \in Working
            BY <1>9, <3>1, Zenon DEF Working
        <3> QED
            BY <3>2 DEF moved
    <2>2. /\ t.status = "running" /\ t.phase = "advancing" /\ ~t.asks
          /\ t.decision = txn[q].decision /\ t.run = txn[q].run /\ t.row = txn[q].row
          /\ t.cur = txn[q].cur + 1 /\ t.approval = txn[q].approval
        BY <1>1, <1>2 DEF Working
    <2>3. txn' = [txn EXCEPT ![q] = t] /\ MovesOn(q, txn[q].cur + 1)
        BY <1>9 DEF Act
    <2>4. acts' = acts \/ Touches(q)
        <3>1. \/ acts' = acts
              \/ acts' = [acts EXCEPT ![txn[q].run] = Append(@, StandsIn(q))]
            BY <1>9 DEF Act, StandsIn, Steps
        <3>2. StandsIn(q) \in Nat
            BY <1>7, <1>9 DEF Act, AtStep
        <3> QED
            BY <3>1, <3>2 DEF Touches
    <2> HIDE DEF t
    <2>5. SameWork(q, t)
        BY <2>1, <2>2, <2>3 DEF SameWork
    <2> QED
        BY <1>2, <2>2, <2>3, <2>4, <2>5, GoesBy
<1>10. CASE EndOfSteps(q)
    BY <1>1, <1>3, <1>10 DEF EndOfSteps
<1>11. CASE Notify(q)
    BY <1>1, <1>2, <1>5, <1>11 DEF Notify
<1> QED
    BY <1>1, <1>4, <1>6, <1>8, <1>9, <1>10, <1>11

(* The steps of _advance.                                                    *)
LEMMA AdvanceStep ==
    ASSUME IInv, Apart', NEW q \in Requests,
           \/ EndOfSteps(q) \/ Ask(q) \/ Notify(q) \/ Condition(q) \/ Stall(q)
           \/ \E failed \in BOOLEAN : Act(q, failed)
    PROVE  IInv'
<1>1. PICK t : Goes(q, t)
    BY AdvanceGoes
<1>2. txn[q].phase = "advancing" /\ UNCHANGED <<runs, approvals, rollbacks>>
    BY AdvanceGoes
<1> QED
    BY <1>1, <1>2, WorkGoesOn

(* A new run: nobody knows it, so none of its files has been touched.        *)
LEMMA StartStep ==
    ASSUME IInv, Apart', NEW q \in Requests, NEW r \in Runs, NEW tmpl \in Templates,
           StartRun(q, r, tmpl)
    PROVE  IInv'
<1> DEFINE row == [status |-> "running", tmpl |-> tmpl, cur |-> 0]
           t == [phase |-> "advancing", run |-> r, row |-> row, cur |-> 0, status |-> "running",
                 failed |-> FALSE, asks |-> FALSE, approval |-> 0, decision |-> "none"]
<1>1. /\ txn' = [txn EXCEPT ![q] = t] /\ UNCHANGED <<runs, approvals, acts, jumps, rollbacks>>
      /\ txn[q].phase = "idle" /\ runs[r].status = "none" /\ acts[r] = <<>>
    BY DEF StartRun, Load, Known
<1>2. t \in Working
    BY DEF Working, RunRow
<1>3. txn'[q] = t /\ \A p \in Requests : p # q => txn'[p] = txn[p]
    BY <1>1 DEF IInv, TypeOK
<1>4. Starting(q)'
    BY <1>1, <1>3 DEF Starting
<1>5. TxnsAreTrue' /\ txn' \in [Requests -> ({NoTxn} \cup Reading \cup Working)']
    BY <1>1, <1>2, <1>4, OneTxnMoves
<1>6. TypeOK'
    BY <1>1, <1>5 DEF IInv, TypeOK, RunRow, ApprovalRow
<1>7. ActsAreSpent'
    <2>1. \A i \in Nat : Times(acts[r], i) = 0
        BY <1>1, NothingSpent
    <2>2. Spent(r, 0)
        <3>1. rollbacks \in Nat /\ jumps[r] \in Nat
            BY WorkflowAssumption DEF IInv, TypeOK
        <3> QED
            BY <2>1, <3>1 DEF Spent
    <2>3. ASSUME NEW p \in Requests, Works(p)' PROVE Spent(txn[p].run, StandsIn(p))'
        <3>1. CASE p = q
            <4>1. StandsIn(q)' = 0 /\ txn'[q].run = r
                BY <1>3 DEF StandsIn, Index
            <4> QED
                BY <1>1, <2>2, <3>1, <4>1 DEF Spent
        <3>2. CASE p # q
            BY <1>1, <1>3, <2>3, <3>2 DEF IInv, ActsAreSpent, Works, Spent, StandsIn
        <3> QED
            BY <3>1, <3>2
    <2>4. ASSUME NEW x \in Runs PROVE Spent(x, LeftAt(x))' \/ \E p \in Requests : Works(p)' /\ txn'[p].run = x
        <3>1. CASE Spent(x, LeftAt(x))
            BY <1>1, <3>1 DEF Spent, LeftAt
        <3>2. CASE \E p \in Requests : Works(p) /\ txn[p].run = x
            BY <1>1, <1>3, <3>2 DEF Works
        <3> QED
            BY <3>1, <3>2 DEF IInv, ActsAreSpent
    <2> QED
        BY <2>3, <2>4 DEF ActsAreSpent
<1> QED
    BY <1>1, <1>5, <1>6, <1>7, RowsStay DEF IInv

(* A pending approval is read; an expired one is let go.                     *)
LEMMA ReadStep ==
    ASSUME IInv, Apart', NEW q \in Requests,
           \/ \E a \in DOMAIN approvals, d \in {"approved", "rejected"} : ReadApproval(q, a, d)
           \/ RefuseExpired(q)
    PROVE  IInv'
<1>1. /\ UNCHANGED <<runs, approvals, acts, jumps, rollbacks>>
      /\ txn[q].phase \in {"idle", "expired"}
    BY DEF ReadApproval, RefuseExpired
<1>2. PICK t \in {NoTxn} \cup Reading :
          /\ txn' = [txn EXCEPT ![q] = t]
          /\ t.phase = "read" => approvals[t.approval].status = "pending"
          /\ t.phase \notin {"advancing", "finished"}
    <2>1. CASE RefuseExpired(q)
        <3>1. NoTxn.phase = "idle"
            BY DEF NoTxn
        <3>2. txn' = [txn EXCEPT ![q] = NoTxn]
            BY <2>1 DEF RefuseExpired
        <3> QED
            BY <3>1, <3>2, Zenon
    <2>2. ASSUME NEW a \in DOMAIN approvals, NEW d \in {"approved", "rejected"}, ReadApproval(q, a, d)
          PROVE  \E t \in {NoTxn} \cup Reading :
                    /\ txn' = [txn EXCEPT ![q] = t]
                    /\ t.phase = "read" => approvals[t.approval].status = "pending"
                    /\ t.phase \notin {"advancing", "finished"}
        <3> DEFINE t == [phase |-> IF approvals[a].expired THEN "expired" ELSE "read",
                         approval |-> a, decision |-> d]
        <3>1. t \in Reading
            BY DEF Reading
        <3>2. txn' = [txn EXCEPT ![q] = t] /\ approvals[t.approval].status = "pending"
            BY <2>2 DEF ReadApproval
        <3>3. t.phase \notin {"advancing", "finished"}
            OBVIOUS
        <3> QED
            BY <3>1, <3>2, <3>3
    <2> QED
        BY <2>1, <2>2
<1>3. txn'[q] = t /\ \A p \in Requests : p # q => txn'[p] = txn[p]
    BY <1>2 DEF IInv, TypeOK
<1>4. TxnsAreTrue' /\ txn' \in [Requests -> ({NoTxn} \cup Reading \cup Working)']
    BY <1>1, <1>2, OneTxnMoves
<1>5. TypeOK'
    BY <1>1, <1>4 DEF IInv, TypeOK, RunRow, ApprovalRow
<1>6. \A p \in Requests : (Works(p)' <=> Works(p)) /\ (Works(p) => txn'[p] = txn[p])
    BY <1>1, <1>2, <1>3 DEF Works
<1>7. ActsAreSpent'
    <2>2. ASSUME NEW p \in Requests, Works(p)' PROVE Spent(txn[p].run, StandsIn(p))'
        <3>1. Spent(txn[p].run, StandsIn(p)) /\ txn'[p] = txn[p]
            BY <1>6, <2>2 DEF IInv, ActsAreSpent
        <3> QED
            BY <1>1, <3>1 DEF Spent, StandsIn
    <2>3. ASSUME NEW x \in Runs
          PROVE  Spent(x, LeftAt(x))' \/ \E p \in Requests : Works(p)' /\ txn'[p].run = x
        <3>1. CASE Spent(x, LeftAt(x))
            BY <1>1, <3>1 DEF Spent, LeftAt
        <3>2. CASE \E p \in Requests : Works(p) /\ txn[p].run = x
            BY <1>6, <3>2
        <3> QED
            BY <3>1, <3>2 DEF IInv, ActsAreSpent
    <2> QED
        BY <2>2, <2>3 DEF ActsAreSpent
<1> QED
    BY <1>1, <1>4, <1>5, <1>7, RowsStay DEF IInv

(* The decision is made on the run as it is, past its gate only if approved. *)
LEMMA WriteDecisionStep ==
    ASSUME IInv, Apart', NEW q \in Requests, WriteDecision(q)
    PROVE  IInv'
<1> DEFINE a == txn[q].approval
           d == txn[q].decision
           r == approvals[a].run
           t == IF d = "rejected"
                THEN [phase |-> "finished", run |-> r, row |-> runs[r], cur |-> runs[r].cur,
                      status |-> "rejected", failed |-> FALSE, asks |-> FALSE,
                      approval |-> a, decision |-> d]
                ELSE [phase |-> "advancing", run |-> r, row |-> runs[r], cur |-> runs[r].cur + 1,
                      status |-> runs[r].status, failed |-> FALSE, asks |-> FALSE,
                      approval |-> a, decision |-> d]
<1>1. /\ txn[q].phase = "read" /\ UNCHANGED <<runs, approvals, acts, rollbacks>>
      /\ txn' = [txn EXCEPT ![q] = t]
      /\ IF d = "rejected" THEN UNCHANGED jumps
         ELSE Moves(r, runs[r].tmpl, runs[r].cur, runs[r].cur + 1)
    BY DEF WriteDecision, Load
<1>2. /\ a \in DOMAIN approvals /\ d \in {"approved", "rejected"}
      /\ approvals[a] \in ApprovalRow /\ approvals[a].status = "pending"
    BY <1>1, PhaseTells DEF IInv, TypeOK, TxnsAreTrue, Reading
<1>3. /\ r \in Runs /\ runs[r] \in RunRow /\ runs[r].status = "running" /\ runs[r].cur \in Int
      /\ runs[r].tmpl \in Templates
    <2>1. r \in Runs /\ runs[r] \in RunRow
        BY <1>2 DEF ApprovalRow, IInv, TypeOK
    <2>2. runs[r].status = "running"
        BY <1>2 DEF IInv, GateHeld
    <2> QED
        BY <2>1, <2>2 DEF RunRow, IInv, UnseenIsNew
<1>4. t \in Working
    BY <1>2, <1>3 DEF Working
<1>5. /\ t.run = r /\ t.row = runs[r] /\ t.approval = a /\ t.decision = d /\ t.cur \in Int
      /\ t.phase \in {"advancing", "finished"}
      /\ t.cur = IF d = "rejected" THEN runs[r].cur ELSE runs[r].cur + 1
      /\ t.phase = "advancing" => t.status = "running" /\ ~t.asks /\ t.decision # "rejected"
      /\ t.phase = "finished" => Outcome(t)
    <2>1. CASE d = "rejected"
        <3>1. /\ t.run = r /\ t.row = runs[r] /\ t.approval = a /\ t.decision = d
              /\ t.cur = runs[r].cur /\ t.status = "rejected" /\ ~t.asks
              /\ t.phase = "finished"
            BY <2>1
        <3>2. Outcome(t)
            BY <2>1, <3>1 DEF Outcome
        <3> HIDE DEF t
        <3> QED
            BY <1>3, <2>1, <3>1, <3>2
    <2>2. CASE d = "approved"
        <3>1. /\ t.run = r /\ t.row = runs[r] /\ t.approval = a /\ t.decision = d
              /\ t.cur = runs[r].cur + 1 /\ t.status = runs[r].status /\ ~t.asks
              /\ t.phase = "advancing"
            BY <2>2
        <3> QED
            BY <1>3, <2>2, <3>1
    <2> QED
        BY <1>2, <2>1, <2>2
<1> HIDE DEF t
<1>6. txn'[q] = t /\ \A p \in Requests : p # q => txn'[p] = txn[p]
    BY <1>1 DEF IInv, TypeOK
<1>7. Deciding(q)'
    BY <1>1, <1>2, <1>5, <1>6 DEF Deciding
<1>8. TxnsAreTrue' /\ txn' \in [Requests -> ({NoTxn} \cup Reading \cup Working)']
    <2>1. t.row.tmpl \in Templates /\ t.phase # "read"
        BY <1>3, <1>5
    <2> QED
        BY <1>1, <1>4, <1>5, <1>7, <2>1, OneTxnMoves
<1>9. /\ jumps' \in [Runs -> 0 .. MaxJumps]
      /\ \A x \in Runs : x # r => jumps'[x] = jumps[x]
      /\ \/ jumps'[r] = jumps[r] /\ LeftAt(r) <= Index(runs[r].tmpl, t.cur)
         \/ jumps'[r] = jumps[r] + 1
    <2>1. jumps \in [Runs -> 0 .. MaxJumps] /\ MaxJumps \in Nat
        BY WorkflowAssumption DEF IInv, TypeOK
    <2>2. LeftAt(r) \in Int /\ Index(runs[r].tmpl, t.cur) \in Int
        BY <1>3, <1>5, IndexType DEF LeftAt
    <2>3. CASE d = "rejected"
        BY <1>1, <1>5, <2>1, <2>2, <2>3 DEF LeftAt
    <2>4. CASE d = "approved"
        <3>1. IF Index(runs[r].tmpl, t.cur) > LeftAt(r) THEN UNCHANGED jumps
              ELSE jumps[r] < MaxJumps /\ jumps' = [jumps EXCEPT ![r] = @ + 1]
            BY <1>1, <1>5, <2>4 DEF Moves, LeftAt
        <3>2. CASE Index(runs[r].tmpl, t.cur) > LeftAt(r)
            BY <2>1, <2>2, <3>1, <3>2
        <3>3. CASE ~(Index(runs[r].tmpl, t.cur) > LeftAt(r))
            <4>1. jumps[r] < MaxJumps /\ jumps' = [jumps EXCEPT ![r] = jumps[r] + 1]
                BY <3>1, <3>3
            <4>2. jumps[r] + 1 \in 0 .. MaxJumps
                BY <1>3, <2>1, <4>1
            <4> QED
                BY <1>3, <2>1, <4>1, <4>2
        <3> QED
            BY <3>2, <3>3
    <2> QED
        BY <1>2, <2>3, <2>4
<1>10. TypeOK'
    BY <1>1, <1>8, <1>9 DEF IInv, TypeOK, RunRow, ApprovalRow
<1>11. ASSUME NEW p \in Requests, Works(p) PROVE txn[p].run \in Runs /\ txn[p].run # r
    <2>1. p # q /\ Busy(p) /\ Busy(q) /\ RunOf(q) = r /\ RunOf(p) = txn[p].run
        BY <1>1, <1>11 DEF Works, Busy, RunOf
    <2>2. txn[p].run \in Runs
        BY <1>11, PhaseTells DEF IInv, Working
    <2> QED
        BY <2>1, <2>2 DEF IInv, Apart
<1>12. ActsAreSpent'
    <2>1. Spent(txn[q].run, StandsIn(q))'
        <3>1. Spent(r, LeftAt(r))
            BY <1>3, <1>11 DEF IInv, ActsAreSpent
        <3>2. LeftAt(r) \in Int /\ Index(runs[r].tmpl, t.cur) \in Int
            BY <1>3, <1>5, IndexType DEF LeftAt
        <3> DEFINE more == Index(runs[r].tmpl, t.cur)
        <3> HIDE DEF more
        <3>3. \A i \in Nat : Times(acts'[r], i) <= rollbacks' + jumps'[r] + (IF i < more THEN 1 ELSE 0)
            BY <1>1, <1>3, <1>9, <3>1, <3>2, SpentGrows DEF IInv, more
        <3>4. txn'[q].run = r /\ StandsIn(q)' = more
            BY <1>5, <1>6 DEF StandsIn, more
        <3> QED
            BY <3>3, <3>4 DEF Spent
    <2>3. ASSUME NEW p \in Requests, Works(p)' PROVE Spent(txn[p].run, StandsIn(p))'
        <3>1. CASE p = q
            BY <2>1, <3>1
        <3>2. CASE p # q
            <4>1. Works(p) /\ txn'[p] = txn[p]
                BY <1>6, <2>3, <3>2 DEF Works
            <4>2. Spent(txn[p].run, StandsIn(p)) /\ jumps'[txn[p].run] = jumps[txn[p].run]
                BY <1>9, <1>11, <4>1 DEF IInv, ActsAreSpent
            <4> QED
                BY <1>1, <4>1, <4>2 DEF Spent, StandsIn
        <3> QED
            BY <3>1, <3>2
    <2>4. ASSUME NEW x \in Runs
          PROVE  Spent(x, LeftAt(x))' \/ \E p \in Requests : Works(p)' /\ txn'[p].run = x
        <3>1. CASE x = r
            BY <1>5, <1>6, <3>1 DEF Works
        <3>2. CASE x # r /\ Spent(x, LeftAt(x))
            BY <1>1, <1>9, <3>2 DEF Spent, LeftAt
        <3>3. CASE \E p \in Requests : Works(p) /\ txn[p].run = x
            BY <1>1, <1>6, <3>3 DEF Works
        <3> QED
            BY <3>1, <3>2, <3>3 DEF IInv, ActsAreSpent
    <2> QED
        BY <2>3, <2>4 DEF ActsAreSpent
<1> QED
    BY <1>1, <1>8, <1>10, <1>12, RowsStay DEF IInv
----------------------------------------------------------------------------
(* The end of a transaction *)

(* The decided approval changes its status, and a new one may be appended.   *)
LEMMA CommittedApprovals ==
    ASSUME IInv, NEW q \in Requests, Commit(q)
    PROVE  /\ approvals' \in Seq(ApprovalRow)
           /\ \A b \in DOMAIN approvals :
                 /\ b \in DOMAIN approvals'
                 /\ approvals'[b].run = approvals[b].run /\ approvals'[b].step = approvals[b].step
                 /\ b # txn[q].approval => approvals'[b].status = approvals[b].status
                 /\ b = txn[q].approval => approvals'[b].status = txn[q].decision
           /\ Len(approvals) + 1 \notin DOMAIN approvals
           /\ \A b \in DOMAIN approvals' \ DOMAIN approvals :
                 /\ txn[q].asks /\ b = Len(approvals) + 1
                 /\ approvals'[b].run = txn[q].run /\ approvals'[b].step = txn[q].cur
                 /\ approvals'[b].status = "pending"
           /\ txn[q].asks =>
                 /\ Len(approvals) + 1 \in DOMAIN approvals'
                 /\ approvals'[Len(approvals) + 1].run = txn[q].run
                 /\ approvals'[Len(approvals) + 1].status = "pending"
<1> DEFINE t == txn[q]
           new == [run |-> t.run, step |-> t.cur, status |-> "pending", expired |-> FALSE]
           decided == IF t.approval = 0 THEN approvals
                      ELSE [approvals EXCEPT ![t.approval].status = t.decision]
<1>1. /\ approvals \in Seq(ApprovalRow) /\ DOMAIN approvals = 1 .. Len(approvals)
      /\ Len(approvals) \in Nat
    BY DEF IInv, TypeOK
<1>2. approvals' = IF t.asks THEN Append(decided, new) ELSE decided
    BY DEF Commit
<1>3. /\ t \in Working /\ t.run \in Runs /\ t.asks \in BOOLEAN /\ t.cur \in Int
      /\ \/ t.approval = 0
         \/ t.approval \in DOMAIN approvals /\ t.decision \in {"approved", "rejected"}
    <2>1. Works(q) /\ t \in Working
        BY PhaseTells DEF IInv, Works, Commit
    <2> QED
        BY <2>1 DEF IInv, TxnsAreTrue, Starting, Deciding, Working
<1>4. /\ decided \in Seq(ApprovalRow) /\ Len(decided) = Len(approvals)
      /\ \A b \in DOMAIN approvals :
            /\ decided[b].run = approvals[b].run /\ decided[b].step = approvals[b].step
            /\ b # t.approval => decided[b].status = approvals[b].status
            /\ b = t.approval => decided[b].status = t.decision
    <2>1. CASE t.approval = 0
        BY <1>1, <2>1
    <2>2. CASE t.approval \in DOMAIN approvals /\ t.decision \in {"approved", "rejected"}
        <3> DEFINE row == [approvals[t.approval] EXCEPT !.status = t.decision]
        <3>1. /\ row \in ApprovalRow
              /\ row.run = approvals[t.approval].run /\ row.step = approvals[t.approval].step
              /\ row.status = t.decision
            <4>1. approvals[t.approval] \in ApprovalRow
                BY <1>1, <2>2
            <4>2. row \in ApprovalRow
                BY <2>2, <4>1, Zenon DEF ApprovalRow
            <4>3. /\ row.run = approvals[t.approval].run /\ row.step = approvals[t.approval].step
                  /\ row.status = t.decision
                BY <4>1 DEF ApprovalRow
            <4> QED
                BY <4>2, <4>3
        <3>2. decided = [approvals EXCEPT ![t.approval] = row]
            BY <1>1, <2>2
        <3> HIDE DEF row
        <3> QED
            BY SMTT(30), <1>1, <2>2, <3>1, <3>2
    <2> QED
        BY <1>3, <2>1, <2>2
<1> HIDE DEF decided
<1>5. CASE ~t.asks
    BY <1>1, <1>2, <1>4, <1>5
<1>6. CASE t.asks
    <2>1. new \in ApprovalRow /\ new.run = t.run /\ new.step = t.cur /\ new.status = "pending"
        BY <1>3, <1>6 DEF ApprovalRow
    <2> HIDE DEF new
    <2>2. approvals' \in Seq(ApprovalRow) /\ DOMAIN approvals' = 1 .. Len(approvals) + 1
        BY <1>1, <1>2, <1>4, <1>6, <2>1
    <2>3. /\ \A b \in DOMAIN approvals : approvals'[b] = decided[b]
          /\ approvals'[Len(approvals) + 1] = new
        BY <1>1, <1>2, <1>4, <1>6, <2>1
    <2> QED
        BY SMTT(30), <1>1, <1>4, <1>6, <2>1, <2>2, <2>3
<1> QED
    BY <1>5, <1>6

(* The run is left as the transaction had it, whichever columns are written. *)
LEMMA CommittedRun ==
    ASSUME IInv, NEW q \in Requests, Commit(q)
    PROVE  runs' = [runs EXCEPT ![txn[q].run] =
                      [status |-> txn[q].status, cur |-> txn[q].cur, tmpl |-> txn[q].row.tmpl]]
<1> DEFINE t == txn[q]
<1>1. Works(q) /\ t \in Working /\ t.run \in Runs
    BY PhaseTells DEF IInv, Works, Commit, Working
<1>2. CASE Starting(q)
    BY <1>1, <1>2 DEF Starting, Commit, IInv, TypeOK
<1>3. CASE Deciding(q)
    <2>1. runs[t.run].status # "none" /\ t.row = runs[t.run]
        BY <1>3 DEF Deciding, IInv, UnseenIsNew
    <2> QED
        BY <1>1, <2>1 DEF Commit, IInv, TypeOK
<1> QED
    BY <1>1, <1>2, <1>3 DEF IInv, TxnsAreTrue
(* A commit leaves the run at its gate, if it has one, and closes the        *)
(* approval it decided.                                                      *)
LEMMA CommitStep ==
    ASSUME IInv, Apart', NEW q \in Requests, Commit(q)
    PROVE  IInv'
<1> DEFINE t == txn[q]
           a == t.approval
           r == t.run
           left == [status |-> t.status, cur |-> t.cur, tmpl |-> t.row.tmpl]
           appended == Len(approvals) + 1
<1>1. /\ Works(q) /\ t \in Working /\ r \in Runs /\ t.cur \in Int /\ t.phase = "finished"
      /\ t.status \in {"running", "complete", "rejected"} /\ t.row.tmpl \in Templates
      /\ Outcome(t)
      /\ Starting(q) \/ Deciding(q)
    <2>1. Works(q) /\ t \in Working /\ t.phase = "finished"
        BY PhaseTells DEF IInv, Works, Commit
    <2> QED
        BY <2>1 DEF IInv, TxnsAreTrue, Working
<1>2. /\ txn'[q].phase = "idle" /\ \A p \in Requests : p # q => txn'[p] = txn[p]
      /\ UNCHANGED <<acts, jumps, rollbacks>> /\ txn' = [txn EXCEPT ![q] = NoTxn]
    BY DEF Commit, IInv, TypeOK, NoTxn
<1>3. /\ runs' = [runs EXCEPT ![r] = left]
      /\ runs'[r].status = t.status /\ runs'[r].cur = t.cur /\ runs'[r].tmpl = t.row.tmpl
      /\ \A x \in Runs : x # r => runs'[x] = runs[x]
    <2>1. runs' = [runs EXCEPT ![r] = left]
        BY CommittedRun
    <2>2. runs'[r] = left
        BY <1>1, <2>1 DEF IInv, TypeOK
    <2>3. \A x \in Runs : x # r => runs'[x] = runs[x]
        BY <2>1 DEF IInv, TypeOK
    <2> QED
        BY <2>1, <2>2, <2>3
<1>4. /\ approvals' \in Seq(ApprovalRow)
      /\ \A b \in DOMAIN approvals :
            /\ b \in DOMAIN approvals'
            /\ approvals'[b].run = approvals[b].run /\ approvals'[b].step = approvals[b].step
            /\ b # a => approvals'[b].status = approvals[b].status
            /\ b = a => approvals'[b].status = t.decision
      /\ \A b \in DOMAIN approvals' \ DOMAIN approvals :
            /\ t.asks /\ b = appended
            /\ approvals'[b].run = r /\ approvals'[b].step = t.cur
            /\ approvals'[b].status = "pending"
      /\ t.asks =>
            /\ appended \in DOMAIN approvals'
            /\ approvals'[appended].run = r /\ approvals'[appended].status = "pending"
    BY CommittedApprovals
<1>5. \A b \in DOMAIN approvals : approvals[b].run \in Runs
    <2>1. \A b \in DOMAIN approvals : approvals[b] \in ApprovalRow
        BY DEF IInv, TypeOK
    <2> QED
        BY <2>1 DEF ApprovalRow
<1>6. /\ a \in DOMAIN approvals =>
            /\ approvals[a].run = r /\ approvals[a].status = "pending" /\ t.row = runs[r]
            /\ t.decision \in {"approved", "rejected"}
      /\ \A b \in DOMAIN approvals : approvals[b].run = r /\ Open(b) => b = a
    <2>1. CASE Starting(q)
        <3>1. a = 0 /\ 0 \notin DOMAIN approvals
            BY <2>1 DEF Starting, IInv, TypeOK
        <3>2. \A b \in DOMAIN approvals : approvals[b].run # r
            BY <2>1 DEF Starting, IInv, UnseenIsNew
        <3> QED
            BY <3>1, <3>2
    <2>2. CASE Deciding(q)
        BY <2>2 DEF Deciding, IInv, OneGate, Open
    <2> QED
        BY <1>1, <2>1, <2>2
<1>7. ASSUME NEW b \in DOMAIN approvals', Open(b)', approvals'[b].run = r
      PROVE  \/ /\ b = a /\ b \in DOMAIN approvals
                /\ t.decision = "rejected" /\ approvals'[b].status = "rejected"
                /\ approvals'[b].step = approvals[b].step
             \/ /\ b = appended /\ t.asks
                /\ approvals'[b].status = "pending" /\ approvals'[b].step = t.cur
    <2>1. CASE b \in DOMAIN approvals
        <3>1. b = a
            BY <1>4, <1>6, <1>7, <2>1 DEF Open
        <3> QED
            BY <1>4, <1>6, <1>7, <2>1, <3>1 DEF Open
    <2>2. CASE b \notin DOMAIN approvals
        BY <1>4, <2>2
    <2> QED
        BY <2>1, <2>2
<1>8. ASSUME NEW b \in DOMAIN approvals', approvals'[b].run # r
      PROVE  /\ b \in DOMAIN approvals /\ approvals'[b].run \in Runs
             /\ approvals'[b].run = approvals[b].run /\ approvals'[b].step = approvals[b].step
             /\ approvals'[b].status = approvals[b].status
             /\ runs'[approvals'[b].run] = runs[approvals[b].run]
    <2>1. b \in DOMAIN approvals
        BY <1>4, <1>8
    <2>2. b # a /\ approvals'[b].run = approvals[b].run
        BY <1>4, <1>6, <1>8, <2>1
    <2> QED
        BY <1>3, <1>4, <1>5, <1>8, <2>1, <2>2
<1>9. GateHeld'
    <2> SUFFICES ASSUME NEW b \in DOMAIN approvals', approvals'[b].status # "approved"
                 PROVE  /\ runs'[approvals'[b].run].cur = approvals'[b].step
                        /\ runs'[approvals'[b].run].status
                             = IF approvals'[b].status = "pending" THEN "running" ELSE "rejected"
        BY DEF GateHeld
    <2>1. CASE approvals'[b].run # r
        BY <1>8, <2>1 DEF IInv, GateHeld
    <2>2. CASE approvals'[b].run = r
        <3>1. CASE /\ b = a /\ b \in DOMAIN approvals /\ t.decision = "rejected"
                   /\ approvals'[b].status = "rejected" /\ approvals'[b].step = approvals[b].step
            <4>1. t.status = "rejected" /\ t.cur = t.row.cur
                BY <1>1, <3>1 DEF Outcome
            <4>2. runs[r].cur = approvals[a].step /\ t.row = runs[r]
                BY <1>6, <3>1 DEF IInv, GateHeld
            <4> QED
                BY <1>3, <2>2, <3>1, <4>1, <4>2
        <3>2. CASE /\ b = appended /\ t.asks
                   /\ approvals'[b].status = "pending" /\ approvals'[b].step = t.cur
            <4>1. t.status = "running"
                BY <1>1, <3>2 DEF Outcome
            <4> QED
                BY <1>3, <2>2, <3>2, <4>1
        <3> QED
            BY <1>7, <2>2, <3>1, <3>2 DEF Open
    <2> QED
        BY <2>1, <2>2
<1>10. OneGate'
    <2> SUFFICES ASSUME NEW b \in DOMAIN approvals', NEW c \in DOMAIN approvals',
                        Open(b)', Open(c)', approvals'[b].run = approvals'[c].run
                 PROVE  b = c
        BY DEF OneGate
    <2>1. CASE approvals'[b].run # r
        BY <1>8, <2>1 DEF IInv, OneGate, Open
    <2>2. CASE approvals'[b].run = r
        <3>1. t.asks => t.decision # "rejected"
            BY <1>1 DEF Outcome
        <3> QED
            BY <1>7, <2>2, <3>1
    <2> QED
        BY <2>1, <2>2
<1>11. SomeGate'
    <2> SUFFICES ASSUME NEW x \in Runs, runs'[x].status = "running"
                 PROVE  \/ StepAt(runs'[x].tmpl, runs'[x].cur).kind \notin Kinds
                        \/ \E b \in DOMAIN approvals' : /\ approvals'[b].run = x
                                                        /\ approvals'[b].status = "pending"
        BY DEF SomeGate
    <2>1. CASE x = r
        <3>1. t.asks \/ StepAt(t.row.tmpl, t.cur).kind \notin Kinds
            BY <1>1, <1>3, <2>1 DEF Outcome
        <3> QED
            BY <1>3, <1>4, <2>1, <3>1
    <2>2. CASE x # r
        <3>1. runs'[x] = runs[x]
            BY <1>3, <2>2
        <3>2. CASE \E b \in DOMAIN approvals : approvals[b].run = x /\ approvals[b].status = "pending"
            BY <1>4, <1>6, <2>2, <3>2
        <3> QED
            BY <3>1, <3>2 DEF IInv, SomeGate
    <2> QED
        BY <2>1, <2>2
<1>12. UnseenIsNew'
    <2>1. ASSUME NEW x \in Runs
          PROVE  /\ runs'[x].status = "none" => runs'[x].cur = 0
                 /\ runs'[x].status # "none" => runs'[x].tmpl \in Templates
        BY <1>1, <1>3 DEF IInv, UnseenIsNew
    <2>2. ASSUME NEW b \in DOMAIN approvals' PROVE runs'[approvals'[b].run].status # "none"
        <3>1. CASE approvals'[b].run = r
            BY <1>1, <1>3, <3>1
        <3>2. CASE approvals'[b].run # r
            BY <1>8, <3>2 DEF IInv, UnseenIsNew
        <3> QED
            BY <3>1, <3>2
    <2> QED
        BY <2>1, <2>2 DEF UnseenIsNew
<1>13. ASSUME NEW p \in Requests, p # q, Works(p)
       PROVE  txn[p].run # r /\ txn[p].run \in Runs
    BY <1>1, <1>13, OthersElsewhere, PhaseTells DEF IInv, Working, Works, Busy
<1>14. TxnsAreTrue'
    <2> SUFFICES ASSUME NEW p \in Requests
                 PROVE  /\ txn'[p].phase = "read" => approvals'[txn'[p].approval].status = "pending"
                        /\ Works(p)' => /\ Starting(p)' \/ Deciding(p)'
                                        /\ txn'[p].row.tmpl \in Templates
                        /\ txn'[p].phase = "advancing" =>
                              txn'[p].status = "running" /\ ~txn'[p].asks
                              /\ txn'[p].decision # "rejected"
                        /\ txn'[p].phase = "finished" => Outcome(txn'[p])
        BY DEF TxnsAreTrue
    <2>1. CASE p = q
        BY <1>2, <2>1 DEF Works
    <2>2. CASE p # q
        <3>1. txn'[p] = txn[p]
            BY <1>2, <2>2
        <3>2. ASSUME txn[p].phase = "read" PROVE approvals'[txn[p].approval].status = "pending"
            <4>1. txn[p].approval \in DOMAIN approvals
                BY <3>2, PhaseTells DEF IInv, Reading
            <4>2. approvals[txn[p].approval].run # r
                BY <1>1, <2>2, <3>2, OthersElsewhere DEF IInv, Busy
            <4>3. txn[p].approval # a
                BY <1>6, <4>1, <4>2
            <4> QED
                BY <1>4, <3>2, <4>1, <4>3 DEF IInv, TxnsAreTrue
        <3>3. ASSUME Works(p), Starting(p) PROVE Starting(p)'
            BY <1>3, <1>13, <2>2, <3>1, <3>3 DEF Starting
        <3>4. ASSUME Works(p), Deciding(p) PROVE Deciding(p)'
            <4>1. txn[p].approval \in DOMAIN approvals /\ txn[p].approval # a
                BY <1>6, <1>13, <2>2, <3>4 DEF Deciding
            <4> QED
                BY <1>3, <1>4, <1>13, <2>2, <3>1, <3>4, <4>1 DEF Deciding
        <3> QED
            BY <3>1, <3>2, <3>3, <3>4 DEF IInv, TxnsAreTrue, Works
    <2> QED
        BY <2>1, <2>2
<1>15. TypeOK'
    <2>1. left \in RunRow
        BY <1>1 DEF RunRow
    <2>2. runs' \in [Runs -> RunRow]
        BY <1>3, <2>1 DEF IInv, TypeOK
    <2>3. DOMAIN approvals \subseteq DOMAIN approvals'
        BY <1>4
    <2>4. Reading \subseteq Reading' /\ Working \subseteq Working'
        BY <2>3 DEF Reading, Working, RunRow
    <2>5. txn' \in [Requests -> ({NoTxn} \cup Reading \cup Working)']
        BY <1>2, <2>4 DEF IInv, TypeOK, NoTxn
    <2> QED
        BY <1>2, <1>4, <2>2, <2>5 DEF IInv, TypeOK, RunRow, ApprovalRow
<1>16. ActsAreSpent'
    <2>1. ASSUME NEW p \in Requests, Works(p)' PROVE Spent(txn[p].run, StandsIn(p))'
        <3>1. p # q /\ txn'[p] = txn[p] /\ Works(p)
            BY <1>2, <2>1 DEF Works
        <3> QED
            BY <1>2, <3>1 DEF IInv, ActsAreSpent, Spent, StandsIn
    <2>2. ASSUME NEW x \in Runs
          PROVE  Spent(x, LeftAt(x))' \/ \E p \in Requests : Works(p)' /\ txn'[p].run = x
        <3>1. CASE x = r
            <4>1. Spent(r, StandsIn(q))
                BY <1>1 DEF IInv, ActsAreSpent
            <4>2. LeftAt(x)' = StandsIn(q)
                BY <1>3, <3>1 DEF StandsIn, LeftAt
            <4> QED
                BY <1>2, <3>1, <4>1, <4>2 DEF Spent
        <3>2. CASE x # r /\ Spent(x, LeftAt(x))
            BY <1>2, <1>3, <3>2 DEF Spent, LeftAt
        <3>3. CASE x # r /\ \E p \in Requests : Works(p) /\ txn[p].run = x
            BY <1>2, <3>3 DEF Works
        <3> QED
            BY <3>1, <3>2, <3>3 DEF IInv, ActsAreSpent
    <2> QED
        BY <2>1, <2>2 DEF ActsAreSpent
<1> QED
    BY <1>9, <1>10, <1>11, <1>12, <1>14, <1>15, <1>16 DEF IInv
(* What was touched by the transaction is accounted for by its rollback.     *)
LEMMA RollbackStep ==
    ASSUME IInv, Apart', NEW q \in Requests, Rollback(q)
    PROVE  IInv'
<1>1. /\ txn' = [txn EXCEPT ![q] = NoTxn] /\ UNCHANGED <<runs, approvals, acts, jumps>>
      /\ rollbacks' = rollbacks + 1 /\ rollbacks \in Nat /\ rollbacks' \in 0 .. MaxRollbacks
    BY WorkflowAssumption DEF Rollback, IInv, TypeOK
<1>2. NoTxn.phase = "idle" /\ NoTxn \in {NoTxn} \cup Reading \cup Working
    BY DEF NoTxn
<1>3. /\ txn'[q] = NoTxn /\ ~Works(q)'
      /\ \A p \in Requests : p # q => txn'[p] = txn[p]
    BY <1>1, <1>2 DEF IInv, TypeOK, Works
<1>4. TxnsAreTrue' /\ txn' \in [Requests -> ({NoTxn} \cup Reading \cup Working)']
    BY <1>1, <1>2, OneTxnMoves
<1>5. TypeOK'
    BY <1>1, <1>4 DEF IInv, TypeOK, RunRow, ApprovalRow
<1>6. ASSUME NEW x \in Runs, NEW bound, NEW more, Spent(x, bound)
      PROVE  \A i \in Nat : Times(acts'[x], i) <= rollbacks' + jumps'[x] + (IF i < more THEN 1 ELSE 0)
    <2> SUFFICES ASSUME NEW i \in Nat
                 PROVE  Times(acts[x], i) <= rollbacks + 1 + jumps[x] + (IF i < more THEN 1 ELSE 0)
        BY <1>1
    <2>1. Times(acts[x], i) \in Nat /\ jumps[x] \in Nat
        <3>1. acts[x] \in Seq(Nat) /\ jumps[x] \in 0 .. MaxJumps /\ MaxJumps \in Nat
            BY WorkflowAssumption DEF IInv, TypeOK
        <3>2. Times(acts[x], i) \in Nat
            BY <3>1, TimesType
        <3> QED
            BY <3>1, <3>2
    <2>2. Times(acts[x], i) <= rollbacks + jumps[x] + 1
        <3>1. Times(acts[x], i) <= rollbacks + jumps[x] + (IF i < bound THEN 1 ELSE 0)
            BY <1>6 DEF Spent
        <3>2. CASE i < bound
            BY <1>1, <2>1, <3>1, <3>2
        <3>3. CASE ~(i < bound)
            BY <1>1, <2>1, <3>1, <3>3
        <3> QED
            BY <3>2, <3>3
    <2>3. CASE i < more
        BY <1>1, <2>1, <2>2, <2>3
    <2>4. CASE ~(i < more)
        BY <1>1, <2>1, <2>2, <2>4
    <2> QED
        BY <2>3, <2>4
<1>10. ActsAreSpent'
    <2>1. ASSUME NEW p \in Requests, Works(p)' PROVE Spent(txn[p].run, StandsIn(p))'
        <3>1. p # q /\ txn'[p] = txn[p] /\ Works(p)
            BY <1>3, <2>1 DEF Works
        <3>2. Spent(txn[p].run, StandsIn(p)) /\ txn[p].run \in Runs
            BY <3>1, PhaseTells DEF IInv, ActsAreSpent, Working
        <3> QED
            BY <1>6, <3>1, <3>2 DEF Spent, StandsIn
    <2>2. ASSUME NEW x \in Runs PROVE Spent(x, LeftAt(x))'
        <3>1. PICK bound : Spent(x, bound)
            BY DEF IInv, ActsAreSpent
        <3> QED
            BY <1>6, <3>1 DEF Spent
    <2> QED
        BY <2>1, <2>2 DEF ActsAreSpent
<1> QED
    BY <1>1, <1>4, <1>5, <1>10, RowsStay DEF IInv

(* An approval that has expired is as pending as it was.                     *)
LEMMA ExpireStep ==
    ASSUME IInv, Apart', NEW a \in DOMAIN approvals, Expire(a)
    PROVE  IInv'
<1> DEFINE row == [approvals[a] EXCEPT !.expired = TRUE]
<1>1. UNCHANGED <<runs, txn, acts, jumps, rollbacks>> /\ approvals' = [approvals EXCEPT ![a] = row]
    BY DEF Expire
<1>2. approvals \in Seq(ApprovalRow) /\ approvals[a] \in ApprovalRow
    BY DEF IInv, TypeOK
<1>3. /\ row.run = approvals[a].run /\ row.step = approvals[a].step
      /\ row.status = approvals[a].status
    BY <1>2 DEF ApprovalRow
<1>4. row \in ApprovalRow
    BY <1>2, Zenon DEF ApprovalRow
<1> HIDE DEF row
<1>5. /\ approvals' \in Seq(ApprovalRow) /\ DOMAIN approvals' = DOMAIN approvals
      /\ \A b \in DOMAIN approvals : /\ approvals'[b].run = approvals[b].run
                                     /\ approvals'[b].step = approvals[b].step
                                     /\ approvals'[b].status = approvals[b].status
    BY <1>1, <1>2, <1>3, <1>4
<1>6. TypeOK'
    <2>1. Reading' = Reading /\ Working' = Working
        BY <1>5 DEF Reading, Working, RunRow
    <2> QED
        BY <1>1, <1>5, <2>1 DEF IInv, TypeOK, RunRow, ApprovalRow, NoTxn
<1>7. UnseenIsNew'
    BY <1>1, <1>5 DEF IInv, UnseenIsNew
<1>8. GateHeld'
    BY <1>1, <1>5 DEF IInv, GateHeld
<1>9. OneGate'
    BY <1>5 DEF IInv, OneGate, Open
<1>10. SomeGate'
    BY <1>1, <1>5 DEF IInv, SomeGate
<1>11. TxnsAreTrue'
    <2> SUFFICES ASSUME NEW p \in Requests
                 PROVE  /\ txn'[p].phase = "read" => approvals'[txn'[p].approval].status = "pending"
                        /\ Works(p)' => /\ Starting(p)' \/ Deciding(p)'
                                        /\ txn'[p].row.tmpl \in Templates
                        /\ txn'[p].phase = "advancing" =>
                              txn'[p].status = "running" /\ ~txn'[p].asks
                              /\ txn'[p].decision # "rejected"
                        /\ txn'[p].phase = "finished" => Outcome(txn'[p])
        BY DEF TxnsAreTrue
    <2>1. txn[p].phase = "read" => txn[p].approval \in DOMAIN approvals
        BY PhaseTells DEF IInv, Reading
    <2>2. Works(p) => Starting(p)' \/ Deciding(p)'
        BY <1>1, <1>5 DEF IInv, TxnsAreTrue, Starting, Deciding
    <2> QED
        BY <1>1, <1>5, <2>1, <2>2 DEF IInv, TxnsAreTrue, Works
<1>12. ActsAreSpent'
    BY <1>1 DEF IInv, ActsAreSpent, Spent, Works, StandsIn, LeftAt
<1> QED
    BY <1>6, <1>7, <1>8, <1>9, <1>10, <1>11, <1>12 DEF IInv

----------------------------------------------------------------------------
(* The theorems *)

(* Every step keeps what is known.                                           *)
LEMMA StepIInv == IInv /\ [Next /\ Apart']_vars => IInv'
<1> SUFFICES ASSUME IInv, [Next /\ Apart']_vars PROVE IInv'
    OBVIOUS
<1>1. CASE UNCHANGED vars
    <2>1. UNCHANGED <<runs, approvals, txn, acts, jumps, rollbacks>>
        BY <1>1 DEF vars
    <2>2. TypeOK'
        BY <2>1 DEF IInv, TypeOK, RunRow, ApprovalRow, Reading, Working, NoTxn
    <2>3. Apart' /\ TxnsAreTrue'
        BY <2>1 DEF IInv, Apart, Busy, RunOf, TxnsAreTrue, Works, Starting, Deciding
    <2>4. ActsAreSpent'
        BY <2>1 DEF IInv, ActsAreSpent, Spent, Works, StandsIn, LeftAt
    <2> QED
        BY <2>1, <2>2, <2>3, <2>4, RowsStay DEF IInv
<1>2. CASE Next /\ Apart'
    <2>1. ASSUME NEW q \in Requests, NEW r \in Runs, NEW t \in Templates, StartRun(q, r, t)
          PROVE  IInv'
        BY <1>2, <2>1, StartStep
    <2>2. ASSUME NEW q \in Requests,
                 \/ \E a \in DOMAIN approvals, d \in {"approved", "rejected"} : ReadApproval(q, a, d)
                 \/ RefuseExpired(q)
          PROVE  IInv'
        BY <1>2, <2>2, ReadStep
    <2>3. ASSUME NEW q \in Requests, WriteDecision(q) PROVE IInv'
        BY <1>2, <2>3, WriteDecisionStep
    <2>4. ASSUME NEW q \in Requests,
                 \/ EndOfSteps(q) \/ Ask(q) \/ Notify(q) \/ Condition(q) \/ Stall(q)
                 \/ \E failed \in BOOLEAN : Act(q, failed)
          PROVE  IInv'
        BY <1>2, <2>4, AdvanceStep
    <2>5. ASSUME NEW q \in Requests, Commit(q) PROVE IInv'
        BY <1>2, <2>5, CommitStep
    <2>6. ASSUME NEW q \in Requests, Rollback(q) PROVE IInv'
        BY <1>2, <2>6, RollbackStep
    <2>7. ASSUME NEW a \in DOMAIN approvals, Expire(a) PROVE IInv'
        BY <1>2, <2>7, ExpireStep
    <2> QED
        BY <1>2, <2>1, <2>2, <2>3, <2>4, <2>5, <2>6, <2>7 DEF Next
<1> QED
    BY <1>1, <1>2

(* IInv holds in every state the requests can reach.                         *)
LEMMA Inductive == ApartSpec => []IInv
BY InitIInv, StepIInv, PTL DEF ApartSpec

(* Every variable has its type, and no row is ever committed as "expired".   *)
THEOREM TypeCorrect == ApartSpec => []TypeOK
<1>1. IInv => TypeOK
    BY DEF IInv
<1> QED
    BY <1>1, Inductive, PTL

(* "approval: wait for human approval before proceeding": while requests of  *)
(* one run do not overlap, no run goes past an approval step that is         *)
(* undecided or rejected, whatever fails, expires or is answered twice.      *)
THEOREM GatesHold == ApartSpec => []GateHeld
<1>1. IInv => GateHeld
    BY DEF IInv
<1> QED
    BY <1>1, Inductive, PTL

(* Every run that is shown running, and not at a step of an unknown kind,    *)
(* has exactly one of its approvals in the list of pending ones, wherever    *)
(* its template sends it.  Nobody can decide that one any more when it has   *)
(* expired.                                                                  *)
THEOREM RunningRunsHaveOneGate == ApartSpec => []RunningHasGate
<1>1. IInv => RunningHasGate
    <2> SUFFICES ASSUME IInv, NEW r \in Runs, GetRun(r).status = "running",
                        StepAt(runs[r].tmpl, runs[r].cur).kind \in Kinds
                 PROVE  \E a \in ListPendingApprovals :
                            GetRun(r).approvals \cap ListPendingApprovals = {a}
        BY DEF RunningHasGate
    <2>1. /\ runs[r].status = "running"
          /\ GetRun(r).approvals = {a \in DOMAIN approvals : approvals[a].run = r}
        BY DEF GetRun
    <2>2. PICK a \in DOMAIN approvals : approvals[a].run = r /\ approvals[a].status = "pending"
        BY <2>1 DEF IInv, SomeGate
    <2>3. \A b \in DOMAIN approvals :
              approvals[b].run = r /\ approvals[b].status = "pending" => b = a
        BY <2>2 DEF IInv, OneGate, Open
    <2> QED
        BY <2>1, <2>2, <2>3 DEF ListPendingApprovals
<1> QED
    BY <1>1, Inductive, PTL

(* "All destructive actions require an approval step": while requests of one *)
(* run do not overlap, the files of a run are touched only when each of its  *)
(* approvals is approved, or being approved by the request that touches      *)
(* them, whatever the template, and whatever fails.                          *)
THEOREM NothingIsTouchedBeforeApproval == ApartSpec => TouchedWhenApproved
<1>1. ASSUME IInv, [Next /\ Apart']_vars PROVE [\A r \in Runs : acts'[r] # acts[r] => NoneOpen(r)]_vars
    <2> SUFFICES ASSUME Next, NEW r \in Runs, acts'[r] # acts[r] PROVE NoneOpen(r)
        BY <1>1
    <2>1. PICK q \in Requests : \E failed \in BOOLEAN : Act(q, failed)
        BY DEF Next, StartRun, ReadApproval, RefuseExpired, WriteDecision, EndOfSteps, Ask, Notify,
               Condition, Stall, Commit, Rollback, Expire
    <2>2. /\ txn[q].phase = "advancing" /\ Works(q)
          /\ txn[q].run = r
        <3>1. txn[q].phase = "advancing"
            BY <2>1 DEF Act, AtStep, AtSomeStep
        <3>2. \/ acts' = acts
              \/ \E e : acts' = [acts EXCEPT ![txn[q].run] = e]
            BY <2>1 DEF Act
        <3>3. txn[q].run = r
            BY <1>1, <3>2 DEF IInv, TypeOK
        <3> QED
            BY <3>1, <3>3 DEF Works
    <2>3. txn[q].decision # "rejected" /\ (Starting(q) \/ Deciding(q))
        BY <1>1, <2>2 DEF IInv, TxnsAreTrue
    <2> SUFFICES ASSUME NEW a \in DOMAIN approvals, approvals[a].run = r, Open(a)
                 PROVE  BeingApproved(a)
        BY DEF NoneOpen, Open
    <2>4. Deciding(q)
        BY <1>1, <2>2, <2>3 DEF Starting, IInv, UnseenIsNew
    <2>5. txn[q].approval = a
        BY <1>1, <2>2, <2>4 DEF Deciding, IInv, OneGate, Open
    <2>6. txn[q].decision = "approved"
        BY <2>3, <2>4 DEF Deciding
    <2> QED
        BY <2>2, <2>5, <2>6 DEF BeingApproved
<1> QED
    BY <1>1, Inductive, PTL DEF ApartSpec, TouchedWhenApproved

(* An action touches the files of its run once, and once more for every      *)
(* transaction that was rolled back after it and every time its template     *)
(* sent the run back.                                                        *)
THEOREM ActionsAreTakenOnce == ApartSpec => []ActionOnce
<1>1. IInv => ActionOnce
    <2> SUFFICES ASSUME IInv, NEW r \in Runs, NEW n \in DOMAIN acts[r]
                 PROVE  Times(acts[r], acts[r][n]) <= 1 + rollbacks + jumps[r]
        BY DEF ActionOnce
    <2>1. acts[r] \in Seq(Nat) /\ acts[r][n] \in Nat /\ rollbacks \in Nat /\ jumps[r] \in Nat
        BY WorkflowAssumption DEF IInv, TypeOK
    <2>2. Times(acts[r], acts[r][n]) \in Nat
        BY <2>1, TimesType
    <2>3. PICK bound : Spent(r, bound)
        BY DEF IInv, ActsAreSpent
    <2>4. Times(acts[r], acts[r][n]) <= rollbacks + jumps[r] + (IF acts[r][n] < bound THEN 1 ELSE 0)
        BY <2>1, <2>3 DEF Spent
    <2>5. CASE acts[r][n] < bound
        BY <2>1, <2>2, <2>4, <2>5
    <2>6. CASE ~(acts[r][n] < bound)
        BY <2>1, <2>2, <2>4, <2>6
    <2> QED
        BY <2>5, <2>6
<1> QED
    BY <1>1, Inductive, PTL

----------------------------------------------------------------------------
(* The state machine *)

(* What is shown changes only by a commit.                                   *)
LEMMA ShownStays ==
    ASSUME TypeOK, UNCHANGED runs,
           /\ DOMAIN approvals' = DOMAIN approvals
           /\ \A a \in DOMAIN approvals : /\ approvals'[a].run = approvals[a].run
                                          /\ approvals'[a].step = approvals[a].step
                                          /\ approvals'[a].status = approvals[a].status
    PROVE  UNCHANGED Shown!vars
BY DEF Shown!vars, ShownRuns, ShownGates, ShownGate

(* How a commit shows what it adds: nothing, or one more gate.               *)
LEMMA GoesOnWhen ==
    ASSUME NEW r, NEW gates, NEW stop, NEW new,
           ShownRuns' = [ShownRuns EXCEPT ![r] = stop], ShownRuns'[r] = stop,
           stop \in [status : {"running", "complete"}, step : Int],
           \/ ShownGates' = gates
           \/ /\ stop.status = "running" /\ new \in DOMAIN ShownGates' \ DOMAIN gates
              /\ ShownGates' = [g \in DOMAIN gates \cup {new} |->
                                  IF g = new THEN Shown!Gate(r, stop.step, "pending") ELSE gates[g]]
    PROVE  Shown!GoesOn(r, gates)
BY DEF Shown!GoesOn, Shown!Asked

(* A commit is a step of the state machine.                                  *)
LEMMA CommitShown ==
    ASSUME IInv, NEW q \in Requests, Commit(q)
    PROVE  Shown!Next
<1> DEFINE t == txn[q]
           a == t.approval
           r == t.run
           left == [status |-> t.status, cur |-> t.cur, tmpl |-> t.row.tmpl]
           appended == Len(approvals) + 1
           stop == [status |-> t.status, step |-> t.cur]
           had == DOMAIN approvals
           has == DOMAIN approvals'
           asked == Shown!Gate(r, t.cur, "pending")
           decided == [b \in had |-> IF b = a THEN Shown!Gate(approvals[b].run, approvals[b].step, t.decision)
                                              ELSE ShownGate(b)]
<1>1. /\ Works(q) /\ t \in Working /\ r \in Runs /\ t.cur \in Int /\ Outcome(t)
      /\ t.asks \in BOOLEAN
      /\ Starting(q) \/ Deciding(q)
    <2>1. Works(q) /\ t \in Working /\ t.phase = "finished"
        BY PhaseTells DEF IInv, Works, Commit
    <2> QED
        BY <2>1 DEF IInv, TxnsAreTrue, Working
<1>2. runs' = [runs EXCEPT ![r] = left] /\ runs'[r] = left /\ \A x \in Runs : x # r => runs'[x] = runs[x]
    BY <1>1, CommittedRun DEF IInv, TypeOK
<1>3. /\ ShownRuns' = [ShownRuns EXCEPT ![r] = stop]
      /\ ShownRuns'[r] = stop
    <2>1. \A x \in Runs : ShownRuns'[x] = IF x = r THEN stop ELSE ShownRuns[x]
        BY <1>2 DEF ShownRuns
    <2> QED
        BY <1>1, <2>1 DEF ShownRuns
<1>4. /\ \A b \in had : b \in has /\ ShownGate(b)' = decided[b]
      /\ \A b \in has \ had : t.asks /\ b = appended /\ ShownGate(b)' = asked
      /\ t.asks => appended \in has \ had
    BY CommittedApprovals DEF Shown!Gate, ShownGate
<1>5. ShownGates' = IF t.asks THEN [b \in had \cup {appended} |-> IF b = appended THEN asked ELSE decided[b]]
                    ELSE decided
    <2>1. ShownGates' = [b \in has |-> ShownGate(b)']
        BY DEF ShownGates
    <2>2. DOMAIN decided = had
        OBVIOUS
    <2>3. decided = [b \in had |-> decided[b]]
        OBVIOUS
    <2> HIDE DEF had, has, asked, appended, decided
    <2>4. CASE t.asks
        <3>1. has = had \cup {appended} /\ appended \notin had
            BY <1>4, <2>4
        <3>2. \A b \in has : ShownGate(b)' = IF b = appended THEN asked ELSE decided[b]
            BY <1>4, <3>1
        <3> QED
            BY <2>1, <2>4, <3>1, <3>2
    <2>5. CASE ~t.asks
        <3>1. has = had
            BY <1>4, <2>5
        <3>2. [b \in had |-> ShownGate(b)'] = [b \in had |-> decided[b]]
            BY <1>4
        <3> QED
            BY <2>1, <2>3, <2>5, <3>1, <3>2
    <2> QED
        BY <2>4, <2>5
<1>6. ASSUME t.status \in {"running", "complete"}
      PROVE  Shown!GoesOn(r, decided)
    <2>1. /\ stop \in [status : {"running", "complete"}, step : Int]
          /\ stop.status = t.status /\ asked = Shown!Gate(r, stop.step, "pending")
        BY <1>1, <1>6
    <2>2. t.asks => t.status = "running"
        BY <1>1 DEF Outcome
    <2>3. DOMAIN decided = had
        OBVIOUS
    <2>4. CASE t.asks
        <3>1. appended \in DOMAIN ShownGates' \ DOMAIN decided
            BY <1>4, <2>3, <2>4 DEF ShownGates
        <3>2. ShownGates' = [b \in DOMAIN decided \cup {appended} |->
                               IF b = appended THEN Shown!Gate(r, stop.step, "pending") ELSE decided[b]]
            BY <1>5, <2>1, <2>3, <2>4
        <3>3. stop.status = "running"
            BY <2>1, <2>2, <2>4
        <3> HIDE DEF decided, asked, stop, appended, r
        <3> QED
            BY <1>3, <2>1, <3>1, <3>2, <3>3, GoesOnWhen
    <2>5. CASE ~t.asks
        <3>1. ShownGates' = decided
            BY <1>5, <2>5
        <3> HIDE DEF decided, asked, stop, r
        <3> QED
            BY <1>3, <2>1, <3>1, GoesOnWhen
    <2> QED
        BY <1>1, <2>4, <2>5
<1>7. CASE Starting(q)
    <2>1. a \notin had
        BY <1>7 DEF Starting, IInv, TypeOK
    <2>2. decided = ShownGates
        <3>1. \A b \in had : decided[b] = ShownGate(b)
            BY <2>1
        <3> QED
            BY <3>1 DEF ShownGates
    <2>3. t.status \in {"running", "complete"}
        BY <1>1, <1>7 DEF Starting, Outcome
    <2>4. ShownRuns[r].status = "none"
        BY <1>1, <1>7 DEF Starting, ShownRuns
    <2> QED
        BY <1>1, <1>6, <2>2, <2>3, <2>4 DEF Shown!Next, Shown!Start
<1>8. CASE Deciding(q)
    <2>1. /\ a \in had /\ approvals[a].run = r /\ approvals[a].status = "pending"
          /\ t.row = runs[r] /\ t.decision \in {"approved", "rejected"}
        BY <1>8 DEF Deciding
    <2>2. runs[r].cur = approvals[a].step /\ runs[r].status = "running"
        BY <2>1 DEF IInv, GateHeld
    <2>3. DOMAIN ShownGates = had /\ ShownGates[a] = Shown!Gate(r, approvals[a].step, "pending")
        BY <2>1 DEF ShownGates, ShownGate, Shown!Gate
    <2>4. decided = Shown!Decided(a, t.decision)
        <3>1. [ShownGates[a] EXCEPT !.decision = t.decision] = decided[a]
            BY <2>1, <2>3 DEF Shown!Gate
        <3>2. \A b \in had : b # a => decided[b] = ShownGates[b]
            BY DEF ShownGates
        <3>3. Shown!Decided(a, t.decision)
                 = [b \in had |-> IF b = a THEN [ShownGates[a] EXCEPT !.decision = t.decision]
                                  ELSE ShownGates[b]]
            BY <2>1, <2>3 DEF Shown!Decided, ShownGates
        <3>4. decided = [b \in had |-> decided[b]]
            OBVIOUS
        <3> HIDE DEF decided, had
        <3> QED
            BY <3>1, <3>2, <3>3, <3>4
    <2>5. Shown!StandsAt(r, a) /\ a \in DOMAIN ShownGates
        BY <1>1, <2>1, <2>2, <2>3 DEF Shown!StandsAt, ShownRuns
    <2>6. CASE t.decision = "rejected"
        <3>1. t.status = "rejected" /\ ~t.asks /\ t.cur = runs[r].cur
            BY <1>1, <2>1, <2>6 DEF Outcome
        <3>2. ShownRuns' = [ShownRuns EXCEPT ![r].status = "rejected"]
            <4>1. [ShownRuns[r] EXCEPT !.status = "rejected"] = stop
                BY <1>1, <3>1 DEF ShownRuns
            <4> HIDE DEF stop
            <4> QED
                BY <1>1, <1>3, <4>1 DEF ShownRuns
        <3>3. ShownGates' = Shown!Decided(a, "rejected")
            BY <1>5, <2>4, <2>6, <3>1
        <3> HIDE DEF a, r
        <3> QED
            BY <1>1, <2>5, <3>2, <3>3 DEF Shown!Next, Shown!Reject
    <2>7. CASE t.decision = "approved"
        <3>1. t.status \in {"running", "complete"}
            BY <1>1, <2>7 DEF Outcome
        <3>2. Shown!GoesOn(r, Shown!Decided(a, "approved"))
            BY <1>6, <2>4, <2>7, <3>1
        <3> HIDE DEF a, r
        <3> QED
            BY <1>1, <2>5, <3>2 DEF Shown!Next, Shown!Approve
    <2> QED
        BY <2>1, <2>6, <2>7
<1> QED
    BY <1>1, <1>7, <1>8

(* Every other step shows nothing.                                           *)
LEMMA StepShown ==
    ASSUME IInv, [Next /\ Apart']_vars
    PROVE  [Shown!Next]_(Shown!vars)
<1>1. CASE UNCHANGED <<runs, approvals>>
    BY <1>1 DEF Shown!vars, ShownRuns, ShownGates, ShownGate
<1>2. ASSUME NEW q \in Requests, Commit(q) PROVE Shown!Next
    BY <1>2, CommitShown
<1>3. ASSUME NEW a \in DOMAIN approvals, Expire(a) PROVE UNCHANGED Shown!vars
    <2>1. /\ DOMAIN approvals' = DOMAIN approvals /\ runs' = runs
          /\ \A b \in DOMAIN approvals : /\ approvals'[b].run = approvals[b].run
                                         /\ approvals'[b].step = approvals[b].step
                                         /\ approvals'[b].status = approvals[b].status
        BY <1>3 DEF Expire, IInv, TypeOK, ApprovalRow
    <2> QED
        BY <2>1, ShownStays DEF IInv
<1>4. ASSUME NEW q \in Requests,
             \/ EndOfSteps(q) \/ Ask(q) \/ Notify(q) \/ Condition(q) \/ Stall(q)
             \/ \E failed \in BOOLEAN : Act(q, failed)
      PROVE  UNCHANGED <<runs, approvals>>
    BY <1>4, AdvanceGoes
<1>5. ASSUME NEW q \in Requests, RefuseExpired(q) \/ WriteDecision(q) \/ Rollback(q)
      PROVE  UNCHANGED <<runs, approvals>>
    BY <1>5 DEF RefuseExpired, WriteDecision, Rollback
<1>6. ASSUME NEW q \in Requests, NEW r \in Runs, NEW t \in Templates, StartRun(q, r, t)
      PROVE  UNCHANGED <<runs, approvals>>
    BY <1>6 DEF StartRun
<1>7. ASSUME NEW q \in Requests, NEW a \in DOMAIN approvals, NEW d \in {"approved", "rejected"},
             ReadApproval(q, a, d)
      PROVE  UNCHANGED <<runs, approvals>>
    BY <1>7 DEF ReadApproval
<1> QED
    BY <1>1, <1>2, <1>3, <1>4, <1>5, <1>6, <1>7 DEF Next, vars

(* "running -> (approved/rejected at each step) -> complete/rejected": while *)
(* requests of one run do not overlap, what is committed of runs and their   *)
(* approvals is a behaviour of that state machine, for any templates, runs   *)
(* and requests and whatever fails or expires.                               *)
THEOREM ImplementsStateMachine == ApartSpec => StateMachine
<1>1. Init => Shown!Init
    BY DEF Init, Shown!Init, ShownRuns, ShownGates, ShownGate
<1> QED
    BY <1>1, StepShown, Inductive, PTL DEF ApartSpec, StateMachine, Shown!Spec

(* The state machine alone holds the gates: a run that goes on, from a state *)
(* in which it has no open gate, stands at the one that it asks for.         *)
LEMMA GoesOnHolds ==
    ASSUME NEW r \in Runs, NEW gates,
           DOMAIN ShownRuns = Runs,
           \A g \in DOMAIN gates : gates[g] \in Shown!GateRows,
           \A g \in DOMAIN gates : gates[g].run = r => gates[g].decision = "approved",
           \A g \in DOMAIN gates : gates[g].run # r =>
              /\ g \in DOMAIN ShownGates /\ gates[g] = ShownGates[g],
           Shown!Held, Shown!GoesOn(r, gates)
    PROVE  Shown!Held'
<1> DEFINE stop == ShownRuns'[r]
<1>1. /\ ShownRuns' = [ShownRuns EXCEPT ![r] = stop]
      /\ stop.status \in {"running", "complete"} /\ stop.step \in Int
      /\ \/ ShownGates' = gates
         \/ /\ stop.status = "running"
            /\ \E new \in DOMAIN ShownGates' \ DOMAIN gates :
                  ShownGates' = [g \in DOMAIN gates \cup {new} |->
                                   IF g = new THEN Shown!Gate(r, stop.step, "pending") ELSE gates[g]]
    BY DEF Shown!GoesOn, Shown!Asked
<1>2. \A x \in Runs : x # r => ShownRuns'[x] = ShownRuns[x]
    BY <1>1
<1> HIDE DEF stop
<1>3. \A g \in DOMAIN ShownGates' :
         \/ g \in DOMAIN gates /\ ShownGates'[g] = gates[g]
         \/ /\ g \notin DOMAIN gates /\ ShownGates'[g] = Shown!Gate(r, stop.step, "pending")
            /\ stop.status = "running"
            /\ \A h \in DOMAIN ShownGates' : h \in DOMAIN gates \/ h = g
    BY <1>1
<1>4. ASSUME NEW g \in DOMAIN ShownGates'
      PROVE  /\ ShownGates'[g] \in Shown!GateRows
             /\ ShownRuns'[ShownGates'[g].run].status # "none"
             /\ Shown!Open(g)' =>
                  /\ ShownRuns'[ShownGates'[g].run].step = ShownGates'[g].step
                  /\ ShownRuns'[ShownGates'[g].run].status
                       = IF ShownGates'[g].decision = "pending" THEN "running" ELSE "rejected"
    <2>1. CASE g \in DOMAIN gates /\ ShownGates'[g] = gates[g] /\ gates[g].run = r
        BY <1>1, <2>1 DEF Shown!Open, stop
    <2>2. CASE g \in DOMAIN gates /\ ShownGates'[g] = gates[g] /\ gates[g].run # r
        <3>1. /\ g \in DOMAIN ShownGates /\ gates[g] = ShownGates[g] /\ gates[g] \in Shown!GateRows
              /\ ShownRuns[gates[g].run].status # "none"
              /\ gates[g].decision # "approved" =>
                   /\ ShownRuns[gates[g].run].step = gates[g].step
                   /\ ShownRuns[gates[g].run].status
                        = IF gates[g].decision = "pending" THEN "running" ELSE "rejected"
            BY <2>2 DEF Shown!Held, Shown!Open
        <3>2. gates[g].run \in Runs /\ ShownRuns'[gates[g].run] = ShownRuns[gates[g].run]
            BY <1>2, <2>2, <3>1 DEF Shown!GateRows
        <3> QED
            BY <2>2, <3>1, <3>2 DEF Shown!Open
    <2>3. CASE /\ ShownGates'[g] = Shown!Gate(r, stop.step, "pending")
               /\ stop.status = "running"
        <3>1. /\ ShownGates'[g].run = r /\ ShownGates'[g].step = stop.step
              /\ ShownGates'[g].decision = "pending" /\ ShownGates'[g] \in Shown!GateRows
            BY <1>1, <2>3 DEF Shown!Gate, Shown!GateRows
        <3> QED
            BY <2>3, <3>1 DEF stop
    <2> QED
        BY <1>3, <2>1, <2>2, <2>3
<1>5. ASSUME NEW g \in DOMAIN ShownGates', NEW h \in DOMAIN ShownGates',
             Shown!Open(g)', Shown!Open(h)', ShownGates'[g].run = ShownGates'[h].run
      PROVE  g = h
    <2>1. CASE ShownGates'[g].run = r
        <3>1. g \notin DOMAIN gates /\ h \notin DOMAIN gates
            BY <1>3, <1>5, <2>1 DEF Shown!Open
        <3> QED
            BY <1>3, <3>1
    <2>2. CASE ShownGates'[g].run # r
        <3>1. /\ g \in DOMAIN ShownGates /\ ShownGates'[g] = ShownGates[g]
              /\ h \in DOMAIN ShownGates /\ ShownGates'[h] = ShownGates[h]
            BY <1>3, <1>5, <2>2 DEF Shown!Gate
        <3> QED
            BY <1>5, <3>1 DEF Shown!Held, Shown!Open
    <2> QED
        BY <2>1, <2>2
<1> QED
    BY <1>4, <1>5 DEF Shown!Held, Shown!GateRows

(* Every step of the state machine holds them.                               *)
LEMMA MachineHolds ==
    ASSUME Shown!Held, [Shown!Next]_(Shown!vars)
    PROVE  Shown!Held'
<1>0. DOMAIN ShownRuns = Runs
    BY DEF ShownRuns
<1>1. CASE UNCHANGED Shown!vars
    BY <1>1 DEF Shown!vars, Shown!Held, Shown!GateRows, Shown!Open
<1>2. ASSUME NEW r \in Runs, Shown!Start(r) PROVE Shown!Held'
    <2>1. ShownRuns[r].status = "none" /\ Shown!GoesOn(r, ShownGates)
        BY <1>2 DEF Shown!Start
    <2>2. \A g \in DOMAIN ShownGates : ShownGates[g] \in Shown!GateRows /\ ShownGates[g].run # r
        BY <2>1 DEF Shown!Held
    <2> QED
        BY <1>0, <2>1, <2>2, GoesOnHolds
<1>3. ASSUME NEW r \in Runs, NEW g \in DOMAIN ShownGates, Shown!StandsAt(r, g),
             NEW d \in {"approved", "rejected"}
      PROVE  /\ DOMAIN Shown!Decided(g, d) = DOMAIN ShownGates
             /\ Shown!Decided(g, d)[g] = Shown!Gate(r, ShownRuns[r].step, d)
             /\ \A h \in DOMAIN ShownGates :
                  /\ Shown!Decided(g, d)[h] \in Shown!GateRows
                  /\ h # g => Shown!Decided(g, d)[h] = ShownGates[h]
                  /\ h # g /\ ShownGates[h].run = r => ShownGates[h].decision = "approved"
    <2>1. /\ ShownRuns[r].status = "running" /\ ShownGates[g] = Shown!Gate(r, ShownRuns[r].step, "pending")
          /\ ShownGates[g] \in Shown!GateRows
        BY <1>3 DEF Shown!StandsAt, Shown!Held
    <2> DEFINE row == [ShownGates[g] EXCEPT !.decision = d]
    <2>2. row = Shown!Gate(r, ShownRuns[r].step, d) /\ row \in Shown!GateRows
        BY <2>1 DEF Shown!Gate, Shown!GateRows
    <2>3. Shown!Decided(g, d) = [h \in DOMAIN ShownGates |-> IF h = g THEN row ELSE ShownGates[h]]
        BY DEF Shown!Decided, ShownGates
    <2> HIDE DEF row
    <2>4. ASSUME NEW h \in DOMAIN ShownGates, h # g, ShownGates[h].run = r
          PROVE  ShownGates[h].decision = "approved"
        <3>1. Shown!Open(g) /\ ShownGates[g].run = r
            BY <2>1 DEF Shown!Open, Shown!Gate
        <3> QED
            BY <2>4, <3>1 DEF Shown!Held, Shown!Open
    <2>5. \A h \in DOMAIN ShownGates : ShownGates[h] \in Shown!GateRows
        BY DEF Shown!Held
    <2> QED
        BY <2>2, <2>3, <2>4, <2>5
<1>4. ASSUME NEW r \in Runs, NEW g \in DOMAIN ShownGates, Shown!Approve(r, g) PROVE Shown!Held'
    <2> DEFINE gates == Shown!Decided(g, "approved")
    <2>1. Shown!StandsAt(r, g) /\ Shown!GoesOn(r, gates)
        BY <1>4 DEF Shown!Approve
    <2>2. /\ DOMAIN gates = DOMAIN ShownGates
          /\ gates[g].run = r /\ gates[g].decision = "approved"
          /\ \A h \in DOMAIN gates :
               /\ gates[h] \in Shown!GateRows
               /\ h # g => gates[h] = ShownGates[h]
               /\ h # g /\ ShownGates[h].run = r => ShownGates[h].decision = "approved"
        <3>1. gates[g] = Shown!Gate(r, ShownRuns[r].step, "approved")
            BY <1>3, <2>1
        <3>2. gates[g].run = r /\ gates[g].decision = "approved"
            BY <3>1 DEF Shown!Gate
        <3> QED
            BY <1>3, <2>1, <3>2
    <2> HIDE DEF gates
    <2> QED
        BY <1>0, <2>1, <2>2, GoesOnHolds
<1>5. ASSUME NEW r \in Runs, NEW g \in DOMAIN ShownGates, Shown!Reject(r, g) PROVE Shown!Held'
    <2> DEFINE gates == Shown!Decided(g, "rejected")
    <2>1. /\ Shown!StandsAt(r, g) /\ ShownGates' = gates
          /\ ShownRuns' = [ShownRuns EXCEPT ![r].status = "rejected"]
        BY <1>5 DEF Shown!Reject
    <2>2. /\ DOMAIN gates = DOMAIN ShownGates
          /\ gates[g].run = r /\ gates[g].decision = "rejected" /\ gates[g].step = ShownRuns[r].step
          /\ \A h \in DOMAIN gates :
               /\ gates[h] \in Shown!GateRows
               /\ h # g => gates[h] = ShownGates[h]
               /\ h # g /\ ShownGates[h].run = r => ShownGates[h].decision = "approved"
        <3>1. gates[g] = Shown!Gate(r, ShownRuns[r].step, "rejected")
            BY <1>3, <2>1
        <3>2. /\ gates[g].run = r /\ gates[g].decision = "rejected"
              /\ gates[g].step = ShownRuns[r].step
            BY <3>1 DEF Shown!Gate
        <3> QED
            BY <1>3, <2>1, <3>2
    <2>3. /\ \A x \in Runs : x # r => ShownRuns'[x] = ShownRuns[x]
          /\ ShownRuns'[r].status = "rejected" /\ ShownRuns'[r].step = ShownRuns[r].step
        BY <2>1 DEF ShownRuns
    <2> HIDE DEF gates
    <2>4. ASSUME NEW h \in DOMAIN ShownGates'
          PROVE  /\ ShownGates'[h] \in Shown!GateRows
                 /\ ShownRuns'[ShownGates'[h].run].status # "none"
                 /\ Shown!Open(h)' =>
                      /\ ShownRuns'[ShownGates'[h].run].step = ShownGates'[h].step
                      /\ ShownRuns'[ShownGates'[h].run].status
                           = IF ShownGates'[h].decision = "pending" THEN "running" ELSE "rejected"
        <3>1. CASE h = g
            BY <2>1, <2>2, <2>3, <2>4, <3>1
        <3>2. CASE h # g /\ gates[h].run = r
            BY <2>1, <2>2, <2>3, <2>4, <3>2 DEF Shown!Open
        <3>3. CASE h # g /\ gates[h].run # r
            <4>1. gates[h] = ShownGates[h] /\ h \in DOMAIN ShownGates /\ gates[h].run \in Runs
                BY <2>1, <2>2, <2>4, <3>3 DEF Shown!GateRows
            <4>2. ShownRuns'[gates[h].run] = ShownRuns[gates[h].run]
                BY <2>3, <3>3, <4>1
            <4> QED
                BY <2>1, <2>2, <2>4, <4>1, <4>2 DEF Shown!Open, Shown!Held
        <3> QED
            BY <3>1, <3>2, <3>3
    <2>5. ASSUME NEW h \in DOMAIN ShownGates', NEW i \in DOMAIN ShownGates',
                 Shown!Open(h)', Shown!Open(i)', ShownGates'[h].run = ShownGates'[i].run
          PROVE  h = i
        <3>1. CASE ShownGates'[h].run = r
            BY <2>1, <2>2, <2>5, <3>1 DEF Shown!Open
        <3>2. CASE ShownGates'[h].run # r
            BY <2>1, <2>2, <2>5, <3>2 DEF Shown!Open, Shown!Held
        <3> QED
            BY <3>1, <3>2
    <2> QED
        BY <2>4, <2>5 DEF Shown!Held, Shown!GateRows
<1> QED
    BY <1>1, <1>2, <1>4, <1>5 DEF Shown!Next

(* Whatever implements the state machine lets no run past a gate that is     *)
(* undecided or rejected: it is a stronger promise than GateHeld.            *)
THEOREM StateMachineHoldsGates == StateMachine => []GateHeld
<1>1. Shown!Init => Shown!Held
    BY DEF Shown!Init, Shown!Held
<1>2. Shown!Held => GateHeld
    <2> SUFFICES ASSUME Shown!Held, NEW a \in DOMAIN approvals, approvals[a].status # "approved"
                 PROVE  LET r == approvals[a].run
                        IN  /\ runs[r].cur = approvals[a].step
                            /\ runs[r].status = IF approvals[a].status = "pending" THEN "running"
                                                ELSE "rejected"
        BY DEF GateHeld
    <2> DEFINE g == ShownGates[a]
    <2>1. /\ a \in DOMAIN ShownGates /\ g.run = approvals[a].run /\ g.step = approvals[a].step
          /\ g.decision = approvals[a].status
        BY DEF ShownGates, ShownGate
    <2>2. g.run \in Runs
        BY <2>1 DEF Shown!Held, Shown!GateRows
    <2>3. ShownRuns[g.run].status = runs[g.run].status /\ ShownRuns[g.run].step = runs[g.run].cur
        BY <2>2 DEF ShownRuns
    <2> QED
        BY <2>1, <2>3 DEF Shown!Held, Shown!Open
<1> QED
    BY <1>1, <1>2, MachineHolds, PTL DEF StateMachine, Shown!Spec
=============================================================================
