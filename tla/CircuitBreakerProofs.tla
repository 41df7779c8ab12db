------------------------ MODULE CircuitBreakerProofs ------------------------
(* Theorems about CircuitBreaker for any number of callers and any limits   *)
(* that BreakerAssumption allows.                                           *)
EXTENDS CircuitBreaker, TLAPS

(* A trial begins only after the whole wait.                                *)
TrialAfterWait == state = "half_open" => openFor = ResetTimeout

(* A query from before the last opening is older than the opening.          *)
StaleIsOlder == \A c \in Calls : Running(c) /\ stale[c] => age[c] > openFor

(* The inductive invariant.  The last two parts say together that no stale  *)
(* query is left when a trial begins: it would be older than its timeout.   *)
IInv == TypeOK /\ ClosedWithFewFailures /\ TrialAfterWait /\ StaleIsOlder

----------------------------------------------------------------------------
(* Lemmas *)

(* Ages grow by one up to their limit.                                      *)
LEMMA OlderType ==
    ASSUME NEW limit \in Nat, NEW n \in 0 .. limit
    PROVE  /\ Older(n, limit) \in 0 .. limit
           /\ Older(n, limit) <= n + 1
           /\ n <= Older(n, limit)
BY DEF Older

(* A breaker without failures has no recent ones.                           *)
LEMMA NoneRecent == NoFailures \in [1 .. Threshold -> 0 .. Window] /\ ~Recent(NoFailures)
<1>1. Threshold \in Nat /\ Window \in Nat /\ Threshold >= 1
    BY BreakerAssumption
<1>2. 1 \in 1 .. Threshold /\ NoFailures[1] = Window
    BY <1>1 DEF NoFailures
<1>3. ~(NoFailures[1] < Window)
    BY <1>1, <1>2
<1>4. NoFailures \in [1 .. Threshold -> 0 .. Window]
    BY <1>1 DEF NoFailures
<1> QED
    BY <1>2, <1>3, <1>4 DEF Recent

(* A failure that is no longer recent never becomes so again.               *)
LEMMA StaysPast ==
    ASSUME TypeOK, ~Recent(failures),
           failures' = [i \in 1 .. Threshold |-> Older(failures[i], Window)]
    PROVE  ~Recent(failures')
<1>1. Window \in Nat
    BY BreakerAssumption
<1>2. PICK i \in 1 .. Threshold : ~(failures[i] < Window)
    BY DEF Recent
<1>3. failures[i] \in 0 .. Window
    BY DEF TypeOK
<1>4. failures'[i] = Window
    BY <1>1, <1>2, <1>3 DEF Older
<1> QED
    BY <1>1, <1>4 DEF Recent

(* The breaker starts closed, and nothing has failed.                       *)
LEMMA InitIInv == Init => IInv
<1> SUFFICES ASSUME Init PROVE IInv
    OBVIOUS
<1>1. /\ ResetTimeout \in Nat /\ QueryTimeout \in Nat
      /\ 0 \in 0 .. ResetTimeout /\ 0 \in 0 .. QueryTimeout
    BY BreakerAssumption
<1>2. TypeOK
    BY <1>1, NoneRecent DEF Init, TypeOK
<1>3. ClosedWithFewFailures
    BY NoneRecent DEF Init, ClosedWithFewFailures
<1>4. TrialAfterWait /\ StaleIsOlder
    BY DEF Init, TrialAfterWait, StaleIsOlder, Running
<1> QED
    BY <1>2, <1>3, <1>4 DEF IInv

----------------------------------------------------------------------------
(* Every action preserves the invariant *)

(* Refused calls, cancelled calls and the recovery of the database leave    *)
(* the breaker alone.                                                       *)
LEMMA QuietStep ==
    ASSUME IInv, NEW c \in Calls, Refuse(c) \/ Cancel(c) \/ Recover
    PROVE  IInv'
<1>1. /\ UNCHANGED <<state, openFor, failures, age, stale>>
      /\ phase' \in [Calls -> {"idle", "refused", "unsure", "sound"}]
      /\ healthy' \in BOOLEAN
      /\ \A d \in Calls : Running(d)' => Running(d)
    BY DEF IInv, TypeOK, Refuse, Cancel, Recover, Running
<1>2. TypeOK'
    BY <1>1 DEF IInv, TypeOK
<1>3. ClosedWithFewFailures'
    BY <1>1 DEF IInv, ClosedWithFewFailures, Recent
<1>4. TrialAfterWait' /\ StaleIsOlder'
    BY <1>1 DEF IInv, TrialAfterWait, StaleIsOlder
<1> QED
    BY <1>2, <1>3, <1>4 DEF IInv

(* A call let through starts a query that is not stale.                     *)
LEMMA AdmitStep ==
    ASSUME IInv, NEW c \in Calls, Admit(c)
    PROVE  IInv'
<1>1. QueryTimeout \in Nat /\ ResetTimeout \in Nat /\ 0 \in 0 .. QueryTimeout
    BY BreakerAssumption
<1>2. TypeOK'
    BY <1>1 DEF IInv, TypeOK, Admit
<1>3. ClosedWithFewFailures'
    BY DEF IInv, ClosedWithFewFailures, Admit, Recent
<1>4. TrialAfterWait'
    BY <1>1 DEF IInv, TypeOK, TrialAfterWait, Admit, Refusing
<1>5. ASSUME NEW d \in Calls, Running(d)', stale'[d] PROVE age'[d] > openFor'
    <2>1. d # c /\ stale[d] /\ Running(d) /\ age'[d] = age[d]
        BY <1>5 DEF IInv, TypeOK, Admit, Running
    <2> QED
        BY <2>1 DEF IInv, StaleIsOlder, Admit
<1> QED
    BY <1>2, <1>3, <1>4, <1>5 DEF IInv, StaleIsOlder

(* A success on trial closes the breaker with no failures left.             *)
LEMMA SucceedStep ==
    ASSUME IInv, NEW c \in Calls, Succeed(c)
    PROVE  IInv'
<1>1. TypeOK'
    BY NoneRecent DEF IInv, TypeOK, Succeed
<1>2. ClosedWithFewFailures'
    <2>1. CASE state = "half_open"
        BY <2>1, NoneRecent DEF Succeed, ClosedWithFewFailures, Recent
    <2>2. CASE state # "half_open"
        BY <2>2 DEF IInv, Succeed, ClosedWithFewFailures, Recent
    <2> QED
        BY <2>1, <2>2
<1>3. TrialAfterWait'
    BY DEF IInv, TrialAfterWait, Succeed
<1>4. StaleIsOlder'
    BY DEF IInv, TypeOK, StaleIsOlder, Succeed, Running
<1> QED
    BY <1>1, <1>2, <1>3, <1>4 DEF IInv

(* A failure opens the breaker or leaves it with too few of them.           *)
LEMMA FailStep ==
    ASSUME IInv, NEW c \in Calls, Fail(c)
    PROVE  IInv'
<1>1. Threshold \in Nat /\ Window \in Nat /\ ResetTimeout \in Nat /\ QueryTimeout \in Nat
    BY BreakerAssumption
<1>2. failures' \in [1 .. Threshold -> 0 .. Window]
    BY <1>1 DEF IInv, TypeOK, Fail
<1>3. phase' \in [Calls -> {"idle", "refused", "unsure", "sound"}]
    BY DEF IInv, TypeOK, Fail
<1>4. ASSUME NEW d \in Calls, Running(d)' PROVE Running(d)
    BY <1>4 DEF IInv, TypeOK, Fail, Running
<1>5. CASE state = "half_open" \/ Recent(failures')
    <2>1. /\ state' = "open" /\ openFor' = 0
          /\ stale' = [d \in Calls |-> Running(d) /\ (stale[d] \/ age[d] > 0)]
          /\ age' = age /\ healthy' = healthy
        BY <1>5 DEF Fail
    <2>2. stale' \in [Calls -> BOOLEAN]
        <3>1. \A d \in Calls : stale[d] \in BOOLEAN
            BY DEF IInv, TypeOK
        <3>2. \A d \in Calls : (Running(d) /\ (stale[d] \/ age[d] > 0)) \in BOOLEAN
            BY <3>1 DEF Running
        <3> QED
            BY <2>1, <3>2, Zenon
    <2>3. TypeOK'
        BY <1>1, <1>2, <1>3, <2>1, <2>2 DEF IInv, TypeOK
    <2>4. ASSUME NEW d \in Calls, Running(d)', stale'[d] PROVE age'[d] > openFor'
        <3>1. age[d] \in Nat /\ openFor \in Nat
            BY <1>1 DEF IInv, TypeOK
        <3>2. Running(d) /\ (stale[d] \/ age[d] > 0)
            BY <2>1, <2>4, Zenon
        <3>3. age[d] > 0
            BY <3>1, <3>2 DEF IInv, StaleIsOlder
        <3> QED
            BY <2>1, <3>3
    <2> QED
        BY <2>1, <2>3, <2>4 DEF IInv, ClosedWithFewFailures, TrialAfterWait, StaleIsOlder
<1>6. CASE ~(state = "half_open" \/ Recent(failures'))
    <2>1. UNCHANGED <<state, openFor, stale, age, healthy>>
        BY <1>6 DEF Fail
    <2>2. TypeOK'
        BY <1>2, <1>3, <2>1 DEF IInv, TypeOK
    <2>3. ClosedWithFewFailures'
        BY <1>6 DEF ClosedWithFewFailures, Recent
    <2>4. TrialAfterWait' /\ StaleIsOlder'
        BY <1>4, <2>1 DEF IInv, TrialAfterWait, StaleIsOlder
    <2> QED
        BY <2>2, <2>3, <2>4 DEF IInv
<1> QED
    BY <1>5, <1>6

(* As time passes a stale query ages at least as fast as the opening.       *)
LEMMA TickStep ==
    ASSUME IInv, Tick
    PROVE  IInv'
<1>1. Window \in Nat /\ ResetTimeout \in Nat /\ QueryTimeout \in Nat
    BY BreakerAssumption
<1>2. openFor \in 0 .. ResetTimeout
    BY DEF IInv, TypeOK
<1>3. openFor' \in 0 .. ResetTimeout /\ openFor' <= openFor + 1 /\ openFor <= openFor'
    BY <1>1, <1>2, OlderType DEF Tick
<1>4. TypeOK'
    <2>1. failures' \in [1 .. Threshold -> 0 .. Window]
        <3>1. \A i \in 1 .. Threshold : Older(failures[i], Window) \in 0 .. Window
            BY <1>1, OlderType DEF IInv, TypeOK
        <3> QED
            BY <3>1 DEF Tick
    <2>2. age' \in [Calls -> 0 .. QueryTimeout]
        <3>1. \A c \in Calls : Running(c) => age[c] + 1 \in 0 .. QueryTimeout
            BY <1>1 DEF IInv, TypeOK, Tick
        <3> QED
            BY <3>1 DEF IInv, TypeOK, Tick
    <2> QED
        BY <1>3, <2>1, <2>2 DEF IInv, TypeOK, Tick
<1>5. ClosedWithFewFailures'
    <2>1. CASE state = "closed"
        BY <2>1, StaysPast DEF IInv, ClosedWithFewFailures, Tick, Recent
    <2>2. CASE state # "closed"
        BY <2>2 DEF ClosedWithFewFailures, Tick
    <2> QED
        BY <2>1, <2>2
<1>6. TrialAfterWait'
    BY <1>1, <1>2, <1>3 DEF IInv, TrialAfterWait, Tick
<1>7. ASSUME NEW c \in Calls, Running(c)', stale'[c] PROVE age'[c] > openFor'
    <2>1. Running(c) /\ stale[c]
        BY <1>7 DEF Tick, Running
    <2>2. age[c] > openFor /\ age[c] \in Nat
        BY <1>1, <2>1 DEF IInv, StaleIsOlder, TypeOK
    <2>3. age'[c] = age[c] + 1
        BY <2>1 DEF Tick
    <2> QED
        BY <1>2, <1>3, <2>2, <2>3
<1> QED
    BY <1>4, <1>5, <1>6, <1>7 DEF IInv, StaleIsOlder

(* Every step keeps the invariant.                                           *)
LEMMA StepIInv == IInv /\ [Next]_vars => IInv'
<1> SUFFICES ASSUME IInv, [Next]_vars PROVE IInv'
    OBVIOUS
<1>1. ASSUME NEW c \in Calls, Refuse(c) \/ Cancel(c) PROVE IInv'
    BY <1>1, QuietStep
<1>2. ASSUME NEW c \in Calls, Admit(c) PROVE IInv'
    BY <1>2, AdmitStep
<1>3. ASSUME NEW c \in Calls, Succeed(c) PROVE IInv'
    BY <1>3, SucceedStep
<1>4. ASSUME NEW c \in Calls, Fail(c) PROVE IInv'
    BY <1>4, FailStep
<1>5. CASE Tick
    BY <1>5, TickStep
<1>6. CASE Recover \/ UNCHANGED vars
    BY <1>6 DEF IInv, TypeOK, ClosedWithFewFailures, TrialAfterWait, StaleIsOlder,
                Recent, Running, Recover, vars
<1> QED
    BY <1>1, <1>2, <1>3, <1>4, <1>5, <1>6 DEF Next

----------------------------------------------------------------------------
(* Theorems *)

(* The invariant holds in every reachable state of the breaker.             *)
THEOREM Invariance == Spec => []IInv
BY InitIInv, StepIInv, PTL DEF Spec

(* Every variable keeps its type, and wait_for lets no query outlive its    *)
(* timeout.                                                                 *)
THEOREM TypeCorrect == Spec => []TypeOK
<1>1. IInv => TypeOK
    BY DEF IInv
<1> QED
    BY <1>1, Invariance, PTL

(* A closed breaker has fewer recent failures than _on_failure's threshold. *)
THEOREM ClosedHasFewFailures == Spec => []ClosedWithFewFailures
<1>1. IInv => ClosedWithFewFailures
    BY DEF IInv
<1> QED
    BY <1>1, Invariance, PTL

(* _on_success closes the breaker only for a query begun after the breaker  *)
(* last opened: one from before would have timed out before the trial.      *)
THEOREM TrialConfirms == Spec => ConfirmedByTrial
<1>1. IInv /\ [Next]_vars =>
         [state = "half_open" /\ state' = "closed" =>
             \E c \in Calls : Running(c) /\ ~stale[c] /\ phase'[c] = "idle"]_vars
    <2> SUFFICES ASSUME IInv, Next, state = "half_open", state' = "closed"
                 PROVE  \E c \in Calls : Running(c) /\ ~stale[c] /\ phase'[c] = "idle"
        BY DEF vars
    <2>1. PICK c \in Calls : Succeed(c)
        BY DEF Next, Refuse, Admit, Fail, Cancel, Tick, Recover
    <2>2. Running(c) /\ phase'[c] = "idle"
        BY <2>1 DEF Succeed, IInv, TypeOK
    <2>3. age[c] <= QueryTimeout /\ age[c] \in Int /\ QueryTimeout \in Int
        BY BreakerAssumption DEF IInv, TypeOK
    <2>4. openFor = ResetTimeout /\ ResetTimeout \in Int /\ QueryTimeout <= ResetTimeout
        BY BreakerAssumption DEF IInv, TrialAfterWait
    <2>5. ~stale[c]
        BY <2>2, <2>3, <2>4 DEF IInv, StaleIsOlder
    <2> QED
        BY <2>2, <2>5
<1> QED
    BY <1>1, Invariance, PTL DEF Spec, ConfirmedByTrial
=============================================================================
