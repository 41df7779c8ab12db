--------------------------- MODULE CircuitBreaker ---------------------------
(***************************************************************************)
(* The circuit breaker in front of a tenant's graph database               *)
(* (src/dgraphai/graph/circuit_breaker.py).                                *)
(*                                                                         *)
(* Calls run concurrently on one event loop.  Nothing is awaited inside    *)
(* the breaker's lock, so its checks and updates are atomic; a query runs  *)
(* between them, and its result is counted in whatever state the breaker   *)
(* is in by then.  Clocks are ages that stop counting once they no longer  *)
(* matter.                                                                 *)
(***************************************************************************)
EXTENDS BreakerState

NoFailures == [i \in 1 .. Threshold |-> Window]

Init ==
    /\ state = "closed"
    /\ openFor = 0
    /\ failures = NoFailures
    /\ phase = [c \in Calls |-> "idle"]
    /\ age = [c \in Calls |-> 0]
    /\ stale = [c \in Calls |-> FALSE]
    /\ healthy = FALSE

(* _maybe_transition: an open breaker is tried again after ResetTimeout. *)
Refusing == state = "open" /\ openFor < ResetTimeout

(* Variant: each refused call makes the others wait longer. *)
RefuseRestartingClock(c) ==
    /\ ~Running(c)
    /\ Refusing
    /\ phase' = [phase EXCEPT ![c] = "refused"]
    /\ openFor' = 0
    /\ UNCHANGED <<state, failures, age, stale, healthy>>

(* call() finds the breaker open and raises CircuitBreakerOpen. *)
Refuse(c) ==
    /\ ~Running(c)
    /\ Refusing
    /\ phase' = [phase EXCEPT ![c] = "refused"]
    /\ UNCHANGED <<state, openFor, failures, age, stale, healthy>>

(* call() sends its query.  Every call that comes while the breaker is half *)
(* open is let through.                                                     *)
Admit(c) ==
    /\ ~Running(c)
    /\ ~Refusing
    /\ state' = IF state = "open" THEN "half_open" ELSE state
    /\ phase' = [phase EXCEPT ![c] = IF healthy THEN "sound" ELSE "unsure"]
    /\ age' = [age EXCEPT ![c] = 0]
    /\ stale' = [stale EXCEPT ![c] = FALSE]
    /\ UNCHANGED <<openFor, failures, healthy>>

(* Variant: closing does not forget the failures. *)
SucceedKeepingFailures(c) ==
    /\ Running(c)
    /\ phase' = [phase EXCEPT ![c] = "idle"]
    /\ state' = IF state = "half_open" THEN "closed" ELSE state
    /\ UNCHANGED <<openFor, failures, age, stale, healthy>>

(* Variant: a success closes nothing. *)
SucceedUnnoticed(c) ==
    /\ Running(c)
    /\ phase' = [phase EXCEPT ![c] = "idle"]
    /\ UNCHANGED <<state, openFor, failures, age, stale, healthy>>

(* The query returns (_on_success). *)
Succeed(c) ==
    /\ Running(c)
    /\ phase' = [phase EXCEPT ![c] = "idle"]
    /\ IF state = "half_open"
       THEN state' = "closed" /\ failures' = NoFailures
       ELSE UNCHANGED <<state, failures>>
    /\ UNCHANGED <<openFor, age, stale, healthy>>

(* Variant: the time of opening is kept when a trial fails. *)
FailKeepingClock(c) ==
    /\ phase[c] = "unsure"
    /\ phase' = [phase EXCEPT ![c] = "idle"]
    /\ failures' = [i \in 1 .. Threshold |-> IF i = 1 THEN 0 ELSE failures[i - 1]]
    /\ IF state = "half_open" \/ Recent(failures')
       THEN /\ state' = "open"
            /\ openFor' = IF state = "half_open" THEN openFor ELSE 0
            /\ stale' = [d \in Calls |-> Running(d) /\ (stale[d] \/ age[d] > 0)]
       ELSE UNCHANGED <<state, openFor, stale>>
    /\ UNCHANGED <<age, healthy>>

(* The query fails or runs out of time (_on_failure): the breaker opens, or *)
(* begins its wait again, when it was on trial or when the last Threshold   *)
(* failures are all recent, whatever state it is in.                        *)
Fail(c) ==
    /\ phase[c] = "unsure"
    /\ phase' = [phase EXCEPT ![c] = "idle"]
    /\ failures' = [i \in 1 .. Threshold |-> IF i = 1 THEN 0 ELSE failures[i - 1]]
    /\ IF state = "half_open" \/ Recent(failures')
       THEN /\ state' = "open"
            /\ openFor' = 0
            /\ stale' = [d \in Calls |-> Running(d) /\ (stale[d] \/ age[d] > 0)]
       ELSE UNCHANGED <<state, openFor, stale>>
    /\ UNCHANGED <<age, healthy>>

(* The caller is cancelled: CancelledError passes by both handlers. *)
Cancel(c) ==
    /\ Running(c)
    /\ phase' = [phase EXCEPT ![c] = "idle"]
    /\ UNCHANGED <<state, openFor, failures, age, stale, healthy>>

Older(n, limit) == IF n < limit THEN n + 1 ELSE limit

(* Time passes; wait_for ends a query at its timeout. *)
Tick ==
    /\ \A c \in Calls : Running(c) => age[c] < QueryTimeout
    /\ openFor' = Older(openFor, ResetTimeout)
    /\ failures' = [i \in 1 .. Threshold |-> Older(failures[i], Window)]
    /\ age' = [c \in Calls |-> IF Running(c) THEN age[c] + 1 ELSE age[c]]
    /\ UNCHANGED <<state, phase, stale, healthy>>

(* The database recovers: queries sent from now on succeed. *)
Recover ==
    /\ ~healthy
    /\ healthy' = TRUE
    /\ UNCHANGED <<state, openFor, failures, phase, age, stale>>

Next ==
    \/ \E c \in Calls : Refuse(c) \/ Admit(c) \/ Succeed(c) \/ Fail(c) \/ Cancel(c)
    \/ Tick
    \/ Recover

Spec == Init /\ [][Next]_vars

(* Time passes, queries end, and calls keep coming; of those sent to a      *)
(* healthy database not all are cancelled.  Nothing is assumed of the rest. *)
FairSpec ==
    /\ Spec
    /\ WF_vars(Tick)
    /\ \A c \in Calls : /\ WF_vars(Admit(c))
                        /\ SF_vars(phase[c] = "sound" /\ Succeed(c))
                        /\ WF_vars(Succeed(c) \/ Fail(c) \/ Cancel(c))

----------------------------------------------------------------------------
(* Every variable has its type; no query outlives its timeout.              *)
TypeOK ==
    /\ state \in {"closed", "open", "half_open"}
    /\ openFor \in 0 .. ResetTimeout
    /\ failures \in [1 .. Threshold -> 0 .. Window]
    /\ phase \in [Calls -> {"idle", "refused", "unsure", "sound"}]
    /\ age \in [Calls -> 0 .. QueryTimeout]
    /\ stale \in [Calls -> BOOLEAN]
    /\ healthy \in BOOLEAN
=============================================================================
