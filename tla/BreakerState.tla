---------------------------- MODULE BreakerState ---------------------------
(* The parameters and the state of CircuitBreaker, and what it promises.    *)
EXTENDS Integers

CONSTANTS
    Calls,        \* concurrent callers of call()
    Threshold,    \* FAILURE_THRESHOLD
    Window,       \* WINDOW_SECS
    ResetTimeout, \* RESET_TIMEOUT_SECS
    QueryTimeout  \* QUERY_TIMEOUT_SECS, by default equal to ResetTimeout

ASSUME BreakerAssumption ==
    /\ {Threshold, Window, ResetTimeout, QueryTimeout} \subseteq Nat \ {0}
    /\ QueryTimeout <= ResetTimeout

VARIABLES
    state,        \* _state
    openFor,      \* time since _opened_at, up to ResetTimeout
    failures,     \* ages of the last Threshold failures, latest first; Window: none
    phase,        \* what each caller is doing
    age,          \* how long its query has been running
    stale,        \* its query began at a time before the breaker last opened (history)
    healthy       \* the database answers the queries sent to it from now on

vars == <<state, openFor, failures, phase, age, stale, healthy>>

----------------------------------------------------------------------------
Running(c) == phase[c] \in {"unsure", "sound"}

Recent(f) == \A i \in 1 .. Threshold : f[i] < Window

----------------------------------------------------------------------------
(* Properties *)

(* "OPEN: entered after failure_threshold failures within window_secs": a   *)
(* closed breaker has seen fewer recent failures than that since it closed, *)
(* also when results of calls begun in other states come in.                *)
ClosedWithFewFailures == state = "closed" => ~Recent(failures)

(* "recovery confirmed": only a query begun after the breaker last opened   *)
(* closes it, never a straggler from before.                                *)
ConfirmedByTrial ==
    [][state = "half_open" /\ state' = "closed" =>
          \E c \in Calls : Running(c) /\ ~stale[c] /\ phase'[c] = "idle"]_vars

(* An open breaker is tried again, however many calls it refuses.           *)
TriedAgain == state = "open" ~> state # "open"

(* Once the database answers, the breaker closes, although queries sent     *)
(* before may still fail.                                                   *)
Recovers == healthy /\ state # "closed" ~> state = "closed"
============================================================================
