---------------------------- MODULE MCIngestion ----------------------------
(* What receives scanned files and what asks the graph for them, for TLC,   *)
(* side by side: a behaviour is one of IngestBatcher (the buffer requests   *)
(* share) or of CircuitBreaker (a tenant's database).  Where one part       *)
(* moves, the other's fairness asks for nothing: no request has arrived;    *)
(* the breaker is not used.                                                 *)
EXTENDS IngestState, BreakerState

CONSTANT t1   \* the tenant of all requests where the batcher does not move

VARIABLE part

Batcher == INSTANCE IngestBatcher
batcher == <<tenant, size, handler, next, mutex, pending, answer, written, flushed, server>>

Breaker == INSTANCE CircuitBreaker
breaker == vars

\* The fairness of Breaker!FairSpec, of the behaviours that use the breaker.
Used == part = "breaker"
BreakerFairness ==
    /\ WF_breaker(Used /\ Breaker!Tick)
    /\ \A c \in Calls :
          /\ WF_breaker(Used /\ Breaker!Admit(c))
          /\ SF_breaker(Used /\ phase[c] = "sound" /\ Breaker!Succeed(c))
          /\ WF_breaker(Used /\ (Breaker!Succeed(c) \/ Breaker!Fail(c) \/ Breaker!Cancel(c)))

PartsInit ==
    /\ part \in {"ingest", "breaker"}
    /\ Batcher!Init /\ Breaker!Init
    /\ Used => \A r \in Requests : size[r] = 1 /\ tenant[r] = t1
PartsNext ==
    /\ UNCHANGED part
    /\ \/ part = "ingest" /\ Batcher!Next /\ UNCHANGED breaker
       \/ Used /\ Breaker!Next /\ UNCHANGED batcher
PartsSpec ==
    /\ PartsInit /\ [][PartsNext]_<<part, batcher, breaker>>
    /\ Batcher!Fairness /\ BreakerFairness
============================================================================
