-------------------------- MODULE MCAgentDelivery --------------------------
(* The agent for TLC, side by side: a behaviour is one of AgentDelivery (a  *)
(* scan and its queue) or one of AgentLoop (which connectors are scanned).  *)
(* Where one part moves, the other stands in a state in which its fairness  *)
(* asks for nothing: no rows are queued; the answer of the platform does    *)
(* not decode.                                                              *)
EXTENDS AgentDelivery

VARIABLES part, listed, up, connectors, lastConfig, due, remaining, stops

C(i, s) == [id |-> i, settings |-> s]
Loop == INSTANCE AgentLoop WITH
  ConnectorConfig <- {C("k1", "old"), C("k1", "new"), C("k2", "odd"), C("k2", "number")},
  Texts <- {"old", "new", "odd"}, Refused <- {"odd"}, Static <- {C("k1", "old")},
  MaxStops <- 1, todo <- remaining
loop == <<listed, up, connectors, lastConfig, due, remaining, stops>>

SideInit == /\ Init
            /\ \/ part = "loop" /\ Loop!Init
               \/ part \in {"scan", "queue"} /\ Loop!Start({C("k2", "number")})
\* Where the queue is looked at, a walk ends with an error after its first file;
\* where scans are, one Flush runs at a time.
Short == part = "queue" => walked' <= 1
Single == part = "scan" => \A f, g \in Flushers : todo'[f] # <<>> /\ todo'[g] # <<>> => f = g
SideNext == \/ part \in {"scan", "queue"} /\ Next /\ Short /\ Single /\ UNCHANGED <<part, loop>>
            \/ part = "loop" /\ Loop!Next /\ UNCHANGED <<part, vars>>
SideSpec == SideInit /\ [][SideNext]_<<part, vars, loop>> /\ Fairness /\ Loop!Fairness

-----------------------------------------------------------------------------
\* A connector that stays assigned is scanned again and again (main.go:10-14).
AssignedIsScanned == Loop!AssignedIsScanned
=============================================================================
