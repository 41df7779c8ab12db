----------------------------- MODULE MCCommits ------------------------------
(* What is committed step by step, with crashes in between, for TLC, side by *)
(* side: a behaviour is one of ProxySync (the proxy's store and its queue)   *)
(* or one of WorkflowRuns whose requests for one run are apart (the engine). *)
EXTENDS MCWorkflowRuns, ProxyState

VARIABLE part

Proxy == INSTANCE ProxySync
proxy == <<graph, queue, nextSeq, leased, open, phase, batch, reply, late, backoff, received,
           made, restarts>>

\* The runs of a behaviour are of different templates.
Various == \A r, s \in Runs : runs'[r].tmpl = runs'[s].tmpl => r = s \/ runs'[r].tmpl = <<>>

PartsInit == part \in {"proxy", "workflows"} /\ Init /\ Proxy!Init
PartsNext ==
    /\ UNCHANGED part
    /\ \/ part = "workflows" /\ Next /\ Apart' /\ Various /\ UNCHANGED proxy
       \/ part = "proxy" /\ Proxy!Next /\ UNCHANGED vars
PartsSpec == PartsInit /\ [][PartsNext]_<<part, vars, proxy>>
=============================================================================
