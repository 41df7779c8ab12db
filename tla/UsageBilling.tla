---------------------------- MODULE UsageBilling ----------------------------
(***************************************************************************)
(* The usage snapshot and the bill made of it: api/usage.py over           *)
(* licensing/metering.py.  The snapshot's counts are queries run           *)
(* concurrently through ONE backend object, which each of them enters and  *)
(* leaves on its own.  Counts are in thousands, money in cents.            *)
(***************************************************************************)
EXTENDS Integers, FiniteSets, FiniteSetsExt, Functions

CONSTANTS Tenants,
          PlanOf,       \* tenant -> plan
          Kinds,        \* subset of AllKinds
          Queries,      \* subset of Classes, asked together
          Unit,         \* thousands of nodes in one node of the model
          MaxNodes      \* bound: nodes of one kind of one tenant

\* metering.py: rates in cents per thousand, the plans, the tiers of the types.
Rate == [standard |-> 10, enrichable |-> 40, ai_enriched |-> 120, identity |-> 500,
         graph_edges |-> 20]
NODE_TYPE_TIER ==
  [Directory |-> "standard", File |-> "enrichable", Application |-> "enrichable",
   FaceCluster |-> "enrichable", Person |-> "identity", Vulnerability |-> "standard"]
PLANS ==
  [starter    |-> [fee |-> 0,     included |-> 60,   tiers |-> {}],
   pro        |-> [fee |-> 29900, included |-> 750,  tiers |-> {<<1000, 10>>, <<5000, 15>>}],
   business   |-> [fee |-> 99900, included |-> 7500,
                   tiers |-> {<<5000, 15>>, <<20000, 20>>, <<50000, 25>>}],
   enterprise |-> [fee |-> 0,     included |-> -3,
                   tiers |-> {<<10000, 20>>, <<50000, 30>>, <<100000, 40>>}]]

VARIABLES graph,   \* tenant -> kind -> nodes
          rels,    \* tenant -> relationships of the billed types
          driver,  \* the backend's _driver: "none", "open" or "closed"
          query,   \* class -> [step, c, good]
          whose,   \* the tenant whose snapshot is being built, or Nobody
          faulty,  \* the database failed a statement of this snapshot
          enriched, \* files enriched since this snapshot began
          bill     \* the last answer, or NoBill
vars == <<graph, rels, driver, query, whose, faulty, enriched, bill>>

Nobody == "nobody"
NoBill == [made |-> FALSE]
\* A File is enriched or not, a Person known or not.
AllKinds == (DOMAIN NODE_TYPE_TIER \ {"File", "Person"})
            \cup {"RawFile", "RichFile", "KnownPerson", "UnknownPerson"}

\* What the WHERE of each count in _build_snapshot selects.
Selects ==
  [standard    |-> {"Directory"},   files_raw |-> {"RawFile"},
   ai_enriched |-> {"RichFile"},    other     |-> {"Application", "Vulnerability"},
   identity    |-> {"KnownPerson"}, unknown   |-> {"FaceCluster"}]
NodeClasses == DOMAIN Selects
Classes == NodeClasses \cup {"graph_edges"}
\* The relationships are counted with no tenant in the WHERE.
Count(class, t) ==
  IF class = "graph_edges" THEN SumFunction(rels)
  ELSE SumFunctionOnSet(graph[t], Selects[class] \cap Kinds)

\* volume_discount_pct: the highest threshold reached.
DiscountPct(plan, total) ==
  LET reached == {d \in PLANS[plan].tiers : total >= d[1]}
  IN IF reached = {} THEN 0 ELSE (CHOOSE d \in reached : \A e \in reached : d[1] >= e[1])[2]
\* UsageSnapshot.total_nodes and CostBreakdown.from_snapshot: nothing included is
\* subtracted, the fee is discounted with the rest, unknown people are free.
Get(c, class) == IF class \in DOMAIN c THEN Unit * c[class] ELSE 0
TotalNodes(c) == SumFunction([class \in NodeClasses |-> Get(c, class)])
Total(c, plan) ==
  LET items == [standard    |-> Get(c, "standard"),
                enrichable  |-> Get(c, "files_raw") + Get(c, "other"),
                ai_enriched |-> Get(c, "ai_enriched"), identity |-> Get(c, "identity"),
                graph_edges |-> Get(c, "graph_edges")]
      subtotal == SumFunction([i \in DOMAIN items |-> items[i] * Rate[i]]) + PLANS[plan].fee
  IN (subtotal * (100 - DiscountPct(plan, TotalNodes(c)))) \div 100
\* _limits_dict: the state of the quota.
LimitStatus(used, limit) ==
  IF limit <= 0 THEN "ok" ELSE IF used >= limit THEN "exceeded"
  ELSE IF used * 10 >= limit * 9 THEN "critical" ELSE IF used * 4 >= limit * 3 THEN "warning" ELSE "ok"

\* get_usage_limits, the quota bar: one count of all nodes of the tenant, zero when it
\* failed, and its share in thousandths.
Share(used, limit) == IF limit <= 0 THEN 0
                      ELSE IF used >= limit THEN 1000 ELSE (2000 * used + limit) \div (2 * limit)
UsageLimits(t, answered) ==
  LET used == IF answered THEN Unit * SumFunction(graph[t]) ELSE 0
  IN [used |-> used, share |-> Share(used, PLANS[PlanOf[t]].included)]

Waiting == [step |-> "verify", c |-> 0, good |-> FALSE]
Zero == [step |-> "done", c |-> 0, good |-> FALSE]
Done == \A q \in Queries : query[q].step = "done"

\* gather starts them all: each opens a driver and stores it over the one before.
Start(t) ==
  /\ whose = Nobody /\ whose' = t /\ driver' = "open" /\ faulty' = FALSE /\ enriched' = 0
  /\ query' = [q \in Queries |-> Waiting] /\ bill' = NoBill /\ UNCHANGED <<graph, rels>>

\* verify_connectivity came back; the count runs on whatever _driver is now.
Verified(q) ==
  /\ whose # Nobody /\ query[q].step = "verify" /\ UNCHANGED <<graph, rels, driver, whose, enriched, bill>>
  /\ \/ /\ query' = [query EXCEPT ![q] = IF driver = "none" THEN Zero ELSE [@ EXCEPT !.step = "run"]]
        /\ faulty' = faulty
     \/ faulty' = TRUE /\ query' = [query EXCEPT ![q] = Zero]

\* The count's rows arrive; once the driver is closed they may not.
Counted(q) ==
  /\ query[q].step = "run" /\ UNCHANGED <<graph, rels, driver, whose, enriched, bill>>
  /\ \/ /\ query' = [query EXCEPT ![q] = [step |-> "close", c |-> Count(q, whose), good |-> TRUE]]
        /\ faulty' = faulty
     \/ /\ driver # "open" /\ faulty' = faulty
        /\ query' = [query EXCEPT ![q] = [Zero EXCEPT !.step = "close"]]
     \/ faulty' = TRUE /\ query' = [query EXCEPT ![q] = [Zero EXCEPT !.step = "close"]]

CloseFirst(q) ==   \* Variant: the rows are fetched after the block was left
  /\ query[q].step \in {"run", "close"} /\ UNCHANGED <<graph, rels, whose, faulty, enriched, bill>>
  /\ driver' = "closed" /\ query' = [query EXCEPT ![q].step = "forget"]
\* close: await the shared driver's close, then forget it.
Close(q) ==
  /\ query[q].step = "close" /\ UNCHANGED <<graph, rels, whose, faulty, enriched, bill>>
  /\ IF driver = "none"
     THEN driver' = driver /\ query' = [query EXCEPT ![q].step = "done"]
     ELSE driver' = "closed" /\ query' = [query EXCEPT ![q].step = "forget"]
Forget(q) ==
  /\ query[q].step = "forget" /\ driver' = "none" /\ query' = [query EXCEPT ![q].step = "done"]
  /\ UNCHANGED <<graph, rels, whose, faulty, enriched, bill>>

Answer ==
  /\ whose # Nobody /\ Done
  /\ LET c == [q \in Queries |-> query[q].c]
     IN bill' = [made |-> TRUE, tenant |-> whose, counts |-> c, faulty |-> faulty, enriched |-> enriched,
                 good |-> {q \in Queries : query[q].good},
                 total |-> Total(c, PlanOf[whose]),
                 limit |-> LimitStatus(TotalNodes(c), PLANS[PlanOf[whose]].included)]
  /\ whose' = Nobody /\ query' = [q \in Queries |-> Zero] /\ driver' = "none" /\ faulty' = FALSE
  /\ enriched' = 0 /\ UNCHANGED <<graph, rels>>

\* Scans go on meanwhile, and the enricher gives files their summary.
Grow(t) ==
  /\ \/ /\ \E k \in Kinds \ {"RichFile"} : graph[t][k] < MaxNodes /\ graph' = [graph EXCEPT ![t][k] = @ + 1]
        /\ rels' = rels
     \/ rels[t] < MaxNodes /\ rels' = [rels EXCEPT ![t] = @ + 1] /\ graph' = graph
  /\ UNCHANGED <<driver, query, whose, faulty, enriched, bill>>
Enrich(t) ==
  /\ {"RawFile", "RichFile"} \subseteq Kinds
  /\ graph[t]["RawFile"] > 0 /\ graph[t]["RichFile"] < MaxNodes
  /\ graph' = [graph EXCEPT ![t]["RawFile"] = @ - 1, ![t]["RichFile"] = @ + 1]
  /\ enriched' = IF whose = t THEN enriched + 1 ELSE enriched
  /\ UNCHANGED <<rels, driver, query, whose, faulty, bill>>

Init == /\ graph = [t \in Tenants |-> [k \in Kinds |-> 0]] /\ rels = [t \in Tenants |-> 0]
        /\ driver = "none" /\ query = [q \in Queries |-> Zero] /\ whose = Nobody
        /\ faulty = FALSE /\ enriched = 0 /\ bill = NoBill
Next == \/ Answer \/ \E t \in Tenants : Start(t) \/ Grow(t) \/ Enrich(t)
        \/ \E q \in Queries : Verified(q) \/ Counted(q) \/ Close(q) \/ Forget(q)
Spec == Init /\ [][Next]_vars

-----------------------------------------------------------------------------
\* The graph has nodes of the types the tiers name, and each count is one of the
\* billed classes.
TypeOK ==
  /\ graph \in [Tenants -> [Kinds \cap AllKinds -> Nat]] /\ rels \in [Tenants -> Nat]
  /\ driver \in {"none", "open", "closed"} /\ whose \in Tenants \cup {Nobody}
  /\ query \in [Queries \cap Classes -> [step: {"verify", "run", "close", "forget", "done"},
                                          c: Nat, good: BOOLEAN]]
  /\ faulty \in BOOLEAN /\ enriched \in Nat

\* A count that failed is billed as zero (usage.py:227), and whoever finishes
\* first closes everybody's driver: still, when the database itself never
\* failed, at least one of the counts is real.
OneCountTrue == bill.made /\ ~bill.faulty => bill.good # {}
\* However counting and scanning overlap, only a file enriched in between can be
\* billed twice, raw and rich: else the total is within what the quota bar counts
\* (usage.py:83), and when the bill says the quota is exceeded the bar is full.
NothingTwice ==
  bill.made => LET bar == UsageLimits(bill.tenant, TRUE)
               IN /\ TotalNodes(bill.counts) <= bar.used + Unit * bill.enriched
                  /\ bill.limit = "exceeded" /\ bill.enriched = 0 => bar.share = 1000
BillIsCounted == OneCountTrue /\ NothingTwice
=============================================================================
