----------------------------- MODULE AlertRules ------------------------------
(***************************************************************************)
(* A tenant's alert rules (api/alerts.py, the templates of                  *)
(* alerts/engine.py) and webhook endpoints (webhooks/outbound.py).  Neither *)
(* table has a unique constraint.  What rules and endpoints are for, alerts *)
(* and deliveries, is the work of Celery tasks that do not start.           *)
(***************************************************************************)
EXTENDS Naturals, Sequences, SequencesExt

CONSTANTS Tenants, Handlers,
          Names,    \* what create_rule calls its rules
          Hooks,    \* ids of webhook endpoints
          MaxRows   \* bound: rules of one name in one tenant

BUILTIN_RULES == <<"pii", "secrets", "eol", "certificates", "cves">>
AlertNames == Names \cup ToSet(BUILTIN_RULES)

VARIABLES
  rule,       \* how many alert_rules there are, by tenant and by name
  flight,     \* install_default_rules per handler: what it has still to look up
  hook,       \* webhook_endpoints by id
  installed,  \* history: tenants whose install was answered
  hooks       \* history: the endpoints each tenant created and did not delete
vars == <<rule, flight, hook, installed, hooks>>

Absent == [gone |-> TRUE]
Idle == [todo |-> <<>>, busy |-> FALSE]

\* No permission is asked for, and a name may be taken.
CreateRule(t, n) ==
  /\ rule[t][n] < MaxRows
  /\ rule' = [rule EXCEPT ![t][n] = @ + 1]
  /\ UNCHANGED <<flight, hook, installed, hooks>>

\* install_default_rules looks every template up, adds what is missing and
\* commits once.
InstallDefaultRules(h, t) ==
  /\ flight[h] = Idle
  /\ flight' = [flight EXCEPT ![h] = [todo |-> BUILTIN_RULES, busy |-> TRUE, tenant |-> t, new |-> {}]]
  /\ UNCHANGED <<rule, hook, installed, hooks>>
ExistingAnywhere(t, n) == IF \E u \in Tenants : rule[u][n] > 0 THEN 1 ELSE 0   \* Variant
Existing(t, n) == rule[t][n]
\* Two rows of one name raise MultipleResultsFound: 500, and nothing is added.
LookUp(h) ==
  LET f == flight[h]
      n == Head(f.todo)
      found == Existing(f.tenant, n)
  IN /\ f.todo # <<>>
     /\ flight' = [flight EXCEPT ![h] =
          IF found > 1 THEN Idle
          ELSE [f EXCEPT !.todo = Tail(@), !.new = IF found = 0 THEN @ \cup {n} ELSE @]]
     /\ UNCHANGED <<rule, hook, installed, hooks>>
CommitInstall(h) ==
  LET f == flight[h]
  IN /\ f.busy /\ f.todo = <<>> /\ \A n \in f.new : rule[f.tenant][n] < MaxRows
     /\ rule' = [rule EXCEPT ![f.tenant] =
                   [n \in AlertNames |-> rule[f.tenant][n] + (IF n \in f.new THEN 1 ELSE 0)]]
     /\ installed' = installed \cup {f.tenant}
     /\ flight' = [flight EXCEPT ![h] = Idle]
     /\ UNCHANGED <<hook, hooks>>
\* The process dies or the database fails the request.
Rollback(h) == /\ flight[h].busy /\ flight' = [flight EXCEPT ![h] = Idle]
               /\ UNCHANGED <<rule, hook, installed, hooks>>

CreateWebhook(t, w) ==
  /\ hook[w] = Absent
  /\ hook' = [hook EXCEPT ![w] = [tenant |-> t, is_active |-> TRUE]]
  /\ hooks' = [hooks EXCEPT ![t] = @ \cup {w}]
  /\ UNCHANGED <<rule, flight, installed>>
\* "deleted" is answered whatever the WHERE matched; the row stays.
DeleteWebhook(t, w) ==
  /\ hook' = IF hook[w] # Absent /\ hook[w].tenant = t
             THEN [hook EXCEPT ![w].is_active = FALSE] ELSE hook
  /\ hooks' = [hooks EXCEPT ![t] = @ \ {w}]
  /\ UNCHANGED <<rule, flight, installed>>
ListWebhooks(t) == {w \in Hooks : hook[w] # Absent /\ hook[w].tenant = t /\ hook[w].is_active}
\* list_rules, by name.
ListRules(t) == {n \in AlertNames : rule[t][n] > 0}

Init == /\ rule = [t \in Tenants |-> [n \in AlertNames |-> 0]] /\ flight = [h \in Handlers |-> Idle]
        /\ hook = [w \in Hooks |-> Absent] /\ installed = {} /\ hooks = [t \in Tenants |-> {}]
Next == \/ \E t \in Tenants : \/ \E n \in Names : CreateRule(t, n)
                              \/ \E h \in Handlers : InstallDefaultRules(h, t)
                              \/ \E w \in Hooks : CreateWebhook(t, w) \/ DeleteWebhook(t, w)
        \/ \E h \in Handlers : LookUp(h) \/ CommitInstall(h) \/ Rollback(h)
Spec == Init /\ [][Next]_vars

-----------------------------------------------------------------------------
\* The rows of both tables, and what an install has found and has still to look up.
Webhook == [tenant: Tenants, is_active: BOOLEAN]
Install == [todo: Seq(ToSet(BUILTIN_RULES)), busy: {TRUE}, tenant: Tenants,
            new: SUBSET ToSet(BUILTIN_RULES)]
TypeOK ==
  /\ rule \in [Tenants -> [AlertNames -> Nat]] /\ flight \in [Handlers -> {Idle} \cup Install]
  /\ hook \in [Hooks -> Webhook \cup {Absent}] /\ installed \subseteq Tenants
  /\ hooks \in [Tenants -> SUBSET Hooks]

\* However installs overlap with each other, with rules of the same names and
\* with other tenants: a tenant whose install was answered lists every template
\* (alerts.py:64), and it lists the endpoints it created and did not delete
\* itself, whatever others delete.
OwnRulesListed ==
  /\ \A t \in installed : ToSet(BUILTIN_RULES) \subseteq ListRules(t)
  /\ \A t \in Tenants : ListWebhooks(t) = hooks[t]
=============================================================================
