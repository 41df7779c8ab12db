-------------------------- MODULE MCAdministration --------------------------
(* The services of administration and the directory of users for TLC, side   *)
(* by side: a behaviour is one of the service named by part, and the         *)
(* variables of the others stay as they were initially.  The directory       *)
(* comes two ways: requests of every kind, one at a time, in two tenants,    *)
(* an external id only for users without a password ("serial"); and, in one  *)
(* tenant, two requests at a time of the kinds that look an address up and   *)
(* then create or change an account ("overlap").                             *)
(* Saved queries come two ways likewise: every request, one at a time, each  *)
(* query run once at most and one with an export format ("queries"); and two *)
(* requests at a time of an owner for one query ("runs").                    *)
EXTENDS Administration, Directory

CONSTANTS h1, i3,  \* the handler and the id that only one of the two ways uses
          m1, u1, q1, n1

VARIABLE part

\* Parameters that are no sets of model values.
LoginLimit == [login |-> [limit |-> 3, window |-> 8]]
LoginPrefix == [login |-> "login"]
PlansOf == [t1 |-> "pro", t2 |-> "business"]
PlansSent == [t1 |-> "pro", t2 |-> "starter"]

Overlapping == {"accept_invite", "update_profile", "create_scim_token", "configure_saml",
                "add_oidc", "scim_create", "scim_rename", "saml_acs", "oidc"}
Serial ==
  /\ CreateTenant \/ Handler(h1) \/ \E q \in Requests : Arrive(h1, q)
  /\ user'[i3] = Absent
  /\ \A i \in Ids' : user'[i].local => user'[i].external_id = Nobody
Overlap ==
  \E h \in Handlers : \/ Handler(h)
                     \/ \E q \in {q \in Requests : q.op \in Overlapping} : Arrive(h, q)

QuerySerial ==
  /\ \/ Saved!Restart \/ \E e \in ExportIds : Saved!Background(e)
     \/ Saved!Handler(h1) \/ \E q \in Saved!Requests : Saved!Arrive(h1, q)
  /\ \A i \in QueryIds : queryRuns'[i].answered <= 1
  /\ \A i \in Saved!Rows(queries') \ {q1} : ~queries'[i].export_format
OfOwner(f) == /\ f.q.user = u1 /\ f.op \notin {"rename", "format"}
              /\ IF f.op = "save" THEN f.q.name = n1 /\ f.q.is_public /\ f.q.export_format
                 ELSE f.q.id = q1 /\ (f.op = "share" => ~f.q.is_public)
QueryOverlap ==
  /\ Saved!Next
  /\ \A h \in QueryHandlers : queryFlight'[h] # Saved!Idle => OfOwner(queryFlight'[h])
  /\ \A i \in QueryIds \ {q1} : queries'[i] = Saved!Absent

\* The variables of each service.
LimiterVars == <<rateEntries, rateAdmitted, rateWait, rateRefused>>
KeygenVars == <<today, host, licenceFile, licence, loadedOn>>
AlertsVars == <<rules, installs, webhooks, installedFor, ownHooks>>
SavedVars == <<queries, exports, exportTasks, exportFiles, queryFlight, queryRuns, runsAlone>>
UsageVars == <<nodeCounts, relCounts, sharedDriver, usageQuery, usageTenant, usageFaulty,
               usageEnriched, bill>>
StripeVars == <<payingTenants, settingsFlight, stripeCustomers, checkoutSessions, subscriptions,
                stripeEvents, paidPlans>>

\* Only its own part moves a service's variables.
Still ==
  /\ part # "limits" => UNCHANGED LimiterVars
  /\ part # "licences" => UNCHANGED KeygenVars
  /\ part # "alerts" => UNCHANGED AlertsVars
  /\ part \notin {"queries", "runs"} => UNCHANGED SavedVars
  /\ part # "usage" => UNCHANGED UsageVars
  /\ part # "billing" => UNCHANGED StripeVars
  /\ part \notin {"serial", "overlap"} => UNCHANGED vars
PartsInit ==
  /\ part \in {"serial", "overlap",
              "limits", "licences", "alerts", "queries", "runs", "usage", "billing"}
  /\ Limiter!Init /\ Keygen!Init /\ Alerts!Init /\ Saved!Init /\ Usage!Init /\ Stripe!Init /\ Init
  \* One initial state of a service that is not the part.
  /\ part # "licences" => host = m1
PartsNext ==
  /\ UNCHANGED part
  /\ \/ part = "serial" /\ Serial
     \/ part = "overlap" /\ Overlap
     \/ part = "limits" /\ Limiter!Next
     \/ part = "licences" /\ Keygen!Next
     \/ part = "alerts" /\ Alerts!Next
     \/ part = "queries" /\ QuerySerial
     \/ part = "runs" /\ QueryOverlap
     \/ part = "usage" /\ Usage!Next
     \/ part = "billing" /\ Stripe!Next
  /\ Still
PartsSpec ==
  PartsInit /\ [][PartsNext]_<<part, vars, LimiterVars, KeygenVars, AlertsVars, SavedVars, UsageVars, StripeVars>>
=============================================================================
