--------------------------- MODULE TenantBilling ---------------------------
(***************************************************************************)
(* api/settings.py: a tenant's plan, driven by Stripe's webhooks, its       *)
(* Stripe customer and its notification settings.  Stripe is external: it   *)
(* holds customers, checkout sessions and subscriptions, and delivers an    *)
(* event per change of a subscription late, more than once, in any order.   *)
(***************************************************************************)
EXTENDS Naturals, Sequences

CONSTANTS Tenants, Names, Customers, Prices,  \* Prices: the plans with a Stripe price id
          CreatedOn,                   \* tenant -> the plan its sign-up or creation sent
          Handlers,                    \* requests of administrators under way at once
          Channels, Secrets,           \* optional notification fields and their values
          MaxSubscriptions             \* ever created, over all tenants

VARIABLES tenant,         \* the columns of each Tenant row that this API writes or shows
          flight,         \* handler -> what it has read and done so far
          customers,      \* Stripe: customer -> the tenant it was created for, or None
          sessions,       \* Stripe: open checkout sessions
          subscriptions,  \* Stripe: [tenant, plan, status] of each, in the order they were created
          events,         \* Stripe: what was sent, all of it deliverable again
          paid            \* history: tenant -> the plans an active subscription gave it
vars == <<tenant, flight, customers, sessions, subscriptions, events, paid>>
stripe == <<customers, sessions, subscriptions, events, paid>>

None == "none"
Idle == [op |-> "idle"]

\* get_billing_info and get_tenant_settings: the row as it is; the portal's link is
\* of the customer in the row.
BillingInfo(t) == [plan |-> tenant[t].plan, subscription_status |-> tenant[t].subscription_status,
                   portal |-> tenant[t].stripe_customer_id]
TenantSettings(t) == [plan |-> tenant[t].plan, name |-> tenant[t].name]
\* update_tenant_settings: only the columns that were sent.
update_tenant_settings(t, name) ==
  tenant' = [tenant EXCEPT ![t].name = name] /\ UNCHANGED <<flight, stripe>>

\* Checkout: the row is read, a customer is made at Stripe when the row has none,
\* then the session; the column of a customer that was made is committed with the
\* answer.
create_checkout_session(h, t, plan) ==
  /\ flight[h] = Idle /\ plan \in Prices
  /\ flight' = [flight EXCEPT ![h] = [op |-> "checkout", tenant |-> t, plan |-> plan,
                                      customer |-> tenant[t].stripe_customer_id, made |-> FALSE]]
  /\ UNCHANGED <<tenant, stripe>>
CreateCustomer(h, c) ==
  /\ flight[h].op = "checkout" /\ flight[h].customer = None /\ customers[c] = None
  /\ customers' = [customers EXCEPT ![c] = flight[h].tenant]
  /\ flight' = [flight EXCEPT ![h].customer = c, ![h].made = TRUE]
  /\ UNCHANGED <<tenant, sessions, subscriptions, events, paid>>
CreateSession(h) ==
  LET f == flight[h] IN
  /\ f.op = "checkout" /\ f.customer # None
  /\ sessions' = sessions \cup {[tenant |-> f.tenant, plan |-> f.plan]}
  /\ tenant' = [tenant EXCEPT ![f.tenant].stripe_customer_id = IF f.made THEN f.customer ELSE @]
  /\ flight' = [flight EXCEPT ![h] = Idle] /\ UNCHANGED <<customers, subscriptions, events, paid>>
\* A Stripe call fails, 502: the row is rolled back, the customer stays at Stripe.
StripeError(h) ==
  /\ flight[h].op = "checkout" /\ flight' = [flight EXCEPT ![h] = Idle]
  /\ UNCHANGED <<tenant, stripe>>

\* Notification settings: the JSON column is read, merged and written whole.
update_notification_settings(h, t, req) ==
  /\ flight[h] = Idle
  /\ flight' = [flight EXCEPT ![h] = [op |-> "notify", tenant |-> t, req |-> req,
                                      existing |-> tenant[t].notification_config]]
  /\ UNCHANGED <<tenant, stripe>>
Merged(existing, req) ==
  [k \in DOMAIN existing \cup DOMAIN req |-> IF k \in DOMAIN req THEN req[k] ELSE existing[k]]
WriteConfig(h) ==
  LET f == flight[h] IN
  /\ f.op = "notify"
  /\ tenant' = [tenant EXCEPT ![f.tenant].notification_config = Merged(f.existing, f.req)]
  /\ flight' = [flight EXCEPT ![h] = Idle] /\ UNCHANGED stripe

\* Stripe: a subscription starts and changes, and every change is an event with
\* the subscription's metadata and status.
Changed(sub) ==
  /\ events' = events \cup {sub}
  /\ paid' = IF sub.status = "active" THEN [paid EXCEPT ![sub.tenant] = @ \cup {sub.plan}] ELSE paid
  /\ UNCHANGED <<tenant, flight, customers>>
Subscribe(s) ==
  /\ s \in sessions /\ Len(subscriptions) < MaxSubscriptions
  /\ sessions' = sessions \ {s}
  /\ \E status \in {"incomplete", "active"} :
       LET sub == [tenant |-> s.tenant, plan |-> s.plan, status |-> status]
       IN subscriptions' = Append(subscriptions, sub) /\ Changed(sub)
Follows == [incomplete |-> {"active"}, active |-> {"past_due", "canceled"},
            past_due |-> {"active", "canceled"}, canceled |-> {}]
ChangeStatus(n) ==
  /\ n \in 1..Len(subscriptions) /\ UNCHANGED sessions
  /\ \E status \in Follows[subscriptions[n].status] :
       LET sub == [subscriptions[n] EXCEPT !.status = status]
       IN subscriptions' = [subscriptions EXCEPT ![n] = sub] /\ Changed(sub)

\* The webhook looks at nothing but the event: not at its age and not at which
\* subscription it speaks of.
PlanUnlessCanceled(sub) == IF sub.status # "canceled" THEN sub.plan ELSE "starter"   \* Variant
GrantedPlan(sub) == IF sub.status = "active" THEN sub.plan ELSE "starter"
stripe_webhook(sub) ==
  /\ sub \in events
  /\ tenant' = [tenant EXCEPT ![sub.tenant].subscription_status = sub.status,
                             ![sub.tenant].plan = GrantedPlan(sub)]
  /\ UNCHANGED <<flight, stripe>>

Requests == UNION {[C -> Secrets] : C \in SUBSET Channels}
\* signup and create_tenant store the plan that the client sends.
Init ==
  /\ tenant = [t \in Tenants |-> [name |-> None, plan |-> CreatedOn[t], subscription_status |-> None,
                                  stripe_customer_id |-> None,
                                  notification_config |-> [c \in {} |-> None]]]
  /\ flight = [h \in Handlers |-> Idle]
  /\ customers = [c \in Customers |-> None] /\ sessions = {} /\ subscriptions = <<>> /\ events = {}
  /\ paid = [t \in Tenants |-> {}]
Next ==
  \/ \E t \in Tenants, name \in Names : update_tenant_settings(t, name)
  \/ \E h \in Handlers, t \in Tenants : \/ \E plan \in Prices : create_checkout_session(h, t, plan)
                                        \/ \E req \in Requests : update_notification_settings(h, t, req)
  \/ \E h \in Handlers : \/ \E c \in Customers : CreateCustomer(h, c)
                         \/ CreateSession(h) \/ StripeError(h) \/ WriteConfig(h)
  \/ \E s \in sessions : Subscribe(s)
  \/ \E n \in 1..Len(subscriptions) : ChangeStatus(n)
  \/ \E sub \in events : stripe_webhook(sub)
Spec == Init /\ [][Next]_vars

-----------------------------------------------------------------------------
\* The row of a tenant, what is under way, and what Stripe holds.
TenantRow ==
  [name: Names \cup {None}, plan: Prices \cup {"starter"} \cup {CreatedOn[t] : t \in Tenants},
   stripe_customer_id: Customers \cup {None},
   subscription_status: DOMAIN Follows \cup {None}, notification_config: Requests]
Checkout == [op: {"checkout"}, tenant: Tenants, plan: Prices, customer: Customers \cup {None},
             made: BOOLEAN]
Notify == [op: {"notify"}, tenant: Tenants, req: Requests, existing: Requests]
Subscription == [tenant: Tenants, plan: Prices, status: DOMAIN Follows]
TypeOK ==
  /\ tenant \in [Tenants -> TenantRow] /\ flight \in [Handlers -> {Idle} \cup Checkout \cup Notify]
  /\ customers \in [Customers -> Tenants \cup {None}]
  /\ sessions \subseteq [tenant: Tenants, plan: Prices]
  /\ subscriptions \in Seq(Subscription) /\ events \subseteq Subscription
  /\ paid \in [Tenants -> SUBSET Prices]

\* However late, often and out of order the events arrive, and however many
\* checkouts overlap: from the first event on, the pages show a tenant on a paid plan
\* only with an active subscription beside it, and only if one of its own to that plan
\* has been active, not merely created (settings.py:258); until then they show the
\* plan it was created with, which nobody paid.  An event of before a cancellation may
\* still come after it.  The billing portal the page links to is that of a customer
\* made for the tenant.
PlanWasPaid ==
  \A t \in Tenants :
    /\ \A page \in {BillingInfo(t), TenantSettings(t)} :
         page.plan \in CASE BillingInfo(t).subscription_status = None -> {CreatedOn[t]}
                         [] BillingInfo(t).subscription_status = "active" -> paid[t]
                         [] OTHER -> {"starter"}
    /\ LET c == BillingInfo(t).portal IN c # None => customers[c] = t
=============================================================================
