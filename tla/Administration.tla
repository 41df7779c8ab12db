--------------------------- MODULE Administration ---------------------------
(* Services of the platform that deal with tenants as customers: rate        *)
(* limits, licences, alert rules, saved queries, usage and billing.  They    *)
(* share no state that these properties see; each is an instance of its own  *)
(* module with its own parameters and variables.  What they promise is       *)
(* stated here once, for TLC (MCAdministration) and for the proofs           *)
(* (AdministrationProofs).                                                   *)
EXTENDS Integers

-----------------------------------------------------------------------------
(* The rate limiter                                                        *)
CONSTANTS RateLimits, RatePath, RatePrefix, ApiProcesses
VARIABLES rateEntries, rateAdmitted, rateWait, rateRefused
Limiter == INSTANCE RateLimiter WITH
  LIMITS <- RateLimits, Path <- RatePath, PrefixOf <- RatePrefix,
  Processes <- ApiProcesses, entries <- rateEntries,
  admitted <- rateAdmitted, wait <- rateWait, refused <- rateRefused

\* The rows of LIMITS are positive numbers.
RateAssumption == Limiter!Limit \in Nat /\ Limiter!Window \in Nat \ {0}
ASSUME RateAssumption

\* At no more instants of a window than the limit says are requests let through, and
\* no more of them by one process (rate_limit.py:87).
AdmittedBounded == Limiter!AdmittedBounded

-----------------------------------------------------------------------------
(* Licences                                                                *)
CONSTANTS Machines, Issuer, TrustedKeys, OtherKeys, IssueDays, LicenceTerm, MaxDay
VARIABLES today, host, licenceFile, licence, loadedOn
Keygen == INSTANCE Licensing WITH
  Issued <- IssueDays, Term <- LicenceTerm, file <- licenceFile, cached <- licence

\* Licences are issued on days and for a number of days.
LicenceAssumption == IssueDays \subseteq Nat /\ LicenceTerm \in Nat
ASSUME LicenceAssumption

\* The licence in force was acceptable when it was loaded, and does not end without
\* a warning (license.py:8, :19).
InForce == Keygen!InForce

-----------------------------------------------------------------------------
(* Alert rules and webhook endpoints                                       *)
CONSTANTS RuleTenants, RuleHandlers, RuleNames, Hooks, MaxRules
VARIABLES rules, installs, webhooks, installedFor, ownHooks
Alerts == INSTANCE AlertRules WITH
  Tenants <- RuleTenants, Handlers <- RuleHandlers, Names <- RuleNames, MaxRows <- MaxRules,
  rule <- rules, flight <- installs, hook <- webhooks, installed <- installedFor,
  hooks <- ownHooks

\* Installed alert templates and a tenant's own endpoints stay listed (alerts.py:64).
OwnRulesListed == Alerts!OwnRulesListed

-----------------------------------------------------------------------------
(* Saved queries, their runs and exports                                   *)
CONSTANTS QueryUsers, QueryAdmins, QueryIds, QueryNames, ExportIds, QueryHandlers, MaxRuns
VARIABLES queries, exports, exportTasks, exportFiles, queryFlight, queryRuns, runsAlone
Saved == INSTANCE SavedQueries WITH
  Users <- QueryUsers, Admins <- QueryAdmins, Ids <- QueryIds, Names <- QueryNames,
  Handlers <- QueryHandlers, query <- queries, export <- exports, tasks <- exportTasks,
  files <- exportFiles, flight <- queryFlight, runs <- queryRuns, alone <- runsAlone

\* Answered runs of a query that no other run overlaps are counted, failed ones are
\* not, and exports can be polled (queries.py:211-214, :334).
RunsCounted == Saved!RunsCounted

-----------------------------------------------------------------------------
(* Usage and the bill made of it                                           *)
CONSTANTS UsageTenants, UsagePlanOf, NodeKinds, UsageQueries, NodeUnit, MaxNodes
VARIABLES nodeCounts, relCounts, sharedDriver, usageQuery, usageTenant, usageFaulty,
          usageEnriched, bill
Usage == INSTANCE UsageBilling WITH
  Tenants <- UsageTenants, PlanOf <- UsagePlanOf, Kinds <- NodeKinds, Queries <- UsageQueries,
  Unit <- NodeUnit, graph <- nodeCounts, rels <- relCounts, driver <- sharedDriver,
  query <- usageQuery, whose <- usageTenant, faulty <- usageFaulty, enriched <- usageEnriched

\* Nodes are of the kinds that are counted or of others, and counted in units; every
\* tenant has a plan of PLANS.
UsageAssumption ==
  /\ NodeKinds \subseteq Usage!AllKinds /\ NodeUnit \in Nat
  /\ UsagePlanOf \in [UsageTenants -> DOMAIN Usage!PLANS]
ASSUME UsageAssumption

\* A bill rests on a real count and bills nothing twice (usage.py:227-239).
BillIsCounted == Usage!BillIsCounted

-----------------------------------------------------------------------------
(* Tenant settings and Stripe                                              *)
CONSTANTS PayingTenants, TenantNames, StripeCustomers, StripePrices, SignupPlans,
          SettingsHandlers, NotifyChannels, NotifySecrets, MaxSubscriptions
VARIABLES payingTenants, settingsFlight, stripeCustomers, checkoutSessions, subscriptions,
          stripeEvents, paidPlans
Stripe == INSTANCE TenantBilling WITH
  Tenants <- PayingTenants, Names <- TenantNames, Customers <- StripeCustomers,
  Prices <- StripePrices, CreatedOn <- SignupPlans, Handlers <- SettingsHandlers,
  Channels <- NotifyChannels, Secrets <- NotifySecrets, tenant <- payingTenants, flight <- settingsFlight,
  customers <- stripeCustomers, sessions <- checkoutSessions, events <- stripeEvents,
  paid <- paidPlans

\* From the first event on, a tenant is shown on a paid plan only if a subscription to
\* it was active (settings.py:258); until then, on the plan it was created with.
PlanWasPaid == Stripe!PlanWasPaid
=============================================================================
