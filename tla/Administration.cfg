SPECIFICATION PartsSpec
CONSTANTS
  h1 = h1
  i3 = i3
  m1 = m1
  u1 = u1
  q1 = q1
  n1 = n1
  RateLimits <- LoginLimit
  RatePath = "login"
  RatePrefix <- LoginPrefix
  ApiProcesses = {x1, x2}
  Machines = {m1, m2}
  Issuer = m1
  TrustedKeys = {k1}
  OtherKeys = {k2}
  IssueDays = {0}
  LicenceTerm = 20
  MaxDay = 36
  RuleTenants = {"t1", "t2"}
  RuleHandlers = {h1, h2}
  RuleNames = {"pii"}
  Hooks = {w1}
  MaxRules = 2
  QueryUsers = {u1, u2}
  QueryAdmins = {u2}
  QueryIds = {q1, q2}
  QueryNames = {n1, n2}
  ExportIds = {e1}
  QueryHandlers = {h1, h2}
  MaxRuns = 3
  UsageTenants = {"t1", "t2"}
  UsagePlanOf <- PlansOf
  NodeKinds = {"RawFile", "RichFile"}
  UsageQueries = {"files_raw", "ai_enriched", "graph_edges"}
  NodeUnit = 600
  MaxNodes = 1
  PayingTenants = {"t1", "t2"}
  TenantNames = {"n"}
  StripeCustomers = {"c1", "c2"}
  StripePrices = {"pro"}
  SignupPlans <- PlansSent
  SettingsHandlers = {h1}
  NotifyChannels = {"slack"}
  NotifySecrets = {"x"}
  MaxSubscriptions = 1
  Tenants = {t1, t2}
  Emails = {e1, e2}
  UserIds = {i1, i2, i3}
  Handlers = {h1, h2}
  RoleNames = {"admin"}
  Founder = i1
  Founded = t1
  Host = e1
  Guest = e2
  Ops = {"signup", "login", "invite", "accept_invite", "remove", "update_profile",
    "create_scim_token", "configure_saml", "add_oidc", "scim_create", "scim_replace",
    "scim_patch", "scim_rename", "scim_delete", "scim_group_add", "scim_group_remove", "saml_acs", "oidc"}
CHECK_DEADLOCK FALSE
INVARIANTS
  AdmittedBounded InForce OwnRulesListed RunsCounted BillIsCounted PlanWasPaid
  PermissionsStayInTenant OneAccountPerAddress IssuedToActive
