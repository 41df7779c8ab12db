----------------------------- MODULE Directory ------------------------------
(***************************************************************************)
(* Who belongs to which tenant: sign-up, invitations, SCIM provisioning,    *)
(* SAML and OIDC just-in-time users, roles and their permissions            *)
(* (auth/local.py, auth/oidc.py, auth/saml.py, auth/scim.py, api/users.py,  *)
(* api/tenants.py, rbac/engine.py).                                         *)
(*                                                                         *)
(* A request reads (Arrive) and commits (its handler) in two steps, as in   *)
(* Accounts; a constraint of the database is checked at the commit.         *)
(***************************************************************************)
EXTENDS Naturals, FiniteSets

CONSTANTS Tenants, Emails, UserIds, Handlers,
          RoleNames,      \* the built-in roles in play, "admin" among them
          Founder, Founded, Host, Guest,  \* who signed up first, where, and
                          \* the addresses of that user and of one invited guest
          Ops             \* bound: the operations in play

Absent == [gone |-> TRUE]
Nobody == "nobody"        \* no external_id

\* Column sets that matter here: `external_id` is the IdP's subject, of which
\* there is one per address; `local` says that a LocalCredential exists.
User == [tenant: Tenants, email: Emails, external_id: Emails \cup {Nobody},
         is_active: BOOLEAN, local: BOOLEAN]
Role == [tenant: Tenants, name: RoleNames]                     \* uq_tenant_role_name
RoleAssignment == [tenant: Tenants, user: UserIds, role: Role]
UserInvite == [tenant: Tenants, email: Emails, role: RoleNames]

VARIABLES
  tenant,     \* tenants that exist
  user,       \* User by id
  role, assignment,
  invite,     \* UserInvites not used
  scim,       \* SCIMConfig: tenants with a provisioning token
  saml, oidc, \* SAMLConfig, OIDCConfig: tenants with an active configuration
  jwt,        \* users that hold an unexpired local JWT
  issued,     \* history: the users the last step issued one to
  flight      \* the request q each handler is serving, and the rows it read
vars == <<tenant, user, role, assignment, invite, scim, saml, oidc, jwt, issued, flight>>

Ids == {i \in UserIds : user[i] # Absent}
Members(us, t, e) == {i \in UserIds : us[i] # Absent /\ us[i].tenant = t /\ us[i].email = e}

-----------------------------------------------------------------------------
(* rbac/engine.py                                                          *)
BUILTIN_PERMISSIONS == [admin |-> {"admin:*"},
  analyst |-> {"graph:read", "graph:query", "mounts:read", "mounts:index", "actions:propose",
               "scanners:read", "users:read"},
  viewer |-> {"graph:read", "mounts:read", "scanners:read"},
  agent |-> {"scanners:register", "scanners:read", "graph:read"}]
\* admin:* stands for the permissions some built-in role names, not for every
\* permission an endpoint may ask for; _is_allowed lets it pass them all.
ExpandPermissions(ps) ==
  IF "admin:*" \in ps THEN ps \cup UNION {BUILTIN_PERMISSIONS[n] : n \in DOMAIN BUILTIN_PERMISSIONS}
  ELSE ps
\* load_user_permissions: the assignments of this user in this tenant.
RolesAnywhere(u, t) == {a.role : a \in {x \in assignment : x.user = u}}   \* Variant
RolesOf(u, t) == {a.role : a \in {x \in assignment : x.user = u /\ x.tenant = t}}
LoadUserPermissions(u, t) ==
  ExpandPermissions(UNION {BUILTIN_PERMISSIONS[r.name] : r \in RolesOf(u, t)})
IsAllowed(ps, required, wildcard) == required \in ps \/ wildcard \in ps \/ "admin:*" \in ps

\* assign_builtin_role: the role is created when the tenant lacks it, the
\* assignment when the user lacks it.
Granted(u, t, name) ==
  LET r == [tenant |-> t, name |-> name]
  IN role' = role \cup {r} /\ assignment' = assignment \cup {[tenant |-> t, user |-> u, role |-> r]}

-----------------------------------------------------------------------------
(* Requests.  `by` is the user whose JWT came with it (get_auth_context     *)
(* takes the tenant from that token, and permissions from the table);       *)
(* a SCIM request carries its tenant's provisioning token instead.          *)
Idle == [op |-> "idle"]
Requests ==
       [op: {"signup"}, tenant: Tenants, email: Emails]
  \cup [op: {"login"}, email: Emails]
  \cup [op: {"invite"}, by: UserIds, email: Emails]
  \cup [op: {"accept_invite"}, invite: UserInvite]
  \cup [op: {"remove"}, by: UserIds, user: UserIds]
  \cup [op: {"update_profile"}, by: UserIds, email: Emails]
  \cup [op: {"create_scim_token", "configure_saml", "add_oidc"}, by: UserIds]
  \cup [op: {"scim_create"}, tenant: Tenants, email: Emails, role: RoleNames, active: BOOLEAN]
  \cup [op: {"scim_replace"}, tenant: Tenants, user: UserIds, email: Emails, active: BOOLEAN]
  \cup [op: {"scim_patch"}, tenant: Tenants, user: UserIds, active: BOOLEAN]
  \cup [op: {"scim_rename"}, tenant: Tenants, user: UserIds, email: Emails]
  \cup [op: {"scim_delete"}, tenant: Tenants, user: UserIds]
  \cup [op: {"scim_group_add", "scim_group_remove"}, tenant: Tenants, user: UserIds, role: RoleNames]
  \cup [op: {"saml_acs"}, tenant: Tenants, email: Emails, role: RoleNames]
  \cup [op: {"oidc"}, tenant: Tenants, email: Emails]

Scim == {"scim_create", "scim_replace", "scim_patch", "scim_rename", "scim_delete",
         "scim_group_add", "scim_group_remove"}
\* admin:*, or for invite users:write, which no built-in role has.
AdminOnly == {"invite", "remove", "create_scim_token", "configure_saml", "add_oidc"}

\* The dependency of the endpoint lets the request through.
Authorized(q) ==
  /\ "by" \in DOMAIN q => q.by \in jwt /\ user[q.by] # Absent
  /\ q.op \in AdminOnly => IsAllowed(LoadUserPermissions(q.by, user[q.by].tenant), "admin:*", "admin:*")
  /\ q.op \in Scim => q.tenant \in scim           \* get_scim_tenant
  /\ q.op = "saml_acs" => q.tenant \in saml       \* _get_saml_config
  /\ q.op = "oidc" => q.tenant \in oidc           \* an active config of that issuer
\* _issue_jwt signs a token, also for a user that holds one.
Issue(S) == issued' = S /\ jwt' = jwt \cup S
NoToken == issued' = {} /\ UNCHANGED jwt
Arrive(h, q) ==
  /\ flight[h] = Idle /\ q.op \in Ops /\ Authorized(q)
  /\ flight' = [flight EXCEPT ![h] = [op |-> q.op, q |-> q, users |-> user, invites |-> invite]]
  /\ NoToken /\ UNCHANGED <<tenant, user, role, assignment, invite, scim, saml, oidc>>

Found(f, i) == f.users[i] # Absent /\ f.users[i].tenant = f.q.tenant
Registered(f) == \E i \in UserIds : f.users[i] # Absent /\ f.users[i].email = f.q.email
KnownSubject(f) == {i \in UserIds : Found(f, i) /\ f.users[i].external_id = f.q.email}
\* login finds one active user with the address, over all tenants;
\* scalar_one_or_none raises when there are two.
LoginMatches(us, e) == {i \in UserIds : us[i] # Absent /\ us[i].email = e /\ us[i].is_active}
\* uq_tenant_email, when a user of tenant t takes address e: nobody has it, or the
\* user itself (own), who is nobody yet when the user is new.
AddressFreeWhenRead(own, t, e) == TRUE   \* Variant: the table has no uq_tenant_email
AddressFree(own, t, e) == Members(user, t, e) \subseteq own
\* The columns of a row that a commit writes: those that were assigned something
\* else than what the handler read.
Moves(f, i, e) == e # f.users[i].email => AddressFree({i}, user[i].tenant, e)
NewEmail(f, i, e) == IF e = f.users[i].email THEN user[i].email ELSE e
NewExternal(f, i, ext) == IF ext = f.users[i].external_id THEN user[i].external_id ELSE ext
NewActive(f, i, active) == IF active = f.users[i].is_active THEN user[i].is_active ELSE active
\* users.py:90 imports send_invitation_email, a name auth/email.py does not
\* have: the ImportError rolls the invitation back.
InvitationMailer == FALSE
InviteStored(f) == Members(f.users, f.users[f.q.by].tenant, f.q.email) = {} /\ InvitationMailer

\* What a handler requires of what it read, and the database of the commit.
Accepts(f) ==
  CASE f.op = "signup" -> f.q.tenant \notin tenant /\ ~Registered(f) /\ Ids # UserIds
    [] f.op = "login" -> \E i \in UserIds : LoginMatches(f.users, f.q.email) = {i} /\ f.users[i].local
    [] f.op = "invite" -> InviteStored(f)
    [] f.op = "accept_invite" -> /\ f.q.invite \in f.invites /\ Ids # UserIds
                                 /\ AddressFree({}, f.q.invite.tenant, f.q.invite.email)
    [] f.op = "remove" -> f.q.by # f.q.user
    [] f.op = "update_profile" -> Moves(f, f.q.by, f.q.email)
    [] f.op = "scim_create" -> /\ Members(f.users, f.q.tenant, f.q.email) = {} /\ Ids # UserIds
                               /\ AddressFree({}, f.q.tenant, f.q.email)
    [] f.op \in {"scim_replace", "scim_rename"} -> Found(f, f.q.user) /\ Moves(f, f.q.user, f.q.email)
    [] f.op = "scim_patch" -> Found(f, f.q.user)
    [] f.op = "scim_group_add" -> [tenant |-> f.q.tenant, name |-> f.q.role] \in role /\ f.q.user \in Ids
    [] f.op = "scim_group_remove" -> [tenant |-> f.q.tenant, name |-> f.q.role] \in role
    [] f.op = "saml_acs" -> Members(f.users, f.q.tenant, f.q.email) = {} =>
                              Ids # UserIds /\ AddressFree({}, f.q.tenant, f.q.email)
    [] f.op = "oidc" -> KnownSubject(f) = {} =>
                          Ids # UserIds /\ AddressFree({}, f.q.tenant, f.q.email)
    [] OTHER -> TRUE
Serve(h, op) == /\ flight[h].op = op /\ Accepts(flight[h])
                /\ flight' = [flight EXCEPT ![h] = Idle]
Refuse(h) == /\ flight[h] # Idle /\ ~Accepts(flight[h])
             /\ flight' = [flight EXCEPT ![h] = Idle]
             /\ NoToken /\ UNCHANGED <<tenant, user, role, assignment, invite, scim, saml, oidc>>

NewUser(i, t, e, ext, active, local) ==
  user' = [user EXCEPT ![i] = [tenant |-> t, email |-> e, external_id |-> ext,
                               is_active |-> active, local |-> local]]

-----------------------------------------------------------------------------
(* auth/local.py, api/users.py, api/tenants.py                             *)
Signup(h) ==
  LET f == flight[h] IN
  /\ Serve(h, "signup")
  /\ tenant' = tenant \cup {f.q.tenant}
  /\ \E i \in UserIds \ Ids : /\ NewUser(i, f.q.tenant, f.q.email, Nobody, TRUE, TRUE)
                              /\ Granted(i, f.q.tenant, "admin")
                              /\ Issue({i})
  /\ UNCHANGED <<invite, scim, saml, oidc>>
\* create_tenant makes the tenant and its built-in roles, and nobody in it.
CreateTenant ==
  \E t \in Tenants \ tenant :
    /\ tenant' = tenant \cup {t}
    /\ role' = role \cup {[tenant |-> t, name |-> n] : n \in RoleNames}
    /\ NoToken /\ UNCHANGED <<user, assignment, invite, scim, saml, oidc, flight>>
Login(h) ==
  /\ Serve(h, "login")
  /\ Issue(LoginMatches(flight[h].users, flight[h].q.email))
  /\ UNCHANGED <<tenant, user, role, assignment, invite, scim, saml, oidc>>
AcceptInvite(h) ==
  LET v == flight[h].q.invite IN
  /\ Serve(h, "accept_invite")
  /\ \E i \in UserIds \ Ids : /\ NewUser(i, v.tenant, v.email, Nobody, TRUE, TRUE)
                              /\ Granted(i, v.tenant, v.role)
                              /\ Issue({i})
  /\ invite' = invite \ {v}
  /\ UNCHANGED <<tenant, scim, saml, oidc>>
RemoveUser(h) ==   \* in the caller's tenant, and the row stays
  LET f == flight[h] IN
  /\ Serve(h, "remove")
  /\ user' = IF user[f.q.user] # Absent /\ user[f.q.user].tenant = user[f.q.by].tenant
             THEN [user EXCEPT ![f.q.user].is_active = FALSE] ELSE user
  /\ NoToken /\ UNCHANGED <<tenant, role, assignment, invite, scim, saml, oidc>>
UpdateProfile(h) ==
  /\ Serve(h, "update_profile")
  /\ LET f == flight[h]
     IN user' = [user EXCEPT ![f.q.by].email = NewEmail(f, f.q.by, f.q.email)]
  /\ NoToken /\ UNCHANGED <<tenant, role, assignment, invite, scim, saml, oidc>>

(* auth/scim.py                                                            *)
CreateScimToken(h) ==   \* older tokens of the tenant are deactivated
  /\ Serve(h, "create_scim_token")
  /\ scim' = scim \cup {user[flight[h].q.by].tenant}
  /\ NoToken /\ UNCHANGED <<tenant, user, role, assignment, invite, saml, oidc>>
CreateScimUser(h) ==
  LET f == flight[h] IN
  /\ Serve(h, "scim_create")
  /\ \E i \in UserIds \ Ids, ext \in {f.q.email, Nobody} :
       NewUser(i, f.q.tenant, f.q.email, ext, f.q.active, FALSE) /\ Granted(i, f.q.tenant, f.q.role)
  /\ NoToken /\ UNCHANGED <<tenant, invite, scim, saml, oidc>>
\* PUT: `active` defaults to TRUE, so a replacement without it reactivates; an
\* externalId it does not name stays.
ReplaceScimUser(h) ==
  LET f == flight[h] IN
  /\ Serve(h, "scim_replace")
  /\ \E ext \in {f.users[f.q.user].external_id, f.q.email} :
       user' = [user EXCEPT ![f.q.user].email = NewEmail(f, f.q.user, f.q.email),
                            ![f.q.user].is_active = NewActive(f, f.q.user, f.q.active),
                            ![f.q.user].external_id = NewExternal(f, f.q.user, ext)]
  /\ NoToken /\ UNCHANGED <<tenant, role, assignment, invite, scim, saml, oidc>>
\* PATCH: sessions and API keys of a user it deactivates are revoked too; the JWTs
\* live on.
PatchScimUser(h) ==
  LET f == flight[h] IN
  /\ \/ /\ Serve(h, "scim_patch")
        /\ user' = [user EXCEPT ![f.q.user].is_active = NewActive(f, f.q.user, f.q.active)]
     \/ /\ Serve(h, "scim_rename")
        /\ user' = [user EXCEPT ![f.q.user].email = NewEmail(f, f.q.user, f.q.email)]
  /\ NoToken /\ UNCHANGED <<tenant, role, assignment, invite, scim, saml, oidc>>
DeleteScimUser(h) ==
  LET f == flight[h] IN
  /\ Serve(h, "scim_delete")
  /\ user' = IF user[f.q.user] # Absent /\ user[f.q.user].tenant = f.q.tenant
             THEN [user EXCEPT ![f.q.user].is_active = FALSE] ELSE user
  /\ NoToken /\ UNCHANGED <<tenant, role, assignment, invite, scim, saml, oidc>>
\* Group members are not looked up in the tenant: any user id is accepted.
PatchScimGroup(h) ==
  LET f == flight[h]
      r == [tenant |-> f.q.tenant, name |-> f.q.role]
  IN /\ \/ Serve(h, "scim_group_add") /\ Granted(f.q.user, f.q.tenant, f.q.role)
        \/ /\ Serve(h, "scim_group_remove")
           /\ assignment' = {a \in assignment : ~(a.user = f.q.user /\ a.role = r)}
           /\ UNCHANGED role
     /\ NoToken /\ UNCHANGED <<tenant, user, invite, scim, saml, oidc>>

(* auth/saml.py, api/auth.py, auth/oidc.py                                 *)
ConfigureSaml(h) ==
  /\ Serve(h, "configure_saml")
  /\ saml' = saml \cup {user[flight[h].q.by].tenant}
  /\ NoToken /\ UNCHANGED <<tenant, user, role, assignment, invite, scim, oidc>>
AddOidcConfig(h) ==
  /\ Serve(h, "add_oidc")
  /\ oidc' = oidc \cup {user[flight[h].q.by].tenant}
  /\ NoToken /\ UNCHANGED <<tenant, user, role, assignment, invite, scim, saml>>
\* Variant: the member is signed in as it was found.
SamlAcsAsFound(h) ==
  LET f == flight[h]
      known == Members(f.users, f.q.tenant, f.q.email)
  IN /\ Serve(h, "saml_acs")
     /\ \/ \E i \in known : Issue({i}) /\ UNCHANGED <<user, role, assignment>>
        \/ /\ known = {}
           /\ \E i \in UserIds \ Ids : /\ NewUser(i, f.q.tenant, f.q.email, Nobody, TRUE, FALSE)
                                       /\ Granted(i, f.q.tenant, f.q.role)
                                       /\ Issue({i})
     /\ UNCHANGED <<tenant, invite, scim, saml, oidc>>
\* saml_acs: a member is found by address and made active again; a stranger is
\* created with the role its groups map to.
SamlAcs(h) ==
  LET f == flight[h]
      known == Members(f.users, f.q.tenant, f.q.email)
  IN /\ Serve(h, "saml_acs")
     /\ \/ \E i \in known : /\ user' = [user EXCEPT ![i].is_active = NewActive(f, i, TRUE)]
                            /\ Issue({i}) /\ UNCHANGED <<role, assignment>>
        \/ /\ known = {}
           /\ \E i \in UserIds \ Ids : /\ NewUser(i, f.q.tenant, f.q.email, Nobody, TRUE, FALSE)
                                       /\ Granted(i, f.q.tenant, f.q.role)
                                       /\ Issue({i})
     /\ UNCHANGED <<tenant, invite, scim, saml, oidc>>
\* get_auth_context, OIDC tokens: the subject is looked up and created at its
\* first login, without a role; is_active is not looked at.
OidcLogin(h) ==
  LET f == flight[h] IN
  /\ Serve(h, "oidc")
  /\ IF KnownSubject(f) # {} THEN UNCHANGED user
     ELSE \E i \in UserIds \ Ids : NewUser(i, f.q.tenant, f.q.email, f.q.email, TRUE, FALSE)
  /\ NoToken /\ UNCHANGED <<tenant, role, assignment, invite, scim, saml, oidc>>

-----------------------------------------------------------------------------
\* A tenant with its founder and an invitation left by an earlier release.
Init ==
  LET admin == [tenant |-> Founded, name |-> "admin"] IN
  /\ tenant = {Founded} /\ role = {admin}
  /\ user = [i \in UserIds |-> IF i # Founder THEN Absent ELSE
               [tenant |-> Founded, email |-> Host, external_id |-> Nobody,
                is_active |-> TRUE, local |-> TRUE]]
  /\ assignment = {[tenant |-> Founded, user |-> Founder, role |-> admin]}
  /\ \E r \in RoleNames : invite = {[tenant |-> Founded, email |-> Guest, role |-> r]}
  /\ scim = {} /\ saml = {} /\ oidc = {} /\ jwt = {Founder} /\ issued = {}
  /\ flight = [h \in Handlers |-> Idle]
Handler(h) ==
  \/ Signup(h) \/ Login(h) \/ AcceptInvite(h) \/ RemoveUser(h) \/ UpdateProfile(h)
  \/ CreateScimToken(h) \/ CreateScimUser(h) \/ ReplaceScimUser(h) \/ PatchScimUser(h)
  \/ DeleteScimUser(h) \/ PatchScimGroup(h) \/ ConfigureSaml(h) \/ AddOidcConfig(h)
  \/ SamlAcs(h) \/ OidcLogin(h) \/ Refuse(h)
Next == CreateTenant \/ \E h \in Handlers : Handler(h) \/ \E q \in Requests : Arrive(h, q)
Spec == Init /\ [][Next]_vars

-----------------------------------------------------------------------------
\* The rows of each table, and what a handler holds of them.
Served == [op: {q.op : q \in Requests}, q: Requests, users: [UserIds -> User \cup {Absent}],
           invites: SUBSET UserInvite]
TypeOK ==
  /\ tenant \subseteq Tenants /\ user \in [UserIds -> User \cup {Absent}]
  /\ role \subseteq Role /\ assignment \subseteq RoleAssignment /\ invite \subseteq UserInvite
  /\ scim \subseteq Tenants /\ saml \subseteq Tenants /\ oidc \subseteq Tenants
  /\ jwt \subseteq Ids /\ issued \subseteq jwt /\ flight \in [Handlers -> {Idle} \cup Served]

\* What a user may do follows from roles of its own tenant, although SCIM
\* groups accept members of any tenant (scim.py:292-297): load_user_permissions
\* looks at the assignments of the token's tenant.
PermissionsStayInTenant ==
  \A u \in Ids : \A r \in RolesOf(u, user[u].tenant) : r.tenant = user[u].tenant

\* One account per address and tenant, whatever the order in which sign-up,
\* invitations, SCIM, SAML, OIDC and profile changes read and write: what a
\* handler looked up may be stale when it commits (scim.py:147-151, users.py:131,
\* saml.py:128-152).
OneAccountPerAddress ==
  \A i, j \in Ids : user[i].tenant = user[j].tenant /\ user[i].email = user[j].email => i = j

\* A local JWT is issued to a user that is active when it is issued, one that is
\* issued again too (login, an assertion for a member found): who was removed gets
\* a new one only where the code reactivates the row.  Of requests that come one
\* at a time: a removal that commits between what login read and its own commit is
\* not seen by it (local.py:189-270).
IssuedToActive == \A i \in issued : user[i].is_active
=============================================================================
