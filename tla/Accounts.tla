------------------------------ MODULE Accounts ------------------------------
(***************************************************************************)
(* Local accounts: passwords, lockout, MFA, e-mail tokens, sessions and     *)
(* API keys (auth/local.py over the tables of db/models.py).                *)
(*                                                                         *)
(* A request is served in two steps, as get_db runs it: Arrive is what the  *)
(* handler SELECTs, one action per handler is what it decides from that     *)
(* and commits.  An HTTPException rolls everything back (Refuse).  With one *)
(* handler requests are serial; with two they overlap.                      *)
(***************************************************************************)
EXTENDS Naturals, FiniteSets

CONSTANTS Users, Passwords, Secrets, Codes, Ids, Handlers,
          MaxFailedAttempts,  \* MAX_FAILED_ATTEMPTS
          MaxRows             \* bound: rows in the four tables together

Absent == [gone |-> TRUE]
NoCode == "no code"

\* The rows.  `password` in a session is history: what the login verified.
LocalCredential == [password: Passwords, failed_attempts: 0..MaxFailedAttempts, locked: BOOLEAN]
MFAConfig == [secret: Secrets, backup_codes: SUBSET Codes, is_active: BOOLEAN]
UserSession == [user: Users, expired: BOOLEAN, revoked: BOOLEAN, password: Passwords]
MailedToken == [user: Users, used: BOOLEAN, expired: BOOLEAN]
APIKey == [user: Users, revoked: BOOLEAN]

VARIABLES
  cred,      \* LocalCredential per user
  mfa,       \* MFAConfig per user, Absent before the first enrolment
  session,   \* UserSession by id
  reset,     \* PasswordResetToken by id
  verify,    \* EmailVerificationToken by id
  apiKey,    \* APIKey by id
  verified,  \* User.email_verified
  bearer,    \* users whose JWT from signup, which names no session, is valid
  flight,    \* the request q each handler is serving, and the rows it read
  confirmed, \* history: the MFA secret a code was last checked against
  spent      \* history: what was accepted as a one-time proof of whom, and how often
vars == <<cred, mfa, session, reset, verify, apiKey, verified, bearer,
          flight, confirmed, spent>>
rest == <<apiKey, verified, bearer>>

-----------------------------------------------------------------------------
Idle == [op |-> "idle"]
\* The fields of a request that its endpoint reads: an account, a password, a
\* new password, a code, the id of a row.
LoginRequest == [op: {"login"}, user: Users, password: Passwords,
                 code: Secrets \cup Codes \cup {NoCode}]
Requests == LoginRequest
  \cup [op: {"forgot_password", "resend_verification", "enroll_mfa", "revoke_all_sessions",
             "create_api_key"}, user: Users]
  \cup [op: {"verify_email", "revoke_session", "revoke_api_key"}, user: Users, id: Ids]
  \cup [op: {"reset_password"}, user: Users, id: Ids, new: Passwords]
  \cup [op: {"change_password"}, user: Users, password: Passwords, new: Passwords]
  \cup [op: {"erase_my_data"}, user: Users, password: Passwords]
  \cup [op: {"verify_mfa_enrollment", "disable_mfa"}, user: Users, code: Secrets \cup Codes]

\* get_auth_context, local tokens: the signature and the expiry decide; the
\* session row, its revocation and the user's is_active are not looked at.
Bearer(u) == \/ u \in bearer
             \/ \E i \in Ids : /\ session[i] # Absent
                               /\ session[i].user = u /\ ~session[i].expired
Anonymous == {"login", "verify_email", "forgot_password", "reset_password"}

Arrive(h, q) ==
  /\ flight[h] = Idle
  /\ q.op \notin Anonymous => Bearer(q.user)
  /\ flight' = [flight EXCEPT ![h] = [op |-> q.op, q |-> q, cred |-> cred[q.user],
                                      mfa |-> mfa[q.user], reset |-> reset, verify |-> verify]]
  /\ UNCHANGED <<cred, mfa, session, reset, verify, rest, confirmed, spent>>

TotpOk(m, code) == code = m.secret
UsableBackup(m, code) == code \in m.backup_codes
ActiveMfa(f) == f.mfa # Absent /\ f.mfa.is_active
CodeOk(f) == TotpOk(f.mfa, f.q.code) \/ UsableBackup(f.mfa, f.q.code)
UsableAgain(token) == token # Absent /\ ~token.expired   \* Variant
Usable(token) == token # Absent /\ ~token.used /\ ~token.expired
Mine(t, f) == t[f.q.id] # Absent /\ t[f.q.id].user = f.q.user
Rows(t) == {i \in Ids : t[i] # Absent}
Full == Cardinality(Rows(session)) + Cardinality(Rows(reset)) + Cardinality(Rows(verify))
          + Cardinality(Rows(apiKey)) >= MaxRows

\* tasks/gdpr.py imports async_session, a name db/session.py does not have: the
\* ImportError answers 500 and nothing is queued.
ErasureQueue == FALSE
\* What a handler requires of the request and of the rows it read; otherwise
\* it raises an HTTPException or returns without a change.
LoginAccepted(f) == /\ ~f.cred.locked
                    /\ f.q.password = f.cred.password
                    /\ ActiveMfa(f) => CodeOk(f)
Accepts(f) ==
  CASE f.op = "login" -> LoginAccepted(f) /\ ~Full
    [] f.op = "forgot_password" -> ~Full
    [] f.op = "resend_verification" -> ~verified[f.q.user] /\ ~Full
    [] f.op = "verify_email" -> Usable(f.verify[f.q.id])
    [] f.op = "reset_password" -> Usable(f.reset[f.q.id])
    [] f.op = "change_password" -> f.q.password = f.cred.password
    [] f.op = "erase_my_data" -> f.q.password = f.cred.password /\ ErasureQueue
    [] f.op = "verify_mfa_enrollment" -> f.mfa # Absent /\ TotpOk(f.mfa, f.q.code)
    [] f.op = "disable_mfa" -> ActiveMfa(f) /\ CodeOk(f)
    [] f.op = "revoke_session" -> Mine(session, f)
    [] f.op = "revoke_api_key" -> Mine(apiKey, f)
    [] f.op = "create_api_key" -> ~Full
    [] OTHER -> TRUE

\* The handler of h runs to its commit, or nothing it did is kept.
Serve(h, op) == /\ flight[h].op = op /\ Accepts(flight[h])
                /\ flight' = [flight EXCEPT ![h] = Idle]
Refuse(h) == /\ flight[h] # Idle /\ ~Accepts(flight[h])
             /\ flight' = [flight EXCEPT ![h] = Idle]
             /\ UNCHANGED <<cred, mfa, session, reset, verify, rest, confirmed, spent>>

RevokeNewest(t, u) ==   \* Variant: LIMIT 1 left in the query
  [i \in Ids |-> IF t[i] # Absent /\ t[i].user = u /\ \A j \in Rows(t) : ~t[j].revoked => i = j
                 THEN [t[i] EXCEPT !.revoked = TRUE] ELSE t[i]]
Revoke(t, u) ==
  [i \in Ids |-> IF t[i] # Absent /\ t[i].user = u THEN [t[i] EXCEPT !.revoked = TRUE] ELSE t[i]]
Spend(u, x) == spent' = [spent EXCEPT ![<<u, x>>] = @ + 1]

-----------------------------------------------------------------------------
\* login: a refused attempt counts nothing, since the exception that answers
\* it rolls failed_attempts and locked_until back.
Login(h) == LET f == flight[h]
                u == f.q.user
                backup == ActiveMfa(f) /\ ~TotpOk(f.mfa, f.q.code)
            IN /\ Serve(h, "login")
               /\ cred' = [cred EXCEPT ![u].failed_attempts = 0, ![u].locked = FALSE]
               /\ \E i \in Ids \ Rows(session) :
                    session' = [session EXCEPT ![i] = [user |-> u, expired |-> FALSE,
                                  revoked |-> FALSE, password |-> f.q.password]]
               /\ IF backup   \* _use_backup_code writes the list that was read
                  THEN /\ mfa' = [mfa EXCEPT ![u].backup_codes = f.mfa.backup_codes \ {f.q.code}]
                       /\ Spend(u, f.q.code)
                  ELSE UNCHANGED <<mfa, spent>>
               /\ UNCHANGED <<reset, verify, rest, confirmed>>

\* A further token; the ones mailed before stay valid.
Token(u) == [user |-> u, used |-> FALSE, expired |-> FALSE]
ForgotPassword(h) ==
  /\ Serve(h, "forgot_password")
  /\ \E i \in Ids \ Rows(reset) : reset' = [reset EXCEPT ![i] = Token(flight[h].q.user)]
  /\ UNCHANGED <<cred, mfa, session, verify, rest, confirmed, spent>>
ResendVerification(h) ==
  /\ Serve(h, "resend_verification")
  /\ \E i \in Ids \ Rows(verify) : verify' = [verify EXCEPT ![i] = Token(flight[h].q.user)]
  /\ UNCHANGED <<cred, mfa, session, reset, rest, confirmed, spent>>
VerifyEmail(h) ==
  /\ Serve(h, "verify_email")
  /\ verify' = [verify EXCEPT ![flight[h].q.id].used = TRUE]
  /\ verified' = [verified EXCEPT ![verify[flight[h].q.id].user] = TRUE]
  /\ UNCHANGED <<cred, mfa, session, reset, apiKey, bearer, confirmed, spent>>

\* The password and the counters are written, and every unrevoked session of
\* the account is revoked, in the transaction that marks the token used.
ResetPassword(h) ==
  LET f == flight[h]
      u == reset[f.q.id].user
  IN /\ Serve(h, "reset_password")
     /\ reset' = [reset EXCEPT ![f.q.id].used = TRUE]
     /\ cred' = [cred EXCEPT ![u] = [password |-> f.q.new, failed_attempts |-> 0, locked |-> FALSE]]
     /\ session' = Revoke(session, u)
     /\ Spend(u, f.q.id)
     /\ UNCHANGED <<mfa, verify, rest, confirmed>>
\* change_password: "all other sessions" includes the caller's own.
ChangePassword(h) ==
  LET f == flight[h]
  IN /\ Serve(h, "change_password")
     /\ cred' = [cred EXCEPT ![f.q.user].password = f.q.new]
     /\ session' = Revoke(session, f.q.user)
     /\ UNCHANGED <<mfa, reset, verify, rest, confirmed, spent>>

\* enroll_mfa: a new secret and new codes, inactive until verified; an active
\* enrolment is overwritten without a code.
EnrollMFA(h) ==
  /\ Serve(h, "enroll_mfa")
  /\ \E s \in Secrets : mfa' = [mfa EXCEPT ![flight[h].q.user] =
                                  [secret |-> s, backup_codes |-> Codes, is_active |-> FALSE]]
  /\ spent' = [x \in DOMAIN spent |->
                 IF x[1] = flight[h].q.user /\ x[2] \in Codes THEN 0 ELSE spent[x]]
  /\ UNCHANGED <<cred, session, reset, verify, rest, confirmed>>
VerifyMFAEnrollment(h) ==
  /\ Serve(h, "verify_mfa_enrollment")
  /\ mfa' = [mfa EXCEPT ![flight[h].q.user].is_active = TRUE]
  /\ confirmed' = [confirmed EXCEPT ![flight[h].q.user] = flight[h].q.code]
  /\ UNCHANGED <<cred, session, reset, verify, rest, spent>>
DisableMFA(h) ==
  LET f == flight[h] IN
  /\ Serve(h, "disable_mfa")
  /\ IF TotpOk(f.mfa, f.q.code)
     THEN mfa' = [mfa EXCEPT ![f.q.user].is_active = FALSE] /\ UNCHANGED spent
     ELSE /\ mfa' = [mfa EXCEPT ![f.q.user].is_active = FALSE,
                                ![f.q.user].backup_codes = f.mfa.backup_codes \ {f.q.code}]
          /\ Spend(f.q.user, f.q.code)
  /\ UNCHANGED <<cred, session, reset, verify, rest, confirmed>>

\* list_sessions: what an account is shown of itself.
ListSessions(u) == {i \in Rows(session) : session[i].user = u /\ ~session[i].revoked /\ ~session[i].expired}

RevokeSession(h) ==
  /\ Serve(h, "revoke_session")
  /\ session' = [session EXCEPT ![flight[h].q.id].revoked = TRUE]
  /\ UNCHANGED <<cred, mfa, reset, verify, rest, confirmed, spent>>
RevokeAllSessions(h) ==
  /\ Serve(h, "revoke_all_sessions")
  /\ session' = Revoke(session, flight[h].q.user)
  /\ UNCHANGED <<cred, mfa, reset, verify, rest, confirmed, spent>>
CreateAPIKey(h) ==
  /\ Serve(h, "create_api_key")
  /\ \E i \in Ids \ Rows(apiKey) : apiKey' = [apiKey EXCEPT ![i] =
                                     [user |-> flight[h].q.user, revoked |-> FALSE]]
  /\ UNCHANGED <<cred, mfa, session, reset, verify, verified, bearer, confirmed, spent>>
RevokeAPIKey(h) ==
  /\ Serve(h, "revoke_api_key")
  /\ apiKey' = [apiKey EXCEPT ![flight[h].q.id].revoked = TRUE]
  /\ UNCHANGED <<cred, mfa, session, reset, verify, verified, bearer, confirmed, spent>>
\* Time: a JWT and its session row (24 h), a reset token (1 h), a verification
\* token (48 h), in any order.
Expire ==
  /\ \/ \E i \in Rows(session) : /\ ~session[i].expired
                                 /\ session' = [session EXCEPT ![i].expired = TRUE]
                                 /\ UNCHANGED <<reset, verify, bearer>>
     \/ \E i \in Rows(reset) : /\ Usable(reset[i])
                               /\ reset' = [reset EXCEPT ![i].expired = TRUE]
                               /\ UNCHANGED <<session, verify, bearer>>
     \/ \E i \in Rows(verify) : /\ Usable(verify[i])
                                /\ verify' = [verify EXCEPT ![i].expired = TRUE]
                                /\ UNCHANGED <<session, reset, bearer>>
     \/ \E u \in bearer : bearer' = bearer \ {u} /\ UNCHANGED <<session, reset, verify>>
  /\ UNCHANGED <<cred, mfa, apiKey, verified, flight, confirmed, spent>>

\* An account as signup leaves it: a credential, an unverified address with
\* one token in the mail, a JWT that names no session.
Init ==
  /\ cred \in [Users -> [password: Passwords, failed_attempts: {0}, locked: {FALSE}]]
  /\ mfa = [u \in Users |-> Absent]
  /\ session = [i \in Ids |-> Absent] /\ reset = session /\ apiKey = session /\ verify = session
  /\ verified = [u \in Users |-> FALSE] /\ bearer = Users
  /\ flight = [h \in Handlers |-> Idle]
  /\ confirmed = [u \in Users |-> NoCode]
  /\ spent = [x \in Users \X (Codes \cup Ids) |-> 0]

Handler(h) ==
  \/ Login(h) \/ ForgotPassword(h) \/ ResendVerification(h) \/ VerifyEmail(h)
  \/ ResetPassword(h) \/ ChangePassword(h) \/ EnrollMFA(h) \/ VerifyMFAEnrollment(h)
  \/ DisableMFA(h) \/ RevokeSession(h) \/ RevokeAllSessions(h) \/ CreateAPIKey(h)
  \/ RevokeAPIKey(h) \/ Refuse(h)
Next == Expire \/ \E h \in Handlers : Handler(h) \/ \E q \in Requests : Arrive(h, q)
Spec == Init /\ [][Next]_vars

-----------------------------------------------------------------------------
\* The rows of each table, what a handler holds of them, and what the histories
\* count.
Served == [op: {q.op : q \in Requests}, q: Requests,
           cred: LocalCredential, mfa: MFAConfig \cup {Absent},
           reset: [Ids -> MailedToken \cup {Absent}], verify: [Ids -> MailedToken \cup {Absent}]]
TypeOK ==
  /\ cred \in [Users -> LocalCredential] /\ mfa \in [Users -> MFAConfig \cup {Absent}]
  /\ session \in [Ids -> UserSession \cup {Absent}]
  /\ reset \in [Ids -> MailedToken \cup {Absent}] /\ verify \in [Ids -> MailedToken \cup {Absent}]
  /\ apiKey \in [Ids -> APIKey \cup {Absent}]
  /\ verified \in [Users -> BOOLEAN] /\ bearer \subseteq Users
  /\ flight \in [Handlers -> {Idle} \cup Served]
  /\ confirmed \in [Users -> Secrets \cup Codes \cup {NoCode}]
  /\ spent \in [Users \X (Codes \cup Ids) -> Nat]

\* A session that an account is shown as its own was opened with the password it
\* has now: "Invalidate all existing sessions" of reset_password (local.py:365),
\* and change_password.  It takes a login and a change of the password that do not
\* overlap.
SessionsFollowPassword ==
  \A u \in Users : \A i \in ListSessions(u) : session[i].password = cred[u].password

\* What proves an account's owner proves it once: an active second factor is the
\* one whose code was checked, since enroll_mfa deactivates the configuration it
\* overwrites; a reset token and a backup code are each accepted once.  It takes
\* requests that do not overlap: of two that do, both can read a token or a list of
\* codes before either has used it up (local.py:345-357, 721-728).
ActiveSecretConfirmed ==
  \A u \in Users : mfa[u] # Absent /\ mfa[u].is_active => confirmed[u] = mfa[u].secret
OneTimeProofs == \A x \in DOMAIN spent : spent[x] <= 1
ProofsHold == ActiveSecretConfirmed /\ OneTimeProofs

=============================================================================
