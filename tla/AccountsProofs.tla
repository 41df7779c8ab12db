--------------------------- MODULE AccountsProofs ---------------------------
(* Theorems about Accounts: the types for any number of handlers; what the   *)
(* sessions and one-time proofs promise where a single handler serves the    *)
(* requests, one after the other.                                            *)
EXTENDS Accounts, TLAPS

(* Rows are never deleted: what a handler has read is still there.           *)
RowsPersist ==
    \A h \in Handlers :
        flight[h] # Idle =>
            /\ flight[h].op = flight[h].q.op
            /\ flight[h].mfa # Absent => mfa[flight[h].q.user] # Absent
            /\ \A i \in Ids : /\ flight[h].reset[i] # Absent => reset[i] # Absent
                              /\ flight[h].verify[i] # Absent => verify[i] # Absent

(* What a handler has read is still true, but that a token may have expired. *)
ReadIsFresh ==
    \A h \in Handlers :
        flight[h] # Idle =>
            /\ flight[h].cred = cred[flight[h].q.user]
            /\ flight[h].mfa = mfa[flight[h].q.user]
            /\ \A i \in Ids : Usable(flight[h].reset[i]) => ~reset[i].used

(* What can still be accepted has not been; what was accepted was so once.   *)
UnusedUnspent ==
    /\ \A u \in Users : mfa[u] # Absent => \A c \in mfa[u].backup_codes : spent[<<u, c>>] = 0
    /\ \A i \in Ids : \A u \in Users : reset[i] = Absent \/ ~reset[i].used => spent[<<u, i>>] = 0

TInv == TypeOK /\ RowsPersist /\ MaxFailedAttempts \in Nat

IInv ==
    /\ TInv /\ ReadIsFresh /\ UnusedUnspent
    /\ SessionsFollowPassword /\ ActiveSecretConfirmed /\ OneTimeProofs
----------------------------------------------------------------------------
(* Lemmas *)

(* The fields a request has follow from its operation.                       *)
LEMMA RequestFields ==
    ASSUME NEW q \in Requests
    PROVE  /\ q.user \in Users
           /\ q.op # "idle"
           /\ q.op \in {"verify_email", "reset_password", "revoke_session", "revoke_api_key"} => q.id \in Ids
           /\ q.op \in {"reset_password", "change_password"} => q.new \in Passwords
           /\ q.op = "login" => q.password \in Passwords
           /\ q.op \in {"verify_mfa_enrollment", "disable_mfa"} => q.code \in Secrets \cup Codes
           /\ q.op = "login" => q.code \in Secrets \cup Codes \cup {NoCode}
BY DEF Requests, LoginRequest

(* Rows are told from Absent by their fields.                                *)
LEMMA RowsArePresent ==
    /\ Absent \notin UserSession /\ Absent \notin MailedToken
    /\ Absent \notin APIKey /\ Absent \notin MFAConfig
    /\ \A f \in Served : f # Idle
<1>1. Absent \notin UserSession /\ Absent \notin MailedToken
    BY DEF Absent, UserSession, MailedToken
<1>2. Absent \notin APIKey /\ Absent \notin MFAConfig
    BY DEF Absent, APIKey, MFAConfig
<1>3. \A f \in Served : f.op # "idle"
    BY RequestFields DEF Served
<1> QED
    BY <1>1, <1>2, <1>3 DEF Idle

(* Revoked sessions are sessions.                                            *)
LEMMA RevokeType ==
    ASSUME NEW t \in [Ids -> UserSession \cup {Absent}], NEW u
    PROVE  /\ Revoke(t, u) \in [Ids -> UserSession \cup {Absent}]
           /\ \A i \in Ids : t[i] # Absent =>
                 /\ Revoke(t, u)[i] # Absent
                 /\ Revoke(t, u)[i].user = t[i].user /\ Revoke(t, u)[i].password = t[i].password
                 /\ Revoke(t, u)[i].expired = t[i].expired
                 /\ Revoke(t, u)[i].revoked = (t[i].user = u \/ t[i].revoked)
           /\ \A i \in Ids : t[i] = Absent => Revoke(t, u)[i] = Absent
<1> DEFINE R == Revoke(t, u)
<1>1. ASSUME NEW i \in Ids, t[i] # Absent
      PROVE  /\ R[i] \in UserSession /\ R[i] # Absent
             /\ R[i].user = t[i].user /\ R[i].password = t[i].password
             /\ R[i].expired = t[i].expired
             /\ R[i].revoked = (t[i].user = u \/ t[i].revoked)
    <2>1. t[i] \in UserSession
        BY <1>1
    <2>2. CASE t[i].user = u
        <3>1. R[i] = [t[i] EXCEPT !.revoked = TRUE]
            BY <1>1, <2>2 DEF Revoke
        <3>2. [t[i] EXCEPT !.revoked = TRUE] \in UserSession
            BY <2>1, Zenon DEF UserSession
        <3>3. /\ R[i].user = t[i].user /\ R[i].password = t[i].password
              /\ R[i].expired = t[i].expired /\ R[i].revoked = TRUE
            BY <2>1, <3>1 DEF UserSession
        <3> QED
            BY <2>2, <3>1, <3>2, <3>3, RowsArePresent
    <2>3. CASE t[i].user # u
        <3>1. R[i] = t[i]
            BY <1>1, <2>3 DEF Revoke
        <3>2. t[i].revoked \in BOOLEAN
            BY <2>1 DEF UserSession
        <3> QED
            BY <1>1, <2>1, <2>3, <3>1, <3>2
    <2> QED
        BY <2>2, <2>3
<1>2. ASSUME NEW i \in Ids, t[i] = Absent PROVE R[i] = Absent
    BY <1>2 DEF Revoke
<1>3. R \in [Ids -> UserSession \cup {Absent}]
    <2>1. \A i \in Ids : R[i] \in UserSession \cup {Absent}
        BY <1>1, <1>2
    <2>2. R = [i \in Ids |-> R[i]]
        BY DEF Revoke
    <2> QED
        BY <2>1, <2>2
<1> QED
    BY <1>1, <1>2, <1>3

(* What a handler is serving.                                                *)
LEMMA InFlight ==
    ASSUME TInv, NEW h \in Handlers, flight[h] # Idle
    PROVE  /\ flight[h] \in Served /\ flight[h].q \in Requests /\ flight[h].op = flight[h].q.op
           /\ flight[h].q.user \in Users /\ flight[h].cred \in LocalCredential
           /\ flight[h].mfa \in MFAConfig \cup {Absent}
           /\ flight[h].mfa # Absent =>
                 /\ flight[h].mfa \in MFAConfig
                 /\ mfa[flight[h].q.user] \in MFAConfig
           /\ \A i \in Ids :
                 /\ flight[h].reset[i] # Absent =>
                       flight[h].reset[i] \in MailedToken /\ reset[i] \in MailedToken
                 /\ flight[h].verify[i] # Absent =>
                       flight[h].verify[i] \in MailedToken /\ verify[i] \in MailedToken
<1>1. flight[h] \in Served
    BY DEF TInv, TypeOK
<1>2. /\ flight[h].q \in Requests /\ flight[h].cred \in LocalCredential
      /\ flight[h].mfa \in MFAConfig \cup {Absent}
      /\ flight[h].reset \in [Ids -> MailedToken \cup {Absent}]
      /\ flight[h].verify \in [Ids -> MailedToken \cup {Absent}]
    BY <1>1 DEF Served
<1>3. flight[h].q.user \in Users
    BY <1>2, RequestFields
<1>4. /\ mfa \in [Users -> MFAConfig \cup {Absent}]
      /\ reset \in [Ids -> MailedToken \cup {Absent}]
      /\ verify \in [Ids -> MailedToken \cup {Absent}]
    BY DEF TInv, TypeOK
<1>5. /\ flight[h].op = flight[h].q.op
      /\ flight[h].mfa # Absent => mfa[flight[h].q.user] # Absent
      /\ \A i \in Ids : /\ flight[h].reset[i] # Absent => reset[i] # Absent
                        /\ flight[h].verify[i] # Absent => verify[i] # Absent
    BY DEF TInv, RowsPersist
<1> QED
    BY <1>1, <1>2, <1>3, <1>4, <1>5
(* A handler that ends leaves rows that the others read where they are.      *)
LEMMA HandlerEnds ==
    ASSUME TInv, NEW h \in Handlers, flight' = [flight EXCEPT ![h] = Idle],
           \A u \in Users : mfa[u] # Absent => mfa'[u] # Absent,
           \A i \in Ids : /\ reset[i] # Absent => reset'[i] # Absent
                          /\ verify[i] # Absent => verify'[i] # Absent
    PROVE  /\ flight' \in [Handlers -> {Idle} \cup Served]
           /\ RowsPersist'
<1>1. flight \in [Handlers -> {Idle} \cup Served]
    BY DEF TInv, TypeOK
<1>2. flight' \in [Handlers -> {Idle} \cup Served]
    BY <1>1
<1>3. \A g \in Handlers : flight'[g] # Idle => flight'[g] = flight[g] /\ flight[g] # Idle
    BY <1>1
<1> QED
    BY <1>2, <1>3, InFlight DEF TInv, RowsPersist

(* A row that changes, and is neither lost nor made up.                      *)
LEMMA RowChanged ==
    ASSUME NEW I, NEW R, NEW t \in [I -> R], NEW i \in I, NEW row \in R, row # Absent
    PROVE  /\ [t EXCEPT ![i] = row] \in [I -> R]
           /\ \A j \in I : [t EXCEPT ![i] = row][j] = IF j = i THEN row ELSE t[j]
           /\ \A j \in I : t[j] # Absent => [t EXCEPT ![i] = row][j] # Absent
OBVIOUS

(* A boolean column of a row is set.                                         *)
LEMMA ColumnsSet ==
    ASSUME NEW b \in BOOLEAN
    PROVE  /\ \A r \in UserSession :
                 /\ [r EXCEPT !.revoked = b] \in UserSession /\ [r EXCEPT !.expired = b] \in UserSession
           /\ \A r \in MailedToken :
                 /\ [r EXCEPT !.used = b] \in MailedToken /\ [r EXCEPT !.expired = b] \in MailedToken
           /\ \A r \in APIKey : [r EXCEPT !.revoked = b] \in APIKey
           /\ \A r \in MFAConfig : [r EXCEPT !.is_active = b] \in MFAConfig
<1>1. \A r \in UserSession : /\ [r EXCEPT !.revoked = b] \in UserSession
                             /\ [r EXCEPT !.expired = b] \in UserSession
    BY Zenon DEF UserSession
<1>2. \A r \in MailedToken : /\ [r EXCEPT !.used = b] \in MailedToken
                             /\ [r EXCEPT !.expired = b] \in MailedToken
    BY Zenon DEF MailedToken
<1>3. \A r \in APIKey : [r EXCEPT !.revoked = b] \in APIKey
    BY Zenon DEF APIKey
<1>4. \A r \in MFAConfig : [r EXCEPT !.is_active = b] \in MFAConfig
    BY Zenon DEF MFAConfig
<1> QED
    BY <1>1, <1>2, <1>3, <1>4

(* Codes are taken from a configuration.                                     *)
LEMMA CodesTaken ==
    ASSUME NEW m \in MFAConfig, NEW c \in SUBSET Codes
    PROVE  /\ [m EXCEPT !.backup_codes = c] \in MFAConfig
           /\ [m EXCEPT !.backup_codes = c].secret = m.secret
           /\ [m EXCEPT !.backup_codes = c].is_active = m.is_active
           /\ [m EXCEPT !.backup_codes = c].backup_codes = c
BY DEF MFAConfig

(* What is accepted is counted.                                              *)
LEMMA SpendType ==
    ASSUME TypeOK, NEW u \in Users, NEW x \in Codes \cup Ids, Spend(u, x)
    PROVE  /\ spent' \in [Users \X (Codes \cup Ids) -> Nat]
           /\ spent'[<<u, x>>] = spent[<<u, x>>] + 1
           /\ \A v \in Users : \A y \in Codes \cup Ids :
                 <<v, y>> # <<u, x>> => spent'[<<v, y>>] = spent[<<v, y>>]
<1>1. spent \in [Users \X (Codes \cup Ids) -> Nat] /\ <<u, x>> \in Users \X (Codes \cup Ids)
    BY DEF TypeOK
<1>2. spent' = [spent EXCEPT ![<<u, x>>] = spent[<<u, x>>] + 1]
    BY DEF Spend
<1> QED
    BY <1>1, <1>2
----------------------------------------------------------------------------
(* Types *)

(* A request arrives.                                                        *)
LEMMA ArriveType ==
    ASSUME TInv, NEW h \in Handlers, NEW q \in Requests, Arrive(h, q)
    PROVE  TInv'
<1> DEFINE f == [op |-> q.op, q |-> q, cred |-> cred[q.user], mfa |-> mfa[q.user],
                 reset |-> reset, verify |-> verify]
<1>1. /\ UNCHANGED <<cred, mfa, session, reset, verify, apiKey, verified, bearer, confirmed, spent>>
      /\ flight' = [flight EXCEPT ![h] = f]
    BY DEF Arrive, rest
<1>2. q.user \in Users /\ q.op \in {r.op : r \in Requests}
    BY RequestFields
<1>3. f \in Served
    BY <1>2 DEF TInv, TypeOK, Served
<1>4. /\ flight'[h] = f /\ \A g \in Handlers : g # h => flight'[g] = flight[g]
      /\ flight' \in [Handlers -> {Idle} \cup Served]
    BY <1>1, <1>3 DEF TInv, TypeOK
<1>5. RowsPersist'
    BY <1>1, <1>4 DEF TInv, RowsPersist
<1> QED
    BY <1>1, <1>4, <1>5 DEF TInv, TypeOK

(* Time makes rows expire.                                                   *)
LEMMA ExpireType ==
    ASSUME TInv, Expire
    PROVE  /\ TInv' /\ UNCHANGED <<cred, mfa, apiKey, verified, flight, confirmed, spent>>
           /\ \A i \in Ids : /\ session'[i] = Absent <=> session[i] = Absent
                             /\ session[i] # Absent =>
                                   /\ session'[i].user = session[i].user
                                   /\ session'[i].password = session[i].password
                                   /\ session'[i].revoked = session[i].revoked
                                   /\ session[i].expired => session'[i].expired
           /\ \A i \in Ids : /\ reset'[i] = Absent <=> reset[i] = Absent
                             /\ reset[i] # Absent => reset'[i].used = reset[i].used
<1>1. UNCHANGED <<cred, mfa, apiKey, verified, flight, confirmed, spent>>
    BY DEF Expire
<1>2. /\ session \in [Ids -> UserSession \cup {Absent}]
      /\ reset \in [Ids -> MailedToken \cup {Absent}]
      /\ verify \in [Ids -> MailedToken \cup {Absent}] /\ bearer \subseteq Users
    BY DEF TInv, TypeOK
<1>3. /\ session' \in [Ids -> UserSession \cup {Absent}]
      /\ reset' \in [Ids -> MailedToken \cup {Absent}]
      /\ verify' \in [Ids -> MailedToken \cup {Absent}] /\ bearer' \subseteq Users
      /\ \A i \in Ids : /\ session'[i] = Absent <=> session[i] = Absent
                        /\ session[i] # Absent =>
                              /\ session'[i].user = session[i].user
                              /\ session'[i].password = session[i].password
                              /\ session'[i].revoked = session[i].revoked
                              /\ session[i].expired => session'[i].expired
      /\ \A i \in Ids : /\ reset'[i] = Absent <=> reset[i] = Absent
                        /\ reset[i] # Absent => reset'[i].used = reset[i].used
                        /\ verify[i] # Absent => verify'[i] # Absent
    <2>1. ASSUME NEW i \in Rows(session), session' = [session EXCEPT ![i].expired = TRUE],
                 UNCHANGED <<reset, verify, bearer>>
          PROVE  <1>3!:
        <3> DEFINE row == [session[i] EXCEPT !.expired = TRUE]
        <3>1. i \in Ids /\ session[i] \in UserSession
            BY <1>2 DEF Rows
        <3>2. row \in UserSession /\ row # Absent
            BY <3>1, ColumnsSet, RowsArePresent
        <3>3. /\ row.user = session[i].user /\ row.password = session[i].password
              /\ row.revoked = session[i].revoked /\ row.expired
            BY <3>1 DEF UserSession
        <3>4. session' = [session EXCEPT ![i] = row]
            BY <2>1
        <3> HIDE DEF row
        <3> QED
            BY <1>2, <2>1, <3>1, <3>2, <3>3, <3>4, RowsArePresent
    <2>2. ASSUME NEW i \in Rows(reset), reset' = [reset EXCEPT ![i].expired = TRUE],
                 UNCHANGED <<session, verify, bearer>>
          PROVE  <1>3!:
        <3> DEFINE row == [reset[i] EXCEPT !.expired = TRUE]
        <3>1. i \in Ids /\ reset[i] \in MailedToken
            BY <1>2 DEF Rows
        <3>2. row \in MailedToken /\ row # Absent
            BY <3>1, ColumnsSet, RowsArePresent
        <3>3. row.used = reset[i].used
            BY <3>1 DEF MailedToken
        <3>4. reset' = [reset EXCEPT ![i] = row]
            BY <2>2
        <3> HIDE DEF row
        <3> QED
            BY <1>2, <2>2, <3>1, <3>2, <3>3, <3>4, RowsArePresent
    <2>3. ASSUME NEW i \in Rows(verify), verify' = [verify EXCEPT ![i].expired = TRUE],
                 UNCHANGED <<session, reset, bearer>>
          PROVE  <1>3!:
        <3> DEFINE row == [verify[i] EXCEPT !.expired = TRUE]
        <3>1. i \in Ids /\ verify[i] \in MailedToken
            BY <1>2 DEF Rows
        <3>2. row \in MailedToken /\ row # Absent
            BY <3>1, ColumnsSet, RowsArePresent
        <3>3. verify' = [verify EXCEPT ![i] = row]
            BY <2>3
        <3> HIDE DEF row
        <3> QED
            BY <1>2, <2>3, <3>1, <3>2, <3>3, RowsArePresent
    <2>4. ASSUME NEW u \in bearer, bearer' = bearer \ {u}, UNCHANGED <<session, reset, verify>>
          PROVE  <1>3!:
        BY <1>2, <2>4
    <2> QED
        BY <2>1, <2>2, <2>3, <2>4 DEF Expire
<1>4. RowsPersist'
    <2>1. \A h \in Handlers : flight[h] # Idle => flight[h].q.user \in Users
        BY InFlight
    <2> QED
        BY <1>1, <1>3, <2>1 DEF TInv, RowsPersist
<1> QED
    BY <1>1, <1>3, <1>4 DEF TInv, TypeOK
(* A login leaves a session, and takes the backup code it came with.         *)
LEMMA LoginType ==
    ASSUME TInv, NEW h \in Handlers, Login(h)
    PROVE  /\ TInv' /\ UNCHANGED <<reset, verify, apiKey, verified, bearer, confirmed>>
           /\ \A u \in Users : cred'[u].password = cred[u].password
           /\ \A i \in Ids : \/ session'[i] = session[i]
                             \/ /\ session'[i].user = flight[h].q.user
                                /\ session'[i].password = flight[h].cred.password
           /\ \/ UNCHANGED <<mfa, spent>>
              \/ /\ flight[h].mfa # Absent /\ flight[h].q.code \in flight[h].mfa.backup_codes
                 /\ mfa' = [mfa EXCEPT ![flight[h].q.user].backup_codes =
                                           flight[h].mfa.backup_codes \ {flight[h].q.code}]
                 /\ Spend(flight[h].q.user, flight[h].q.code)
<1> DEFINE f == flight[h]
           u == f.q.user
           left == f.mfa.backup_codes \ {f.q.code}
<1>1. /\ f.op = "login" /\ LoginAccepted(f) /\ f # Idle /\ flight' = [flight EXCEPT ![h] = Idle]
      /\ UNCHANGED <<reset, verify, apiKey, verified, bearer, confirmed>>
    BY DEF Login, Serve, Accepts, Idle, rest
<1>2. /\ u \in Users /\ f.q \in Requests /\ f.q.op = "login" /\ f.q.password \in Passwords
      /\ f.mfa # Absent => f.mfa \in MFAConfig /\ mfa[u] \in MFAConfig /\ mfa[u] # Absent
    BY <1>1, InFlight, RequestFields, RowsArePresent
<1>3. PICK i \in Ids \ Rows(session) :
          session' = [session EXCEPT ![i] = [user |-> u, expired |-> FALSE, revoked |-> FALSE,
                                             password |-> f.q.password]]
    BY DEF Login
<1>4. /\ cred \in [Users -> LocalCredential] /\ session \in [Ids -> UserSession \cup {Absent}]
      /\ mfa \in [Users -> MFAConfig \cup {Absent}]
    BY DEF TInv, TypeOK
<1>5. f.q.password = f.cred.password
    BY <1>1 DEF LoginAccepted
<1>6. /\ cred' \in [Users -> LocalCredential]
      /\ \A v \in Users : cred'[v].password = cred[v].password
    <2> DEFINE row == [[cred[u] EXCEPT !.failed_attempts = 0] EXCEPT !.locked = FALSE]
    <2>1. cred[u] \in LocalCredential /\ 0 \in 0 .. MaxFailedAttempts
        <3>1. cred[u] \in LocalCredential
            BY <1>2, <1>4
        <3> QED
            BY <3>1 DEF TInv
    <2>2. row \in LocalCredential
        BY <2>1, Zenon DEF LocalCredential
    <2>3. row.password = cred[u].password
        BY <2>1 DEF LocalCredential
    <2>4. cred' = [cred EXCEPT ![u] = row]
        BY <1>2, <1>4 DEF Login
    <2> HIDE DEF row
    <2> QED
        BY <1>2, <1>4, <2>2, <2>3, <2>4
<1>7. /\ session' \in [Ids -> UserSession \cup {Absent}]
      /\ \A j \in Ids : \/ session'[j] = session[j]
                        \/ session'[j].user = u /\ session'[j].password = f.q.password
    <2> DEFINE row == [user |-> u, expired |-> FALSE, revoked |-> FALSE, password |-> f.q.password]
    <2>1. row \in UserSession
        BY <1>2, Zenon DEF UserSession
    <2>2. row.user = u /\ row.password = f.q.password
        OBVIOUS
    <2>3. session' = [session EXCEPT ![i] = row] /\ i \in Ids
        BY <1>3
    <2> HIDE DEF row
    <2> QED
        BY <1>4, <2>1, <2>2, <2>3
<1>8. CASE UNCHANGED <<mfa, spent>>
    <2>1. TInv'
        BY <1>1, <1>4, <1>6, <1>7, <1>8, HandlerEnds DEF TInv, TypeOK
    <2> QED
        BY <1>1, <1>5, <1>6, <1>7, <1>8, <2>1
<1>9. CASE /\ ActiveMfa(f) /\ ~TotpOk(f.mfa, f.q.code)
           /\ mfa' = [mfa EXCEPT ![u].backup_codes = left]
           /\ Spend(u, f.q.code)
    <2>1. f.mfa # Absent /\ f.q.code \in f.mfa.backup_codes
        BY <1>1, <1>9 DEF LoginAccepted, ActiveMfa, CodeOk, UsableBackup
    <2>2. f.q.code \in Codes /\ left \in SUBSET Codes
        BY <1>2, <2>1 DEF MFAConfig
    <2>3. /\ mfa' \in [Users -> MFAConfig \cup {Absent}]
          /\ \A v \in Users : mfa[v] # Absent => mfa'[v] # Absent
        <3> DEFINE m == [mfa[u] EXCEPT !.backup_codes = left]
        <3>1. m \in MFAConfig /\ m # Absent
            BY <1>2, <2>1, <2>2, CodesTaken, RowsArePresent
        <3>2. mfa' = [mfa EXCEPT ![u] = m]
            BY <1>9
        <3> HIDE DEF m
        <3> QED
            BY <1>2, <1>4, <3>1, <3>2
    <2>4. spent' \in [Users \X (Codes \cup Ids) -> Nat]
        BY <1>2, <1>9, <2>2, SpendType DEF TInv
    <2>5. TInv'
        BY <1>1, <1>4, <1>6, <1>7, <2>3, <2>4, HandlerEnds DEF TInv, TypeOK
    <2> QED
        BY <1>1, <1>5, <1>6, <1>7, <1>9, <2>1, <2>5
<1> QED
    BY <1>8, <1>9 DEF Login

(* A further token is mailed, or an address is verified.                     *)
LEMMA MailType ==
    ASSUME TInv, NEW h \in Handlers, ForgotPassword(h) \/ ResendVerification(h) \/ VerifyEmail(h)
    PROVE  /\ TInv' /\ UNCHANGED <<cred, mfa, session, apiKey, bearer, confirmed, spent>>
           /\ \A i \in Ids : \/ reset'[i] = reset[i]
                             \/ reset[i] = Absent /\ ~reset'[i].used
<1> DEFINE f == flight[h]
<1>1. /\ flight' = [flight EXCEPT ![h] = Idle] /\ f # Idle
      /\ UNCHANGED <<cred, mfa, session, apiKey, bearer, confirmed, spent>>
    BY DEF ForgotPassword, ResendVerification, VerifyEmail, Serve, Idle, rest
<1>2. f.q.user \in Users /\ f.q \in Requests /\ f.op = f.q.op
    BY <1>1, InFlight
<1>3. Token(f.q.user) \in MailedToken /\ Token(f.q.user) # Absent /\ ~Token(f.q.user).used
    <2>1. Token(f.q.user) \in MailedToken
        BY <1>2, Zenon DEF Token, MailedToken
    <2> QED
        BY <2>1, RowsArePresent DEF Token
<1>4. /\ reset \in [Ids -> MailedToken \cup {Absent}]
      /\ verify \in [Ids -> MailedToken \cup {Absent}] /\ verified \in [Users -> BOOLEAN]
    BY DEF TInv, TypeOK
<1>5. CASE ForgotPassword(h)
    <2>1. UNCHANGED <<verify, verified>>
        BY <1>5 DEF ForgotPassword, rest
    <2>2. PICK i \in Ids : reset[i] = Absent /\ reset' = [reset EXCEPT ![i] = Token(f.q.user)]
        BY <1>5 DEF ForgotPassword, Rows
    <2>3. TInv'
        BY <1>1, <1>3, <1>4, <2>1, <2>2, HandlerEnds DEF TInv, TypeOK
    <2> QED
        BY <1>1, <1>3, <1>4, <2>2, <2>3
<1>6. CASE ResendVerification(h)
    <2>1. UNCHANGED <<reset, verified>>
        BY <1>6 DEF ResendVerification, rest
    <2>2. PICK i \in Ids : verify' = [verify EXCEPT ![i] = Token(f.q.user)]
        BY <1>6 DEF ResendVerification
    <2>3. TInv'
        BY <1>1, <1>3, <1>4, <2>1, <2>2, HandlerEnds DEF TInv, TypeOK
    <2> QED
        BY <1>1, <2>1, <2>3
<1>7. CASE VerifyEmail(h)
    <2>1. /\ f.op = "verify_email" /\ Usable(f.verify[f.q.id]) /\ UNCHANGED reset
          /\ verify' = [verify EXCEPT ![f.q.id].used = TRUE]
          /\ verified' = [verified EXCEPT ![verify[f.q.id].user] = TRUE]
        BY <1>7 DEF VerifyEmail, Serve, Accepts
    <2>2. f.q.id \in Ids /\ verify[f.q.id] \in MailedToken
        BY <1>1, <1>2, <2>1, InFlight, RequestFields DEF Usable
    <2>3. /\ verify' \in [Ids -> MailedToken \cup {Absent}]
          /\ \A i \in Ids : verify[i] # Absent => verify'[i] # Absent
        <3> DEFINE row == [verify[f.q.id] EXCEPT !.used = TRUE]
        <3>1. row \in MailedToken /\ row # Absent
            BY <2>2, ColumnsSet, RowsArePresent
        <3>2. verify' = [verify EXCEPT ![f.q.id] = row]
            BY <2>1
        <3> HIDE DEF row
        <3> QED
            BY <1>4, <2>2, <3>1, <3>2
    <2>4. verified' \in [Users -> BOOLEAN]
        <3>1. verify[f.q.id].user \in Users
            BY <2>2 DEF MailedToken
        <3> QED
            BY <1>4, <2>1, <3>1, Zenon
    <2>5. TInv'
        BY <1>1, <2>1, <2>3, <2>4, HandlerEnds DEF TInv, TypeOK
    <2> QED
        BY <1>1, <2>1, <2>5
<1> QED
    BY <1>5, <1>6, <1>7
(* A new password comes with the end of the account's sessions.              *)
LEMMA PasswordType ==
    ASSUME TInv, NEW h \in Handlers, ResetPassword(h) \/ ChangePassword(h)
    PROVE  /\ TInv' /\ UNCHANGED <<mfa, verify, apiKey, verified, bearer, confirmed>>
           /\ \E u \in Users :
                 /\ \A v \in Users : v # u => cred'[v] = cred[v]
                 /\ session' = Revoke(session, u)
                 /\ \/ UNCHANGED <<reset, spent>>
                    \/ \E i \in Ids :
                          /\ Usable(flight[h].reset[i]) /\ reset[i] # Absent /\ reset'[i].used
                          /\ reset'[i] # Absent
                          /\ \A j \in Ids : j # i => reset'[j] = reset[j]
                          /\ Spend(u, i)
<1> DEFINE f == flight[h]
           i == f.q.id
<1>1. /\ flight' = [flight EXCEPT ![h] = Idle] /\ f # Idle /\ f.op \in {"reset_password", "change_password"}
      /\ UNCHANGED <<mfa, verify, apiKey, verified, bearer, confirmed>>
    BY DEF ResetPassword, ChangePassword, Serve, Idle, rest
<1>2. f.q.user \in Users /\ f.q.new \in Passwords /\ f.q \in Requests /\ f.op = f.q.op
    BY <1>1, InFlight, RequestFields
<1>3. /\ cred \in [Users -> LocalCredential] /\ session \in [Ids -> UserSession \cup {Absent}]
      /\ reset \in [Ids -> MailedToken \cup {Absent}] /\ MaxFailedAttempts \in Nat
    BY DEF TInv, TypeOK
<1>4. CASE ChangePassword(h)
    <2> DEFINE u == f.q.user
               row == [cred[u] EXCEPT !.password = f.q.new]
    <2>1. /\ cred' = [cred EXCEPT ![u] = row] /\ session' = Revoke(session, u)
          /\ UNCHANGED <<reset, spent>>
        BY <1>4 DEF ChangePassword
    <2>2. row \in LocalCredential
        <3>1. cred[u] \in LocalCredential
            BY <1>2, <1>3
        <3> QED
            BY <1>2, <3>1, Zenon DEF LocalCredential
    <2> HIDE DEF row
    <2>3. cred' \in [Users -> LocalCredential] /\ \A v \in Users : v # u => cred'[v] = cred[v]
        BY <1>2, <1>3, <2>1, <2>2
    <2>4. session' \in [Ids -> UserSession \cup {Absent}]
        BY <1>3, <2>1, RevokeType
    <2>5. TInv'
        BY <1>1, <2>1, <2>3, <2>4, HandlerEnds DEF TInv, TypeOK
    <2> QED
        BY <1>1, <1>2, <2>1, <2>3, <2>5
<1>5. CASE ResetPassword(h)
    <2> DEFINE u == reset[i].user
               row == [password |-> f.q.new, failed_attempts |-> 0, locked |-> FALSE]
               token == [reset[i] EXCEPT !.used = TRUE]
    <2>1. /\ f.op = "reset_password" /\ Usable(f.reset[i])
          /\ cred' = [cred EXCEPT ![u] = row] /\ session' = Revoke(session, u)
          /\ reset' = [reset EXCEPT ![i] = token] /\ Spend(u, i)
        BY <1>5 DEF ResetPassword, Serve, Accepts
    <2>2. i \in Ids /\ reset[i] \in MailedToken /\ reset[i] # Absent
        BY <1>1, <1>2, <2>1, InFlight, RequestFields, RowsArePresent DEF Usable
    <2>3. u \in Users
        BY <2>2 DEF MailedToken
    <2>4. row \in LocalCredential
        <3>1. 0 \in 0 .. MaxFailedAttempts
            BY <1>3
        <3> QED
            BY <1>2, <3>1, Zenon DEF LocalCredential
    <2>5. token \in MailedToken /\ token # Absent /\ token.used
        <3>1. token.used
            BY <2>2 DEF MailedToken
        <3> QED
            BY <2>2, <3>1, ColumnsSet, RowsArePresent
    <2> HIDE DEF row, token
    <2>6. cred' \in [Users -> LocalCredential] /\ \A v \in Users : v # u => cred'[v] = cred[v]
        BY <1>3, <2>1, <2>3, <2>4
    <2>7. session' \in [Ids -> UserSession \cup {Absent}]
        BY <1>3, <2>1, RevokeType
    <2>8. /\ reset' \in [Ids -> MailedToken \cup {Absent}] /\ reset'[i] = token
          /\ \A j \in Ids : j # i => reset'[j] = reset[j]
        BY <1>3, <2>1, <2>2, <2>5
    <2>9. spent' \in [Users \X (Codes \cup Ids) -> Nat]
        BY <2>1, <2>2, <2>3, SpendType DEF TInv
    <2>10. TInv'
        BY <1>1, <2>2, <2>5, <2>6, <2>7, <2>8, <2>9, HandlerEnds DEF TInv, TypeOK
    <2>11. \E j \in Ids : /\ Usable(flight[h].reset[j]) /\ reset[j] # Absent /\ reset'[j].used
                          /\ reset'[j] # Absent
                          /\ \A k \in Ids : k # j => reset'[k] = reset[k]
                          /\ Spend(u, j)
        BY <2>1, <2>2, <2>5, <2>8
    <2> QED
        BY <1>1, <2>1, <2>3, <2>6, <2>10, <2>11
<1> QED
    BY <1>4, <1>5

(* A second factor is enrolled, confirmed by a code, or given up.            *)
LEMMA MfaType ==
    ASSUME TInv, NEW h \in Handlers, EnrollMFA(h) \/ VerifyMFAEnrollment(h) \/ DisableMFA(h)
    PROVE  /\ TInv' /\ UNCHANGED <<cred, session, reset, verify, apiKey, verified, bearer>>
           /\ flight[h].q.user \in Users
           /\ \A v \in Users : v # flight[h].q.user => mfa'[v] = mfa[v] /\ confirmed'[v] = confirmed[v]
           /\ mfa'[flight[h].q.user] # Absent
           /\ \/ /\ ~mfa'[flight[h].q.user].is_active
                 /\ \A x \in Users \X (Codes \cup Ids) :
                       spent'[x] = IF x[1] = flight[h].q.user /\ x[2] \in Codes THEN 0 ELSE spent[x]
              \/ /\ mfa[flight[h].q.user] # Absent /\ flight[h].q.code = flight[h].mfa.secret
                 /\ mfa'[flight[h].q.user].secret = mfa[flight[h].q.user].secret
                 /\ mfa'[flight[h].q.user].backup_codes = mfa[flight[h].q.user].backup_codes
                 /\ confirmed'[flight[h].q.user] = flight[h].q.code /\ UNCHANGED spent
              \/ /\ mfa[flight[h].q.user] # Absent /\ ~mfa'[flight[h].q.user].is_active
                 /\ mfa'[flight[h].q.user].backup_codes = mfa[flight[h].q.user].backup_codes
                 /\ UNCHANGED spent
              \/ /\ flight[h].mfa # Absent /\ ~mfa'[flight[h].q.user].is_active
                 /\ flight[h].q.code \in flight[h].mfa.backup_codes
                 /\ mfa'[flight[h].q.user].backup_codes = flight[h].mfa.backup_codes \ {flight[h].q.code}
                 /\ Spend(flight[h].q.user, flight[h].q.code)
<1> DEFINE f == flight[h]
           u == f.q.user
<1>1. /\ flight' = [flight EXCEPT ![h] = Idle] /\ f # Idle
      /\ f.op \in {"enroll_mfa", "verify_mfa_enrollment", "disable_mfa"}
      /\ UNCHANGED <<cred, session, reset, verify, apiKey, verified, bearer>>
    BY DEF EnrollMFA, VerifyMFAEnrollment, DisableMFA, Serve, Idle, rest
<1>2. /\ u \in Users /\ f.q \in Requests /\ f.op = f.q.op
      /\ f.mfa # Absent => f.mfa \in MFAConfig /\ mfa[u] \in MFAConfig /\ mfa[u] # Absent
      /\ f.op # "enroll_mfa" => f.q.code \in Secrets \cup Codes
    BY <1>1, InFlight, RequestFields, RowsArePresent
<1>3. /\ mfa \in [Users -> MFAConfig \cup {Absent}]
      /\ confirmed \in [Users -> Secrets \cup Codes \cup {NoCode}]
      /\ spent \in [Users \X (Codes \cup Ids) -> Nat]
    BY DEF TInv, TypeOK
<1>4. CASE EnrollMFA(h)
    <2>1. PICK s \in Secrets : mfa' = [mfa EXCEPT ![u] = [secret |-> s, backup_codes |-> Codes, is_active |-> FALSE]]
        BY <1>4 DEF EnrollMFA
    <2> DEFINE m == [secret |-> s, backup_codes |-> Codes, is_active |-> FALSE]
    <2>2. m \in MFAConfig /\ m # Absent /\ ~m.is_active
        <3>1. m \in MFAConfig
            BY Zenon DEF MFAConfig
        <3> QED
            BY <3>1, RowsArePresent
    <2>3. /\ UNCHANGED confirmed
          /\ spent' = [x \in DOMAIN spent |-> IF x[1] = u /\ x[2] \in Codes THEN 0 ELSE spent[x]]
        BY <1>4 DEF EnrollMFA
    <2> HIDE DEF m
    <2>4. /\ mfa' \in [Users -> MFAConfig \cup {Absent}] /\ mfa'[u] = m
          /\ \A v \in Users : v # u => mfa'[v] = mfa[v]
        BY <1>2, <1>3, <2>1, <2>2 DEF m
    <2>5. /\ spent' \in [Users \X (Codes \cup Ids) -> Nat]
          /\ \A x \in Users \X (Codes \cup Ids) :
                spent'[x] = IF x[1] = u /\ x[2] \in Codes THEN 0 ELSE spent[x]
        BY <1>3, <2>3
    <2>6. TInv'
        BY <1>1, <2>2, <2>3, <2>4, <2>5, HandlerEnds DEF TInv, TypeOK
    <2> QED
        BY <1>1, <1>2, <2>2, <2>3, <2>4, <2>5, <2>6
<1>5. CASE VerifyMFAEnrollment(h)
    <2> DEFINE m == [mfa[u] EXCEPT !.is_active = TRUE]
    <2>1. /\ f.mfa # Absent /\ f.q.code = f.mfa.secret /\ mfa' = [mfa EXCEPT ![u] = m]
          /\ confirmed' = [confirmed EXCEPT ![u] = f.q.code] /\ UNCHANGED spent
        BY <1>5 DEF VerifyMFAEnrollment, Serve, Accepts, TotpOk
    <2>2. m \in MFAConfig /\ m # Absent
        BY <1>2, <2>1, ColumnsSet, RowsArePresent
    <2>3. m.secret = mfa[u].secret /\ m.backup_codes = mfa[u].backup_codes
        BY <1>2, <2>1 DEF MFAConfig
    <2> HIDE DEF m
    <2>4. /\ mfa' \in [Users -> MFAConfig \cup {Absent}] /\ mfa'[u] = m
          /\ \A v \in Users : v # u => mfa'[v] = mfa[v]
        BY <1>2, <1>3, <2>1, <2>2
    <2>5. f.q.code \in Secrets \cup Codes
        BY <1>1, <1>2, <1>5 DEF VerifyMFAEnrollment, Serve
    <2>6. /\ confirmed' \in [Users -> Secrets \cup Codes \cup {NoCode}] /\ confirmed'[u] = f.q.code
          /\ \A v \in Users : v # u => confirmed'[v] = confirmed[v]
        BY <1>2, <1>3, <2>1, <2>5
    <2>7. TInv'
        BY <1>1, <2>1, <2>2, <2>4, <2>6, HandlerEnds DEF TInv, TypeOK
    <2> QED
        BY <1>1, <1>2, <2>1, <2>2, <2>3, <2>4, <2>6, <2>7
<1>6. CASE DisableMFA(h)
    <2> DEFINE off == [mfa[u] EXCEPT !.is_active = FALSE]
               left == f.mfa.backup_codes \ {f.q.code}
    <2>1. f.mfa # Absent /\ CodeOk(f) /\ UNCHANGED confirmed /\ mfa[u] # Absent
        BY <1>2, <1>6 DEF DisableMFA, Serve, Accepts, ActiveMfa
    <2>2. off \in MFAConfig /\ off # Absent
        BY <1>2, <2>1, ColumnsSet, RowsArePresent
    <2>3. off.backup_codes = mfa[u].backup_codes /\ ~off.is_active
        BY <1>2, <2>1 DEF MFAConfig
    <2> HIDE DEF off
    <2>4. CASE TotpOk(f.mfa, f.q.code)
        <3>1. mfa' = [mfa EXCEPT ![u] = off] /\ UNCHANGED spent
            BY <1>6, <2>4 DEF DisableMFA, off
        <3>2. /\ mfa' \in [Users -> MFAConfig \cup {Absent}] /\ mfa'[u] = off
              /\ \A v \in Users : v # u => mfa'[v] = mfa[v]
            BY <1>2, <1>3, <2>2, <3>1
        <3>3. TInv'
            BY <1>1, <2>1, <2>2, <3>1, <3>2, HandlerEnds DEF TInv, TypeOK
        <3> QED
            BY <1>1, <1>2, <2>1, <2>2, <2>3, <3>1, <3>2, <3>3
    <2>5. CASE ~TotpOk(f.mfa, f.q.code)
        <3> DEFINE m == [off EXCEPT !.backup_codes = left]
        <3>1. f.q.code \in f.mfa.backup_codes
            BY <2>1, <2>5 DEF CodeOk, UsableBackup
        <3>2. f.q.code \in Codes /\ left \in SUBSET Codes
            BY <1>2, <2>1, <3>1 DEF MFAConfig
        <3>3. m \in MFAConfig /\ m # Absent /\ m.backup_codes = left /\ ~m.is_active
            BY <2>2, <2>3, <3>2, CodesTaken, RowsArePresent
        <3>4. mfa' = [mfa EXCEPT ![u] = m] /\ Spend(u, f.q.code)
            BY <1>2, <1>3, <1>6, <2>5 DEF DisableMFA, off
        <3> HIDE DEF m
        <3>5. /\ mfa' \in [Users -> MFAConfig \cup {Absent}] /\ mfa'[u] = m
              /\ \A v \in Users : v # u => mfa'[v] = mfa[v]
            BY <1>2, <1>3, <3>3, <3>4
        <3>6. spent' \in [Users \X (Codes \cup Ids) -> Nat]
            BY <1>2, <3>2, <3>4, SpendType DEF TInv
        <3>7. TInv'
            BY <1>1, <2>1, <3>3, <3>5, <3>6, HandlerEnds DEF TInv, TypeOK
        <3> QED
            BY <1>1, <1>2, <2>1, <3>1, <3>3, <3>4, <3>5, <3>7
    <2> QED
        BY <2>4, <2>5
<1> QED
    BY <1>4, <1>5, <1>6
(* Sessions and keys are listed, made and revoked; a refused request leaves  *)
(* nothing.                                                                  *)
LEMMA RevokingType ==
    ASSUME TInv, NEW h \in Handlers,
           \/ RevokeSession(h) \/ RevokeAllSessions(h) \/ CreateAPIKey(h) \/ RevokeAPIKey(h) \/ Refuse(h)
    PROVE  /\ TInv' /\ UNCHANGED <<cred, mfa, reset, verify, verified, bearer, confirmed, spent>>
           /\ \A i \in Ids : /\ session'[i] = Absent <=> session[i] = Absent
                             /\ session[i] # Absent =>
                                   /\ session'[i].user = session[i].user
                                   /\ session'[i].password = session[i].password
                                   /\ session'[i].expired = session[i].expired
                                   /\ session[i].revoked => session'[i].revoked
<1> DEFINE f == flight[h]
<1>1. /\ flight' = [flight EXCEPT ![h] = Idle] /\ f # Idle
      /\ UNCHANGED <<cred, mfa, reset, verify, verified, bearer, confirmed, spent>>
    BY DEF RevokeSession, RevokeAllSessions, CreateAPIKey, RevokeAPIKey, Refuse, Serve, Idle, rest
<1>2. f.q.user \in Users /\ f.q \in Requests /\ f.op = f.q.op
    BY <1>1, InFlight
<1>3. session \in [Ids -> UserSession \cup {Absent}] /\ apiKey \in [Ids -> APIKey \cup {Absent}]
    BY DEF TInv, TypeOK
<1>4. CASE RevokeSession(h)
    <2> DEFINE i == f.q.id
               row == [session[i] EXCEPT !.revoked = TRUE]
    <2>1. /\ f.op = "revoke_session" /\ session[i] # Absent /\ UNCHANGED apiKey
          /\ session' = [session EXCEPT ![i] = row]
        BY <1>4 DEF RevokeSession, Serve, Accepts, Mine, rest
    <2>2. i \in Ids /\ session[i] \in UserSession
        BY <1>2, <1>3, <2>1, RequestFields
    <2>3. row \in UserSession /\ row # Absent
        BY <2>2, ColumnsSet, RowsArePresent
    <2>4. /\ row.user = session[i].user /\ row.password = session[i].password
          /\ row.expired = session[i].expired /\ row.revoked
        BY <2>2 DEF UserSession
    <2> HIDE DEF row
    <2>5. session' \in [Ids -> UserSession \cup {Absent}]
        BY <1>3, <2>1, <2>2, <2>3
    <2>6. TInv'
        BY <1>1, <2>1, <2>5, HandlerEnds DEF TInv, TypeOK
    <2> QED
        BY <1>1, <1>3, <2>1, <2>2, <2>3, <2>4, <2>6
<1>5. CASE RevokeAllSessions(h)
    <2>1. session' = Revoke(session, f.q.user) /\ UNCHANGED apiKey
        BY <1>5 DEF RevokeAllSessions, rest
    <2>2. TInv'
        BY <1>1, <1>3, <2>1, RevokeType, HandlerEnds DEF TInv, TypeOK
    <2>3. \A i \in Ids : session[i] # Absent =>
              /\ session'[i].expired = session[i].expired
              /\ session[i].revoked => session'[i].revoked
        <3> SUFFICES ASSUME NEW i \in Ids, session[i] # Absent
                     PROVE  /\ session'[i].expired = session[i].expired
                            /\ session[i].revoked => session'[i].revoked
            OBVIOUS
        <3>1. session[i] \in UserSession
            BY <1>3
        <3>2. session'[i] = session[i] \/ session'[i] = [session[i] EXCEPT !.revoked = TRUE]
            BY <2>1 DEF Revoke
        <3> QED
            BY <3>1, <3>2 DEF UserSession
    <2> QED
        BY <1>1, <1>3, <2>1, <2>2, <2>3, RevokeType
<1>6. CASE CreateAPIKey(h)
    <2>1. UNCHANGED session
        BY <1>6 DEF CreateAPIKey
    <2>2. PICK i \in Ids : apiKey' = [apiKey EXCEPT ![i] = [user |-> f.q.user, revoked |-> FALSE]]
        BY <1>6 DEF CreateAPIKey
    <2>3. [user |-> f.q.user, revoked |-> FALSE] \in APIKey
        BY <1>2, Zenon DEF APIKey
    <2>4. TInv'
        BY <1>1, <1>3, <2>1, <2>2, <2>3, HandlerEnds DEF TInv, TypeOK
    <2> QED
        BY <1>1, <2>1, <2>4
<1>7. CASE RevokeAPIKey(h)
    <2> DEFINE i == f.q.id
    <2>1. /\ f.op = "revoke_api_key" /\ apiKey[i] # Absent /\ UNCHANGED session
          /\ apiKey' = [apiKey EXCEPT ![i] = [apiKey[i] EXCEPT !.revoked = TRUE]]
        BY <1>7 DEF RevokeAPIKey, Serve, Accepts, Mine
    <2>2. i \in Ids /\ apiKey[i] \in APIKey
        BY <1>2, <1>3, <2>1, RequestFields
    <2>3. [apiKey[i] EXCEPT !.revoked = TRUE] \in APIKey
        BY <2>2, ColumnsSet
    <2>4. TInv'
        BY <1>1, <1>3, <2>1, <2>2, <2>3, HandlerEnds DEF TInv, TypeOK
    <2> QED
        BY <1>1, <2>1, <2>4
<1>8. CASE Refuse(h)
    <2>1. UNCHANGED <<session, apiKey>>
        BY <1>8 DEF Refuse, rest
    <2>2. TInv'
        BY <1>1, <2>1, HandlerEnds DEF TInv, TypeOK
    <2> QED
        BY <1>1, <2>1, <2>2
<1> QED
    BY <1>4, <1>5, <1>6, <1>7, <1>8

(* Every step keeps the types, and what handlers have read where it is.      *)
LEMMA TypeStep == TInv /\ [Next]_vars => TInv'
<1> SUFFICES ASSUME TInv, [Next]_vars PROVE TInv'
    OBVIOUS
<1>1. CASE UNCHANGED vars
    BY <1>1 DEF vars, TInv, TypeOK, RowsPersist
<1>2. CASE Expire
    BY <1>2, ExpireType
<1>3. ASSUME NEW h \in Handlers, NEW q \in Requests, Arrive(h, q) PROVE TInv'
    BY <1>3, ArriveType
<1>4. ASSUME NEW h \in Handlers, Handler(h) PROVE TInv'
    BY <1>4, LoginType, MailType, PasswordType, MfaType, RevokingType DEF Handler
<1> QED
    BY <1>1, <1>2, <1>3, <1>4 DEF Next

(* The types at the start.                                                   *)
LEMMA InitTypes ==
    ASSUME MaxFailedAttempts \in Nat, Init PROVE TInv
<1>1. cred \in [Users -> LocalCredential]
    <2>1. 0 \in 0 .. MaxFailedAttempts
        OBVIOUS
    <2>2. [password: Passwords, failed_attempts: {0}, locked: {FALSE}] \subseteq LocalCredential
        BY <2>1 DEF LocalCredential
    <2>3. cred \in [Users -> [password: Passwords, failed_attempts: {0}, locked: {FALSE}]]
        BY DEF Init
    <2> QED
        BY <2>2, <2>3
<1>2. /\ mfa \in [Users -> MFAConfig \cup {Absent}] /\ session \in [Ids -> UserSession \cup {Absent}]
      /\ reset \in [Ids -> MailedToken \cup {Absent}] /\ verify \in [Ids -> MailedToken \cup {Absent}]
      /\ apiKey \in [Ids -> APIKey \cup {Absent}]
    BY DEF Init
<1>3. /\ verified \in [Users -> BOOLEAN] /\ bearer \subseteq Users
      /\ flight \in [Handlers -> {Idle} \cup Served]
      /\ confirmed \in [Users -> Secrets \cup Codes \cup {NoCode}]
      /\ spent \in [Users \X (Codes \cup Ids) -> Nat]
    BY DEF Init
<1>4. RowsPersist
    BY DEF Init, RowsPersist
<1> QED
    BY <1>1, <1>2, <1>3, <1>4 DEF TInv, TypeOK

(* The rows of every table have their types, whatever the handlers do and in *)
(* whatever order they do it.                                                *)
THEOREM TypeCorrect ==
    ASSUME MaxFailedAttempts \in Nat PROVE Spec => []TypeOK
<1>1. Init => TInv
    BY InitTypes
<1>2. TInv => TypeOK
    BY DEF TInv
<1> QED
    BY <1>1, <1>2, TypeStep, PTL DEF Spec
----------------------------------------------------------------------------
(* One request at a time *)

Alone == \A g, h \in Handlers : g = h

(* When the only handler has ended, nothing that was read is held.           *)
LEMMA NothingHeld ==
    ASSUME TInv, Alone, NEW h \in Handlers, flight' = [flight EXCEPT ![h] = Idle]
    PROVE  ReadIsFresh'
BY DEF Alone, TInv, TypeOK, ReadIsFresh

(* Sessions of an account whose password stays are those listed before, or   *)
(* opened with that password.                                                *)
LEMMA SessionsKept ==
    ASSUME SessionsFollowPassword, \A u \in Users : cred'[u].password = cred[u].password,
           \A i \in Ids :
               session'[i] # Absent =>
                   \/ session'[i].password = cred[session'[i].user].password
                   \/ /\ session[i] # Absent
                      /\ session'[i].user = session[i].user
                      /\ session'[i].password = session[i].password
                      /\ ~session'[i].revoked => ~session[i].revoked
                      /\ ~session'[i].expired => ~session[i].expired
    PROVE  SessionsFollowPassword'
<1> SUFFICES ASSUME NEW u \in Users, NEW i \in ListSessions(u)'
             PROVE  session'[i].password = cred'[u].password
    BY DEF SessionsFollowPassword
<1>1. /\ i \in Ids /\ session'[i] # Absent /\ session'[i].user = u
      /\ ~session'[i].revoked /\ ~session'[i].expired
    BY DEF ListSessions, Rows
<1>2. CASE session'[i].password = cred[session'[i].user].password
    BY <1>1, <1>2
<1>3. CASE /\ session[i] # Absent /\ session'[i].user = session[i].user
           /\ session'[i].password = session[i].password
           /\ ~session'[i].revoked => ~session[i].revoked
           /\ ~session'[i].expired => ~session[i].expired
    <2>1. i \in ListSessions(u)
        BY <1>1, <1>3 DEF ListSessions, Rows
    <2> QED
        BY <1>3, <2>1 DEF SessionsFollowPassword
<1> QED
    BY <1>1, <1>2, <1>3

(* A code that was accepted is one that had not been.                        *)
LEMMA CodeAccepted ==
    ASSUME IInv, Codes \cap Ids = {}, NEW u \in Users, NEW c, mfa[u] # Absent,
           c \in mfa[u].backup_codes, Spend(u, c), UNCHANGED reset,
           mfa'[u] # Absent, mfa'[u].backup_codes = mfa[u].backup_codes \ {c},
           \A v \in Users : v # u => mfa'[v] = mfa[v]
    PROVE  UnusedUnspent' /\ OneTimeProofs'
<1>1. mfa[u] \in MFAConfig
    BY DEF IInv, TInv, TypeOK
<1>2. c \in Codes /\ c \notin Ids
    BY <1>1 DEF MFAConfig
<1>3. /\ spent' \in [Users \X (Codes \cup Ids) -> Nat]
      /\ spent'[<<u, c>>] = spent[<<u, c>>] + 1
      /\ \A v \in Users : \A y \in Codes \cup Ids :
            <<v, y>> # <<u, c>> => spent'[<<v, y>>] = spent[<<v, y>>]
    <2>1. TypeOK /\ c \in Codes \cup Ids
        BY <1>2 DEF IInv, TInv
    <2> QED
        BY <2>1, SpendType, Zenon
<1>4. spent[<<u, c>>] = 0
    BY DEF IInv, UnusedUnspent
<1>5. \A v \in Users : mfa[v] # Absent => mfa[v].backup_codes \subseteq Codes
    BY DEF IInv, TInv, TypeOK, MFAConfig
<1>6. UnusedUnspent'
    <2>1. ASSUME NEW v \in Users, mfa'[v] # Absent, NEW d \in mfa'[v].backup_codes
          PROVE  spent'[<<v, d>>] = 0
        <3>1. mfa[v] # Absent /\ d \in mfa[v].backup_codes /\ <<v, d>> # <<u, c>>
            BY <2>1
        <3>2. spent[<<v, d>>] = 0 /\ d \in Codes
            BY <1>5, <2>1, <3>1 DEF IInv, UnusedUnspent
        <3> QED
            BY <1>3, <3>1, <3>2
    <2>2. ASSUME NEW i \in Ids, NEW v \in Users, reset'[i] = Absent \/ ~reset'[i].used
          PROVE  spent'[<<v, i>>] = 0
        <3>1. spent[<<v, i>>] = 0 /\ <<v, i>> # <<u, c>>
            BY <1>2, <2>2 DEF IInv, UnusedUnspent
        <3> QED
            BY <1>3, <3>1
    <2> QED
        BY <2>1, <2>2 DEF UnusedUnspent
<1>7. OneTimeProofs'
    <2>1. spent \in [Users \X (Codes \cup Ids) -> Nat]
        BY DEF IInv, TInv, TypeOK
    <2>2. ASSUME NEW x \in Users \X (Codes \cup Ids) PROVE spent'[x] <= 1
        <3>1. PICK v \in Users, y \in Codes \cup Ids : x = <<v, y>>
            OBVIOUS
        <3>2. spent[x] <= 1
            BY <2>1 DEF IInv, OneTimeProofs
        <3> QED
            BY <1>3, <1>4, <3>1, <3>2
    <2> QED
        BY <1>3, <2>2 DEF OneTimeProofs
<1> QED
    BY <1>6, <1>7

(* Nothing is accepted: what was unused stays so.                            *)
LEMMA NothingAccepted ==
    ASSUME IInv, UNCHANGED spent,
           \A u \in Users : mfa'[u] # Absent =>
               mfa[u] # Absent /\ mfa'[u].backup_codes = mfa[u].backup_codes,
           \A i \in Ids : reset'[i] = Absent \/ ~reset'[i].used => reset[i] = Absent \/ ~reset[i].used
    PROVE  UnusedUnspent' /\ OneTimeProofs'
<1>1. UnusedUnspent'
    BY DEF IInv, UnusedUnspent
<1>2. OneTimeProofs'
    BY DEF IInv, OneTimeProofs
<1> QED
    BY <1>1, <1>2
(* Every step of a single handler keeps the invariant.                       *)
LEMMA AloneStep ==
    ASSUME Alone, Codes \cap Ids = {}, IInv, [Next]_vars
    PROVE  IInv'
<1>1. TInv /\ TInv'
    BY TypeStep DEF IInv
<1>2. CASE UNCHANGED vars
    BY <1>1, <1>2 DEF vars, IInv, ReadIsFresh, UnusedUnspent, SessionsFollowPassword, ListSessions, Rows,
                      ActiveSecretConfirmed, OneTimeProofs
<1>3. CASE Expire
    <2>1. /\ UNCHANGED <<cred, mfa, apiKey, verified, flight, confirmed, spent>>
          /\ \A i \in Ids : /\ session'[i] = Absent <=> session[i] = Absent
                            /\ session[i] # Absent =>
                                  /\ session'[i].user = session[i].user
                                  /\ session'[i].password = session[i].password
                                  /\ session'[i].revoked = session[i].revoked
                                  /\ session[i].expired => session'[i].expired
          /\ \A i \in Ids : /\ reset'[i] = Absent <=> reset[i] = Absent
                            /\ reset[i] # Absent => reset'[i].used = reset[i].used
        BY <1>1, <1>3, ExpireType
    <2>2. ReadIsFresh'
        <3>1. ASSUME NEW h \in Handlers, flight[h] # Idle, NEW i \in Ids, Usable(flight[h].reset[i])
              PROVE  ~reset'[i].used
            <4>1. flight[h].reset[i] # Absent /\ ~reset[i].used
                BY <3>1 DEF IInv, ReadIsFresh, Usable
            <4>2. reset[i] # Absent
                BY <3>1, <4>1 DEF IInv, TInv, RowsPersist
            <4> QED
                BY <2>1, <4>1, <4>2
        <3> QED
            BY <2>1, <3>1 DEF IInv, ReadIsFresh
    <2>3. SessionsFollowPassword'
        BY <2>1, SessionsKept DEF IInv
    <2>4. UnusedUnspent' /\ OneTimeProofs'
        BY <2>1, NothingAccepted
    <2>5. ActiveSecretConfirmed'
        BY <2>1 DEF IInv, ActiveSecretConfirmed
    <2> QED
        BY <1>1, <2>2, <2>3, <2>4, <2>5 DEF IInv
<1>4. ASSUME NEW h \in Handlers, NEW q \in Requests, Arrive(h, q) PROVE IInv'
    <2> DEFINE f == [op |-> q.op, q |-> q, cred |-> cred[q.user], mfa |-> mfa[q.user],
                     reset |-> reset, verify |-> verify]
    <2>1. /\ UNCHANGED <<cred, mfa, session, reset, verify, apiKey, verified, bearer, confirmed, spent>>
          /\ flight' = [flight EXCEPT ![h] = f]
        BY <1>4 DEF Arrive, rest
    <2>2. flight'[h] = f /\ \A g \in Handlers : g = h
        BY <1>1, <2>1 DEF Alone, TInv, TypeOK
    <2>3. ReadIsFresh'
        BY <2>1, <2>2 DEF ReadIsFresh, Usable
    <2>4. SessionsFollowPassword' /\ ActiveSecretConfirmed'
        BY <2>1 DEF IInv, SessionsFollowPassword, ListSessions, Rows, ActiveSecretConfirmed
    <2>5. UnusedUnspent' /\ OneTimeProofs'
        BY <2>1, NothingAccepted
    <2> QED
        BY <1>1, <2>3, <2>4, <2>5 DEF IInv
<1>5. ASSUME NEW h \in Handlers, Login(h) PROVE IInv'
    <2> DEFINE f == flight[h]
               u == f.q.user
    <2>1. flight' = [flight EXCEPT ![h] = Idle] /\ f # Idle
        BY <1>5 DEF Login, Serve, Idle
    <2>2. u \in Users /\ f.cred = cred[u] /\ f.mfa = mfa[u]
        BY <1>1, <2>1, InFlight DEF IInv, ReadIsFresh
    <2>3. /\ UNCHANGED <<reset, confirmed>>
          /\ \A v \in Users : cred'[v].password = cred[v].password
          /\ \A i \in Ids : \/ session'[i] = session[i]
                            \/ session'[i].user = u /\ session'[i].password = cred[u].password
        BY <1>1, <1>5, <2>2, LoginType
    <2>4. \/ UNCHANGED <<mfa, spent>>
          \/ /\ mfa[u] # Absent /\ f.q.code \in mfa[u].backup_codes
             /\ mfa' = [mfa EXCEPT ![u].backup_codes = mfa[u].backup_codes \ {f.q.code}]
             /\ Spend(u, f.q.code)
        BY <1>1, <1>5, <2>2, LoginType
    <2>5. ReadIsFresh'
        BY <1>1, <2>1, NothingHeld
    <2>6. SessionsFollowPassword'
        BY <2>2, <2>3, SessionsKept DEF IInv
    <2>7. UnusedUnspent' /\ OneTimeProofs' /\ ActiveSecretConfirmed'
        <3>1. CASE UNCHANGED <<mfa, spent>>
            <4>1. UnusedUnspent' /\ OneTimeProofs'
                BY <2>3, <3>1, NothingAccepted
            <4> QED
                BY <2>3, <3>1, <4>1 DEF IInv, ActiveSecretConfirmed
        <3>2. CASE /\ mfa[u] # Absent /\ f.q.code \in mfa[u].backup_codes
                   /\ mfa' = [mfa EXCEPT ![u].backup_codes = mfa[u].backup_codes \ {f.q.code}]
                   /\ Spend(u, f.q.code)
            <4> DEFINE left == mfa[u].backup_codes \ {f.q.code}
                       m == [mfa[u] EXCEPT !.backup_codes = left]
            <4>1. mfa[u] \in MFAConfig /\ left \in SUBSET Codes
                BY <1>1, <2>2, <3>2 DEF TInv, TypeOK, MFAConfig
            <4>2. /\ m # Absent /\ m.secret = mfa[u].secret /\ m.is_active = mfa[u].is_active
                  /\ m.backup_codes = left
                BY SMTT(30), <4>1, CodesTaken, RowsArePresent
            <4>3. mfa' = [mfa EXCEPT ![u] = m]
                BY <3>2
            <4> HIDE DEF m
            <4>4. mfa'[u] = m /\ \A v \in Users : v # u => mfa'[v] = mfa[v]
                BY <1>1, <2>2, <4>3 DEF TInv, TypeOK
            <4>5. UnusedUnspent' /\ OneTimeProofs'
                BY <2>2, <2>3, <3>2, <4>2, <4>4, CodeAccepted
            <4>6. ActiveSecretConfirmed'
                BY ZenonT(30), <2>2, <2>3, <3>2, <4>2, <4>4 DEF IInv, ActiveSecretConfirmed
            <4> QED
                BY <4>5, <4>6
        <3> QED
            BY <2>4, <3>1, <3>2
    <2> QED
        BY <1>1, <2>5, <2>6, <2>7 DEF IInv
<1>6. ASSUME NEW h \in Handlers, ForgotPassword(h) \/ ResendVerification(h) \/ VerifyEmail(h)
      PROVE  IInv'
    <2>1. flight' = [flight EXCEPT ![h] = Idle]
        BY <1>6 DEF ForgotPassword, ResendVerification, VerifyEmail, Serve
    <2>2. /\ UNCHANGED <<cred, mfa, session, confirmed, spent>>
          /\ \A i \in Ids : \/ reset'[i] = reset[i]
                            \/ reset[i] = Absent /\ ~reset'[i].used
        BY <1>1, <1>6, MailType
    <2>3. ReadIsFresh'
        BY <1>1, <2>1, NothingHeld
    <2>4. UnusedUnspent' /\ OneTimeProofs'
        BY <2>2, NothingAccepted
    <2>5. SessionsFollowPassword' /\ ActiveSecretConfirmed'
        BY <2>2 DEF IInv, SessionsFollowPassword, ListSessions, Rows, ActiveSecretConfirmed
    <2> QED
        BY <1>1, <2>3, <2>4, <2>5 DEF IInv
<1>7. ASSUME NEW h \in Handlers, ResetPassword(h) \/ ChangePassword(h) PROVE IInv'
    <2>1. flight' = [flight EXCEPT ![h] = Idle] /\ flight[h] # Idle
        BY <1>7 DEF ResetPassword, ChangePassword, Serve, Idle
    <2>2. UNCHANGED <<mfa, confirmed>>
        BY <1>1, <1>7, PasswordType
    <2>3. PICK u \in Users :
              /\ \A v \in Users : v # u => cred'[v] = cred[v]
              /\ session' = Revoke(session, u)
              /\ \/ UNCHANGED <<reset, spent>>
                 \/ \E i \in Ids :
                       /\ Usable(flight[h].reset[i]) /\ reset[i] # Absent /\ reset'[i].used
                       /\ reset'[i] # Absent
                       /\ \A j \in Ids : j # i => reset'[j] = reset[j]
                       /\ Spend(u, i)
        BY <1>1, <1>7, PasswordType
    <2>4. ReadIsFresh'
        BY <1>1, <2>1, NothingHeld
    <2>5. SessionsFollowPassword'
        <3> SUFFICES ASSUME NEW v \in Users, NEW i \in ListSessions(v)'
                     PROVE  session'[i].password = cred'[v].password
            BY DEF SessionsFollowPassword
        <3>1. session \in [Ids -> UserSession \cup {Absent}]
            BY <1>1 DEF TInv, TypeOK
        <3>2. /\ i \in Ids /\ session'[i] # Absent /\ session'[i].user = v
              /\ ~session'[i].revoked /\ ~session'[i].expired
            BY DEF ListSessions, Rows
        <3>3. session[i] # Absent
            BY <2>3, <3>1, <3>2, RevokeType
        <3>4. /\ session'[i].user = session[i].user /\ session'[i].password = session[i].password
              /\ session'[i].expired = session[i].expired
              /\ session'[i].revoked = (session[i].user = u \/ session[i].revoked)
            BY <2>3, <3>1, <3>2, <3>3, RevokeType
        <3>5. v # u /\ i \in ListSessions(v)
            BY <3>2, <3>3, <3>4 DEF ListSessions, Rows
        <3> QED
            BY <2>3, <3>4, <3>5 DEF IInv, SessionsFollowPassword
    <2>6. UnusedUnspent' /\ OneTimeProofs'
        <3>1. CASE UNCHANGED <<reset, spent>>
            BY <2>2, <3>1, NothingAccepted
        <3>2. ASSUME NEW i \in Ids, Usable(flight[h].reset[i]), reset[i] # Absent, reset'[i].used,
                     reset'[i] # Absent, \A j \in Ids : j # i => reset'[j] = reset[j], Spend(u, i)
              PROVE  UnusedUnspent' /\ OneTimeProofs'
            <4>1. ~reset[i].used /\ i \notin Codes
                BY <2>1, <3>2 DEF IInv, ReadIsFresh
            <4>2. spent[<<u, i>>] = 0
                BY <4>1 DEF IInv, UnusedUnspent
            <4>3. TypeOK /\ i \in Codes \cup Ids /\ spent \in [Users \X (Codes \cup Ids) -> Nat]
                BY <1>1 DEF TInv, TypeOK
            <4>4. /\ spent' \in [Users \X (Codes \cup Ids) -> Nat]
                  /\ spent'[<<u, i>>] = spent[<<u, i>>] + 1
                  /\ \A v \in Users : \A y \in Codes \cup Ids :
                        <<v, y>> # <<u, i>> => spent'[<<v, y>>] = spent[<<v, y>>]
                BY <3>2, <4>3, SpendType, Zenon
            <4>5. ASSUME NEW v \in Users, mfa'[v] # Absent, NEW d \in mfa'[v].backup_codes
                  PROVE  spent'[<<v, d>>] = 0
                <5>1. mfa[v] # Absent /\ d \in mfa[v].backup_codes
                    BY <2>2, <4>5
                <5>2. d \in Codes
                    BY <1>1, <5>1 DEF TInv, TypeOK, MFAConfig
                <5>3. <<v, d>> # <<u, i>>
                    BY <4>1, <5>2
                <5> QED
                    BY <4>4, <5>1, <5>2, <5>3 DEF IInv, UnusedUnspent
            <4>6. ASSUME NEW j \in Ids, NEW v \in Users, reset'[j] = Absent \/ ~reset'[j].used
                  PROVE  spent'[<<v, j>>] = 0
                <5>1. j # i
                    BY <3>2, <4>6
                <5>2. spent[<<v, j>>] = 0 /\ <<v, j>> # <<u, i>>
                    BY <3>2, <4>6, <5>1 DEF IInv, UnusedUnspent
                <5> QED
                    BY <4>4, <5>2
            <4>7. ASSUME NEW x \in Users \X (Codes \cup Ids) PROVE spent'[x] <= 1
                <5>1. PICK v \in Users, y \in Codes \cup Ids : x = <<v, y>>
                    OBVIOUS
                <5>2. spent[x] <= 1
                    BY <4>3 DEF IInv, OneTimeProofs
                <5> QED
                    BY <4>2, <4>4, <5>1, <5>2
            <4> QED
                BY <4>4, <4>5, <4>6, <4>7 DEF UnusedUnspent, OneTimeProofs
        <3> QED
            BY <2>3, <3>1, <3>2
    <2>7. ActiveSecretConfirmed'
        BY <2>2 DEF IInv, ActiveSecretConfirmed
    <2> QED
        BY <1>1, <2>4, <2>5, <2>6, <2>7 DEF IInv
<1>8. ASSUME NEW h \in Handlers, EnrollMFA(h) \/ VerifyMFAEnrollment(h) \/ DisableMFA(h)
      PROVE  IInv'
    <2> DEFINE f == flight[h]
               u == f.q.user
    <2>1. flight' = [flight EXCEPT ![h] = Idle] /\ f # Idle
        <3>1. \E op \in {"enroll_mfa", "verify_mfa_enrollment", "disable_mfa"} : Serve(h, op)
            BY <1>8 DEF EnrollMFA, VerifyMFAEnrollment, DisableMFA
        <3> QED
            BY <3>1 DEF Serve, Idle
    <2>2. u \in Users /\ f.mfa = mfa[u]
        BY <1>1, <2>1, InFlight DEF IInv, ReadIsFresh
    <2>3. /\ UNCHANGED <<cred, session, reset>>
          /\ \A v \in Users : v # u => mfa'[v] = mfa[v] /\ confirmed'[v] = confirmed[v]
          /\ mfa'[u] # Absent
        BY <1>1, <1>8, MfaType
    <2>4. \/ /\ ~mfa'[u].is_active
             /\ \A x \in Users \X (Codes \cup Ids) :
                   spent'[x] = IF x[1] = u /\ x[2] \in Codes THEN 0 ELSE spent[x]
          \/ /\ mfa[u] # Absent /\ f.q.code = mfa[u].secret
             /\ mfa'[u].secret = mfa[u].secret /\ mfa'[u].backup_codes = mfa[u].backup_codes
             /\ confirmed'[u] = f.q.code /\ UNCHANGED spent
          \/ /\ mfa[u] # Absent /\ ~mfa'[u].is_active
             /\ mfa'[u].backup_codes = mfa[u].backup_codes /\ UNCHANGED spent
          \/ /\ mfa[u] # Absent /\ ~mfa'[u].is_active
             /\ f.q.code \in mfa[u].backup_codes
             /\ mfa'[u].backup_codes = mfa[u].backup_codes \ {f.q.code}
             /\ Spend(u, f.q.code)
        BY SMTT(30), <1>1, <1>8, <2>2, MfaType
    <2>5. ReadIsFresh'
        BY <1>1, <2>1, NothingHeld
    <2>6. SessionsFollowPassword'
        BY <2>3 DEF IInv, SessionsFollowPassword, ListSessions, Rows
    <2>7. ActiveSecretConfirmed'
        BY <2>2, <2>3, <2>4 DEF IInv, ActiveSecretConfirmed
    <2>8. UnusedUnspent' /\ OneTimeProofs'
        <3>1. CASE \A x \in Users \X (Codes \cup Ids) :
                       spent'[x] = IF x[1] = u /\ x[2] \in Codes THEN 0 ELSE spent[x]
            <4>1. /\ spent \in [Users \X (Codes \cup Ids) -> Nat]
                  /\ spent' \in [Users \X (Codes \cup Ids) -> Nat]
                BY <1>1 DEF TInv, TypeOK
            <4>2. ASSUME NEW v \in Users, NEW y \in Codes \cup Ids
                  PROVE  spent'[<<v, y>>] = IF v = u /\ y \in Codes THEN 0 ELSE spent[<<v, y>>]
                BY <3>1
            <4>3. ASSUME NEW v \in Users, mfa'[v] # Absent, NEW d \in mfa'[v].backup_codes
                  PROVE  spent'[<<v, d>>] = 0
                <5>1. d \in Codes
                    BY <1>1, <4>3 DEF TInv, TypeOK, MFAConfig
                <5>2. CASE v # u
                    BY <2>3, <4>2, <4>3, <5>1, <5>2 DEF IInv, UnusedUnspent
                <5> QED
                    BY <4>2, <5>1, <5>2
            <4>4. ASSUME NEW i \in Ids, NEW v \in Users, reset'[i] = Absent \/ ~reset'[i].used
                  PROVE  spent'[<<v, i>>] = 0
                BY <2>3, <4>2, <4>4 DEF IInv, UnusedUnspent
            <4>5. ASSUME NEW x \in Users \X (Codes \cup Ids) PROVE spent'[x] <= 1
                <5>1. spent[x] <= 1
                    BY <4>1 DEF IInv, OneTimeProofs
                <5> QED
                    BY <3>1, <5>1
            <4> QED
                BY <4>1, <4>3, <4>4, <4>5 DEF UnusedUnspent, OneTimeProofs
        <3>2. CASE /\ mfa[u] # Absent /\ mfa'[u].backup_codes = mfa[u].backup_codes
                   /\ UNCHANGED spent
            BY <2>2, <2>3, <3>2, NothingAccepted
        <3>3. CASE /\ mfa[u] # Absent /\ f.q.code \in mfa[u].backup_codes
                   /\ mfa'[u].backup_codes = mfa[u].backup_codes \ {f.q.code}
                   /\ Spend(u, f.q.code)
            BY <2>2, <2>3, <3>3, CodeAccepted
        <3> QED
            BY <2>4, <3>1, <3>2, <3>3
    <2> QED
        BY <1>1, <2>5, <2>6, <2>7, <2>8 DEF IInv
<1>9. ASSUME NEW h \in Handlers,
             \/ RevokeSession(h) \/ RevokeAllSessions(h) \/ CreateAPIKey(h) \/ RevokeAPIKey(h)
             \/ Refuse(h)
      PROVE  IInv'
    <2>1. flight' = [flight EXCEPT ![h] = Idle]
        BY <1>9 DEF RevokeSession, RevokeAllSessions, CreateAPIKey, RevokeAPIKey, Refuse, Serve
    <2>2. /\ UNCHANGED <<cred, mfa, reset, verify, verified, bearer, confirmed, spent>>
          /\ \A i \in Ids : /\ session'[i] = Absent <=> session[i] = Absent
                            /\ session[i] # Absent =>
                                  /\ session'[i].user = session[i].user
                                  /\ session'[i].password = session[i].password
                                  /\ session'[i].expired = session[i].expired
                                  /\ session[i].revoked => session'[i].revoked
        BY <1>1, <1>9, RevokingType
    <2>3. ReadIsFresh'
        BY <1>1, <2>1, NothingHeld
    <2>4. SessionsFollowPassword'
        BY <2>2, SessionsKept DEF IInv
    <2>5. UnusedUnspent' /\ OneTimeProofs'
        BY <2>2, NothingAccepted
    <2>6. ActiveSecretConfirmed'
        BY <2>2 DEF IInv, ActiveSecretConfirmed
    <2> QED
        BY <1>1, <2>3, <2>4, <2>5, <2>6 DEF IInv
<1> QED
    BY <1>2, <1>3, <1>4, <1>5, <1>6, <1>7, <1>8, <1>9 DEF Next, Handler
(* The invariant holds where a single handler serves the requests.           *)
LEMMA AloneInvariant ==
    ASSUME Alone, Codes \cap Ids = {}, MaxFailedAttempts \in Nat
    PROVE  Spec => []IInv
<1>1. Init => IInv
    <2> SUFFICES ASSUME Init PROVE IInv
        OBVIOUS
    <2>1. TInv
        BY InitTypes
    <2>2. ReadIsFresh
        BY DEF Init, ReadIsFresh
    <2>3. UnusedUnspent /\ OneTimeProofs
        BY DEF Init, UnusedUnspent, OneTimeProofs
    <2>4. SessionsFollowPassword /\ ActiveSecretConfirmed
        BY DEF Init, SessionsFollowPassword, ListSessions, Rows, ActiveSecretConfirmed
    <2> QED
        BY <2>1, <2>2, <2>3, <2>4 DEF IInv
<1>2. IInv /\ [Next]_vars => IInv'
    BY AloneStep
<1> QED
    BY <1>1, <1>2, PTL DEF Spec

(* "Invalidate all existing sessions" (local.py:365): while requests come    *)
(* one at a time, an account is never shown a session that was opened with   *)
(* another password than the one it has now.                                 *)
THEOREM SessionsEndWithPassword ==
    ASSUME Alone, Codes \cap Ids = {}, MaxFailedAttempts \in Nat
    PROVE  Spec => []SessionsFollowPassword
<1>1. IInv => SessionsFollowPassword
    BY DEF IInv
<1> QED
    BY <1>1, AloneInvariant, PTL

(* An active second factor is the one whose code was checked, and each reset *)
(* token and each backup code of an enrolment is accepted once, while        *)
(* requests come one at a time.                                              *)
THEOREM ProofsAreGivenOnce ==
    ASSUME Alone, Codes \cap Ids = {}, MaxFailedAttempts \in Nat
    PROVE  Spec => []ProofsHold
<1>1. IInv => ProofsHold
    BY DEF IInv, ProofsHold
<1> QED
    BY <1>1, AloneInvariant, PTL
=============================================================================
