----------------------------- MODULE Licensing -----------------------------
(***************************************************************************)
(* Offline licences: licensing/license.py, licensing/keygen.py and         *)
(* api/license.py.  Time is in days.                                       *)
(***************************************************************************)
EXTENDS Integers, FiniteSets

CONSTANTS Machines, Issuer,     \* the machine the licences are made on
          TrustedKeys, OtherKeys,
          Issued,               \* the days on which licences are issued
          Term,                 \* days a self-hosted licence is issued for
          MaxDay                \* bound

NoMachine == "any machine"
Perpetual == -1
Licence(type, issued, expires, grace, machine, agents, key) ==
  [type |-> type, issued_at |-> issued, expires_at |-> expires, grace_period_days |-> grace,
   fingerprint |-> machine, scanner_agents |-> agents, key |-> key]

\* keygen.py: what can be issued on a day with a key.
issue_license(day, days, key) ==
  Licence("self-hosted", day, day + days, 14, NoMachine, 1, key)
issue_trial(day, key) ==
  Licence("trial", day, day + 14, 3, NoMachine, 1, key)
\* bind_to_hardware: the fingerprint is read where the licence is made.
issue_air_gapped(day, machine, key) ==
  Licence("air-gapped", day, Perpetual, 0, machine, 10, key)
Licences ==
  UNION {{issue_license(d, Term, k), issue_trial(d, k), issue_air_gapped(d, Issuer, k),
          issue_air_gapped(d, NoMachine, k)} : d \in Issued, k \in TrustedKeys \cup OtherKeys}
\* The licence of an installation without one.
developer ==
  Licence("developer", 0, Perpetual, 0, NoMachine, 1, "unsigned")
NoLicence == [type |-> "none"]

VARIABLES today, host,  \* the machine the API process runs on
          file,         \* the licence file or variable found by load_license
          cached,       \* _current_license of the process
          loadedOn      \* history: the day it was loaded
vars == <<today, host, file, cached, loadedOn>>

\* The properties of a License on a day.
is_expired(l, d) == l.expires_at # Perpetual /\ d > l.expires_at
is_in_grace_period(l, d) ==
  l.expires_at # Perpetual /\ l.expires_at < d /\ d <= l.expires_at + l.grace_period_days
is_valid(l, d) == is_in_grace_period(l, d) \/ ~is_expired(l, d)
DaysLeft(l, d) == IF l.expires_at > d THEN l.expires_at - d ELSE 0
ExpiryWarnings(l, d) ==
  IF is_in_grace_period(l, d) THEN {"in grace period"}
  ELSE IF l.expires_at # Perpetual /\ DaysLeft(l, d) <= 30 THEN {"expires soon"} ELSE {}
Warnings(l, d) ==
  ExpiryWarnings(l, d) \cup (IF l = developer THEN {"developer"} ELSE {})
  \cup (IF l.scanner_agents = 1 THEN {"one agent"} ELSE {})

\* verify_license: a known key, this machine, not beyond the grace period.
BoundNowhere(l) == FALSE   \* Variant: the fingerprint is not compared
BoundElsewhere(l) == l.fingerprint # NoMachine /\ l.fingerprint # host
Verified(l) == l.key \in TrustedKeys /\ ~BoundElsewhere(l) /\ is_valid(l, today)
\* load_license and get_license: once loaded, kept.
Loadable == file # NoLicence => Verified(file)
Load == IF file = NoLicence THEN developer ELSE file
Available == cached = NoLicence => Loadable
get_license ==
  IF cached # NoLicence THEN UNCHANGED <<cached, loadedOn>>
  ELSE cached' = Load /\ loadedOn' = today

\* The administrator puts another file in place; the process is restarted, here
\* or on another machine; a day passes.
Install == \E l \in Licences : l.issued_at <= today /\ file' = l
                               /\ UNCHANGED <<today, host, cached, loadedOn>>
Restart ==
  /\ \E m \in Machines : host' = m
  /\ cached' = NoLicence /\ loadedOn' = 0 /\ UNCHANGED <<today, file>>
NextDay == today < MaxDay /\ today' = today + 1 /\ UNCHANGED <<host, file, cached, loadedOn>>

\* GET /license/status, or a route behind gate_feature.  The gate looks for the
\* feature only, not at the term; a 402 leaves the licence loaded too.
Ask == Available /\ get_license /\ UNCHANGED <<today, host, file>>

Init == /\ today = 0 /\ host \in Machines /\ file = NoLicence /\ cached = NoLicence
        /\ loadedOn = 0
Next == Install \/ Restart \/ NextDay \/ Ask
Spec == Init /\ [][Next]_vars
-----------------------------------------------------------------------------
\* "Verified offline" (license.py:8): whatever was installed, moved or restarted
\* in whatever order, the licence in force was signed with a trusted key, for
\* this machine, and had not ended when it was loaded.
InForceWasAccepted ==
  cached \notin {NoLicence, developer} =>
    /\ cached.key \in TrustedKeys /\ cached.fingerprint \in {NoMachine, host}
    /\ is_valid(cached, loadedOn)
\* "grace_period_days: days after expiry before hard cutoff" (license.py:19): no
\* day is the last of a licence in force without a warning that it ends.
NeverCutOffUnwarned ==
  cached # NoLicence /\ is_valid(cached, today) /\ ~is_valid(cached, today + 1)
    => Warnings(cached, today) \cap {"in grace period", "expires soon"} # {}
InForce == InForceWasAccepted /\ NeverCutOffUnwarned
=============================================================================
