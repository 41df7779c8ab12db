---------------------------- MODULE RateLimiter ----------------------------
(***************************************************************************)
(* middleware/rate_limit.py: a sliding window per address and path, kept   *)
(* in Redis as a sorted set of request instants.  One address and one path *)
(* are modelled; the pipeline and the look at the oldest entry are one     *)
(* step.  Instants are ages, and the entry of a request is its instant: of *)
(* two of one instant, from different API processes, one entry is left.    *)
(***************************************************************************)
EXTENDS Integers, FiniteSets, FiniteSetsExt

CONSTANTS LIMITS,      \* path prefix -> [limit, window], as the table of the module
          Path,        \* the path asked for
          PrefixOf,    \* path -> the first prefix of the table it starts with
          Processes    \* API processes

VARIABLES entries,   \* ages of the entries of the sorted set
          admitted,  \* history: age and process of the counted requests let through
          wait,      \* seconds a patient client still has to wait
          refused    \* history: the last answer to that patient client was 429
vars == <<entries, admitted, wait, refused>>

Limit == LIMITS[PrefixOf[Path]].limit
Window == LIMITS[PrefixOf[Path]].window
Older(S) == {a + 1 : a \in S}
Instants == {r[1] : r \in admitted}
By(p) == {r \in admitted : r[2] = p}

\* zremrangebyscore, zcard, zadd: the request is added whatever is decided.
Kept == {a \in entries : a < Window}
AllowedOneMore == Cardinality(Kept) <= Limit   \* Variant
Allowed == Cardinality(Kept) < Limit
RetryAfter == Window - Max(Kept \cup {0}) + 1
Count == entries' = Kept \cup {0}

\* What process p decides; it is asked once in an instant.
Decide(p) ==
  /\ <<0, p>> \notin admitted /\ Count
  /\ admitted' = IF Allowed THEN admitted \cup {<<0, p>>} ELSE admitted

\* Somebody else at that address; a client that waits as long as it is told to;
\* Redis down or failing, when the request is let through uncounted.
Hasty == ~refused /\ (\E p \in Processes : Decide(p)) /\ UNCHANGED <<wait, refused>>
Patient ==
  /\ wait = 0 /\ (\E p \in Processes : Decide(p)) /\ refused' = ~Allowed
  /\ wait' = IF Allowed THEN 0 ELSE RetryAfter
FailOpen == wait = 0 /\ refused' = FALSE /\ UNCHANGED <<entries, admitted, wait>>
Tick ==
  /\ entries' = {a \in Older(entries) : a <= Window}
  /\ admitted' = {<<r[1] + 1, r[2]>> : r \in {r \in admitted : r[1] + 1 < Window}}
  /\ wait' = (IF wait > 0 THEN wait - 1 ELSE 0) /\ UNCHANGED refused

Init == entries = {} /\ admitted = {} /\ wait = 0 /\ refused = FALSE
Next == Hasty \/ Patient \/ FailOpen \/ Tick
Spec == Init /\ [][Next]_vars
\* Time passes and the client asks again; Redis stays up.
FairSpec == Spec /\ WF_vars(Tick) /\ WF_vars(Patient)

-----------------------------------------------------------------------------
\* While Redis answers, at no more instants of a window of the configured length
\* than the limit says is a request let through, and no process lets through more
\* requests, whatever the refused ones in between left behind.  With one process
\* that is the limit; of several, requests of one instant count once.
AdmittedBounded ==
  /\ Cardinality(Instants) <= Limit
  /\ \A p \in Processes : Cardinality(By(p)) <= Limit

\* "Returns 429 with Retry-After" (rate_limit.py:20): a client that is alone at
\* its address and waits as long as it is told gets in.  Refused requests are
\* counted too (rate_limit.py:87).
PatientGetsThrough == refused ~> ~refused
=============================================================================
