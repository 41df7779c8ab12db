--------------------------- MODULE MCRateLimiter ----------------------------
(* RateLimiter for TLC: a path of the table, its limit and window scaled    *)
(* down from 10 requests in 60 seconds.                                    *)
EXTENDS RateLimiter

Table    == [login |-> [limit |-> 3, window |-> 8], DEFAULT |-> [limit |-> 5, window |-> 8]]
Prefixes == [login |-> "login"]
=============================================================================
