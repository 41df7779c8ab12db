----------------------------- MODULE MCAccounts -----------------------------
(* Accounts for TLC with two requests at a time.                            *)
EXTENDS Accounts
=============================================================================
