------------------------------- MODULE MCAccounts -------------------------------
(* Accounts for TLC; the configurations give the ids. *)
EXTENDS Accounts

================================================================================
