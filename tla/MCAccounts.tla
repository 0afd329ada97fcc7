----------------------------- MODULE MCAccounts -----------------------------
(***************************************************************************)
(* A small instance of an account for TLC: the owner's tab and another.    *)
(***************************************************************************)
EXTENDS Accounts
=============================================================================
