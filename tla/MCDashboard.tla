---------------------------- MODULE MCDashboard ----------------------------
(***************************************************************************)
(* A small instance of the dashboard for TLC: two members, one key, one    *)
(* deposit address.                                                        *)
(***************************************************************************)
EXTENDS Dashboard

=============================================================================
