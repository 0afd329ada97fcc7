---------------------------- MODULE MCSessions -----------------------------
(***************************************************************************)
(* A small instance of the refresh tokens for TLC: two clients, which are  *)
(* alike, and four tokens.                                                 *)
(***************************************************************************)
EXTENDS RefreshTokens, TLC

MCTokens == 1..4

MCSymmetry == Permutations(Clients)
=============================================================================
