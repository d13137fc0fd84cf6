----------------------------- MODULE MCBlocking -----------------------------
(***************************************************************************)
(* Instance of module Blocking for TLC by itself, under its own fairness:  *)
(* three parties with an input line each.                                  *)
(***************************************************************************)
EXTENDS Blocking

LinePerParty == <<0, 1, 2>>
=============================================================================
