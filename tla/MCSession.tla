------------------------------ MODULE MCSession ------------------------------
(***************************************************************************)
(* Instances of module Session for TLC, on the circuits of MCGMW.          *)
(***************************************************************************)
EXTENDS Session, MCGMW
=============================================================================
