------------------------------ MODULE MCService ------------------------------
(***************************************************************************)
(* Instances of Service for TLC: everything is given in the .cfg.          *)
(***************************************************************************)
EXTENDS Service
=============================================================================
