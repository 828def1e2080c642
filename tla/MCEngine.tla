------------------------------ MODULE MCEngine ------------------------------
(***************************************************************************)
(* Engine for TLC: the bound on the source is given by the .cfg files.     *)
(***************************************************************************)
EXTENDS Engine
=============================================================================
