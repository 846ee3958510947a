-------------------------- MODULE MCManagerFactory --------------------------
(***************************************************************************)
(* TLC instance of ManagerFactory: three workers and two keys.             *)
(***************************************************************************)
EXTENDS ManagerFactory
=============================================================================
