------------------------------- MODULE MCPyRun -------------------------------
(***************************************************************************)
(* Instances of PyRun for TLC.                                             *)
(***************************************************************************)
EXTENDS PyRun
=============================================================================
