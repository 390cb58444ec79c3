---------------------------- MODULE MCOsArchFibers ----------------------------
(***************************************************************************)
(* Small configurations of OsArchFibers for TLC.                           *)
(***************************************************************************)
EXTENDS OsArchFibers, MCOsKernel
===============================================================================
