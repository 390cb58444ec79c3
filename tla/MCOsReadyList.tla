----------------------------- MODULE MCOsReadyList -----------------------------
(***************************************************************************)
(* The configurations of MCOsKernel with the ready lists as links.         *)
(***************************************************************************)
EXTENDS MCOsKernel, OsReadyList
===============================================================================
