---------------------------- MODULE MCOsArchHCS12 ----------------------------
(***************************************************************************)
(* Small configurations of OsArchHCS12 for TLC.                            *)
(***************************************************************************)
EXTENDS OsArchHCS12, MCOsKernel
===============================================================================
