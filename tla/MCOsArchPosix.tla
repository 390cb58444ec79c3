---------------------------- MODULE MCOsArchPosix ----------------------------
(***************************************************************************)
(* Small configurations of OsArchPosix for TLC.                            *)
(***************************************************************************)
EXTENDS OsArchPosix, MCOsKernel
===============================================================================
