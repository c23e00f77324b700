----------------------------- MODULE MCScanRunner -----------------------------
(***************************************************************************)
(* ScanRunner with its constants given in the configurations.              *)
(***************************************************************************)
EXTENDS ScanRunner
===============================================================================
