------------------------------ MODULE MCFileTx ------------------------------
(***************************************************************************)
(* FileTx on a small instance.                                             *)
(***************************************************************************)
EXTENDS FileTx
=============================================================================
