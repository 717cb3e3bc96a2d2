-------------------------- MODULE MCUploadSession ---------------------------
(***************************************************************************)
(* UploadSession on a small instance.                                      *)
(***************************************************************************)
EXTENDS UploadSession
=============================================================================
