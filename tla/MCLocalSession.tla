--------------------------- MODULE MCLocalSession ---------------------------
(***************************************************************************)
(* LocalSession on a small instance.                                       *)
(***************************************************************************)
EXTENDS LocalSession
=============================================================================
