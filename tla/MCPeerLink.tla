----------------------------- MODULE MCPeerLink -----------------------------
(* PeerLink for TLC; message ids are ordered, so there is no symmetry.       *)
EXTENDS PeerLink
=============================================================================
