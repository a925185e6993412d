--------------------------- MODULE MCEmbeddedComm ---------------------------
(* EmbeddedComm with a few connections: see MCEmbeddedComm.cfg. *)
EXTENDS EmbeddedComm
=============================================================================
