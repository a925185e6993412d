---------------------------- MODULE MCPosixComm ----------------------------
(* PosixComm with more connections than descriptors: see MCPosixComm.cfg.  *)
EXTENDS PosixComm
=============================================================================
