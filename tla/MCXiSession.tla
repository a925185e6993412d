---------------------------- MODULE MCXiSession ----------------------------
(* XiSession with the program's functions as one get and one change. *)
EXTENDS XiSession

OneOfEach == {"datastream_get", "datastream_create"}
=============================================================================
