--------------------------- MODULE MCMessageThread ---------------------------
(* Instances of MessageThread for TLC. *)
EXTENDS MessageThread
=============================================================================
