---------------------------- MODULE MCThreadServer ----------------------------
(* ThreadServer for TLC: the values of the constants are in the .cfg files. *)
EXTENDS ThreadServer
=============================================================================
