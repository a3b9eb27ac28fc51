----------------------------- MODULE MCHttpdServer -----------------------------
(* HttpdServer for TLC: the values of the constants are in the .cfg files. *)
EXTENDS HttpdServer
=============================================================================
