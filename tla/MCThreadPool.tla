----------------------------- MODULE MCThreadPool -----------------------------
(* ThreadPool for TLC: the values of the constants are in the .cfg file.   *)
EXTENDS ThreadPool
=============================================================================
