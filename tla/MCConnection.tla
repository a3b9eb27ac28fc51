----------------------------- MODULE MCConnection -----------------------------
(* Connection for TLC: the settings of max_keep_alive_requests (no limit,  *)
(* disabled, and two limits).                                              *)
EXTENDS Connection

MCSettings == {-1, 0, 1, 2}
===============================================================================
