------------------------------ MODULE MCWebSocket ------------------------------
(* WebSocket for TLC: frames that are right, and one of each kind that is  *)
(* not.                                                                    *)
EXTENDS WebSocket

F(o, fin, data) == [op |-> o, fin |-> fin, rsv |-> FALSE, masked |-> TRUE,
                    len |-> "7", data |-> data]

MCClientFrame ==
  {F("text", TRUE, <<"l", "t">>), F("text", FALSE, <<"l">>), F("text", FALSE, <<>>),
   F("text", TRUE, <<"t">>), F("binary", FALSE, <<"t">>),
   F("cont", FALSE, <<"a">>), F("cont", TRUE, <<"t">>), F("cont", TRUE, <<>>),
   F("ping", TRUE, <<"a">>), F("ping", FALSE, <<>>), F("pong", TRUE, <<>>),
   F("close", TRUE, <<>>), F("reserved", TRUE, <<>>),
   [F("binary", TRUE, <<"a">>) EXCEPT !.len = "16"],
   [F("binary", TRUE, <<"a">>) EXCEPT !.len = "huge"],
   [F("ping", TRUE, <<"l">>) EXCEPT !.len = "64"],
   [F("binary", TRUE, <<>>) EXCEPT !.masked = FALSE],
   [F("cont", FALSE, <<"a">>) EXCEPT !.rsv = TRUE]}
================================================================================
