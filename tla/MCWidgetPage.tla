----------------------------- MODULE MCWidgetPage ------------------------------
(* WidgetPage for TLC: an input, a control that needs one script, and a    *)
(* codeview that needs that script and then another.                       *)
EXTENDS WidgetPage

MCStages == [input |-> <<>>, slider |-> <<{"s1"}>>, codeview |-> <<{"s1"}, {"s2"}>>]
================================================================================
