--------------------------- MODULE MCFadExchange ---------------------------
(* Two record types, ids 1 and 2 one to a page.  Tables that hold one id   *)
(* start with the first: the ids differ in nothing else.                   *)
EXTENDS FadExchange, TLC

TwoTypes == <<"cbsd", "zone">>
MCRecords == [{"cbsd", "zone"} -> {{}, {1}, {1, 2}}]
=============================================================================
